SPECIFICATION Spec
CONSTANT Words <- MCWords
INVARIANT ImmediatesAsCommented
