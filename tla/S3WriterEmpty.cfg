CONSTANT MaxWrites = 1
SPECIFICATION Spec
INVARIANT EmptyCommitDurable
