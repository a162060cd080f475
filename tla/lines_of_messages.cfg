CONSTANT MaxLength = 4
SPECIFICATION Spec
INVARIANT MessagesShowTheirLine
