CONSTANTS
  Codes = {c1, c2, c3, c4}
  MaxSources = 2
  Null = Null
SPECIFICATION Spec
SYMMETRY Interchangeable
INVARIANTS
  TypeOK
  UsersMirrorOperands
  OperandsExist
  NothingLeaks
  RemovalLoopIsSafe
