CONSTANTS
  NoLabel = 0
  Labels <- NineLabels
  MaxCodes = 40
  MaxAllocas = 6
  MaxEvents = 5
  Functions <- DereferenceStatements
  TypeOf <- TypeOfName
SPECIFICATION Spec
INVARIANT ThrowsIfIllFormed
