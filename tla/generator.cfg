CONSTANTS
  NoLabel = 0
  Labels <- NineLabels
  MaxCodes = 40
  MaxAllocas = 6
  MaxEvents = 5
  Functions <- Translated
  TypeOf <- TypeOfName
SPECIFICATION Spec
INVARIANTS
  RunsAsWritten
  ThrowsIfIllFormed
PROPERTY
  ClientIsDisciplined
