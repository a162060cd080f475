CONSTANTS
  Labels = {l1, l2}
  NoLabel = NoLabel
  MaxCodes = 4
  MaxAllocas = 1
SPECIFICATION Spec
SYMMETRY Interchangeable
INVARIANTS
  TypeOK
  LabelsHaveTheirCode
  NeverThrows
  EdgesAreMirrored
  ControlFlowIsKept
  ReachableCodesHaveOneGroup
  JumpsNameTheirGroups
