CONSTANTS
  Size = 4
  Groups <- MCNodes
  Entry = 0
  FlowGraphs <- MCFlowGraphs
SPECIFICATION Spec
INVARIANTS
  TypeOK
  SemiDominatorsAreLeast
  LevelsAreDepths
PROPERTY BuildsDominatorTree
