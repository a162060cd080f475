CONSTANTS
  Size = 4
  Edges = 6
  MaxDefs = 2
  Groups <- MCNodes
  Entry = 0
  FlowGraphs <- MCFlowGraphs
  Calls <- MCCalls
SPECIFICATION Spec
INVARIANTS
  FrontiersAreCorrect
  IDFIsLeastClosed
  PhisSuffice
PROPERTY CallsReturn
