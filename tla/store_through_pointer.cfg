CONSTANTS
  Size = 2
  Longest = 1
  Family = "a pointer to write through"
  PathBound = 4
  Variables <- MCVariables
  Groups <- MCNodes
  Entry = 0
  FlowGraphs <- MCFlowGraphs
  PrecedesOf <- MCPrecedesOf
  SourcesOf <- MCSourcesOf
  Values <- MCValues
SPECIFICATION Spec
INVARIANT NothingErasedIsMentioned
