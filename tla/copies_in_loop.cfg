CONSTANTS
  Size = 3
  Longest = 2
  Family = "copies in a loop"
  PathBound = 5
  Variables <- MCVariables
  Groups <- MCNodes
  Entry = 0
  FlowGraphs <- MCFlowGraphs
  PrecedesOf <- MCPrecedesOf
  SourcesOf <- MCSourcesOf
  Values <- MCValues
SPECIFICATION PassesSpec
INVARIANT AssignmentsActAsPhis
