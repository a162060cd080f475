CONSTANTS
  Size = 3
  Longest = 1
  Family = "scalars, and a pointer to read through"
  PathBound = 5
  Variables <- MCVariables
  Groups <- MCNodes
  Entry = 0
  FlowGraphs <- MCFlowGraphs
  PrecedesOf <- MCPrecedesOf
  SourcesOf <- MCSourcesOf
  Values <- MCValues
SPECIFICATION PassesSpec
INVARIANTS
  TypeOK
  MeaningIsKept
  NothingErasedIsMentioned
  DefinitionsDominateUses
  ConstantsSurvive
PROPERTY RoundsPromote
