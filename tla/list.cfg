CONSTANTS
  Lists = {a, b}
  Nodes = {n1, n2, n3}
  Null = Null
  SizeMod = 4
SPECIFICATION Spec
SYMMETRY Interchangeable
INVARIANTS
  LinksAreConsistent
  NodesKnowTheirList
  SizesAreLengths
  LoopsMissNothing
PROPERTY ActsAsSequences
