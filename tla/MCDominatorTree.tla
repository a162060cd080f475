-------------------------- MODULE MCDominatorTree --------------------------
(* DominatorTree on all the graphs BuildFunction can make of Size groups    *)
(* besides the entry.                                                       *)
EXTENDS DominatorTree, MCFlowGraph
CONSTANT Size
MCFlowGraphs == CompiledGraphs(Size)
MCNodes == MCGroups(Size)
=============================================================================
