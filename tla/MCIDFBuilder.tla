---------------------------- MODULE MCIDFBuilder ----------------------------
(* IDFBuilder on small flow graphs, called with every list of at most       *)
(* MaxDefs groups, repetitions included.                                    *)
EXTENDS IDFBuilder, MCFlowGraph
CONSTANTS Size, Edges, MaxDefs
MCNodes == MCGroups(Size)
MCFlowGraphs == AnyGraphs(Size, Edges)
MCCalls == UNION {[1 .. n -> MCNodes] : n \in 0 .. MaxDefs}
=============================================================================
