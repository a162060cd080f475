---------------------------- MODULE MCFlowGraph ----------------------------
(***************************************************************************)
(* Small sets of flow graphs for TLC.  Groups are the numbers 0 .. N, the  *)
(* entry is 0.                                                             *)
(***************************************************************************)
EXTENDS Naturals, Sequences, FiniteSets

MCGroups(N) == 0 .. N

LeastPredecessor(g, b) ==
    CHOOSE p \in DOMAIN g : 
        /\ \E i \in DOMAIN g[p] : g[p][i] = b
        /\ \A q \in 0 .. p - 1 : \A i \in DOMAIN g[q] : g[q][i] # b

\* Numbered as a breadth-first walk would: every group but the entry has a
\* predecessor with a smaller number (so all groups are reachable), and these
\* increase.  Each reachable graph can be numbered so.
BreadthFirst(g, N) ==
    /\ \A b \in 1 .. N : \E p \in 0 .. b - 1 : \E i \in DOMAIN g[p] : g[p][i] = b
    /\ \A b \in 1 .. N - 1 : LeastPredecessor(g, b) <= LeastPredecessor(g, b + 1)

\* The graphs BuildFunction makes: the entry ends with a goto and is nobody's
\* target; a group ends with a return, a goto or a conditional branch, whose
\* two labels may be the same.
CompiledGraphs(N) ==
    LET targets == 1 .. N
        ends == {<<>>} \cup {<<a>> : a \in targets} \cup {<<a, b>> : a, b \in targets}
        bodies == [targets -> ends]
        graph(f) == [b \in 0 .. N |-> IF b = 0 THEN <<1>> ELSE f[b]]
    IN  {g \in {graph(f) : f \in bodies} : BreadthFirst(g, N)}

\* Any graph of at most Edges edges in which the entry reaches every group;
\* edges back to the entry are included.  The edges of a group are in
\* increasing order, and there are at most two of them.
AnyGraphs(N, Edges) ==
    LET ends == {<<>>} \cup {<<a>> : a \in 0 .. N}
                \cup {e \in {<<a, b>> : a, b \in 0 .. N} : e[1] < e[2]}
        Total[g \in [0 .. N -> ends], n \in 0 .. N] ==
            Len(g[n]) + IF n = 0 THEN 0 ELSE Total[g, n - 1]
    IN  {g \in [0 .. N -> ends] : Total[g, N] <= Edges /\ BreadthFirst(g, N)}
=============================================================================
