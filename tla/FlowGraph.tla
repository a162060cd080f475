----------------------------- MODULE FlowGraph -----------------------------
(***************************************************************************)
(* The control flow graph the IR passes of siiLang work on                 *)
(* (include/IR/function.h): basic groups, each with the vector follows_ of *)
(* the groups control may go to next, and the entry group.  A graph is     *)
(* passed around as the function follows; the notions below are the        *)
(* textbook definitions the algorithms of src/IR are compared with, and    *)
(* have no counterpart in the code itself.                                 *)
(***************************************************************************)
EXTENDS Naturals, Sequences, FiniteSets

CONSTANTS
    Groups,     \* the basic groups of a function
    Entry,      \* Function::entry_
    FlowGraphs  \* the values follows may have

ASSUME EntryAssumption == Entry \in Groups
ASSUME GroupsAssumption == IsFiniteSet(Groups)
ASSUME FlowGraphsAssumption ==
    \A follows \in FlowGraphs : follows \in [Groups -> Seq(Groups)]

\* The set of groups control may reach from b in one step.
Successors(follows, b) == {follows[b][i] : i \in DOMAIN follows[b]}

Predecessors(follows, b) == {p \in Groups : b \in Successors(follows, p)}

\* S holds Entry and whatever an edge leads to without entering cut.
ClosedAvoiding(follows, cut, S) ==
    /\ Entry \in S \cup cut
    /\ \A b \in S : Successors(follows, b) \subseteq S \cup cut

\* The groups a path from Entry reaches without entering cut: the least such S.
ReachableAvoiding(follows, cut) ==
    {b \in Groups \ cut :
        \A S \in SUBSET (Groups \ cut) : ClosedAvoiding(follows, cut, S) => b \in S}

Reachable(follows) == ReachableAvoiding(follows, {})

\* The dominators of each group: a dominates b if no path from Entry reaches b
\* without a.
DominatorMap(follows) ==
    LET missed == [a \in Groups |-> ReachableAvoiding(follows, {a})]
    IN  [b \in Groups |-> {a \in Groups : b \notin missed[a]}]

\* The immediate dominator of b under dom = DominatorMap(follows): the strict
\* dominator that all the strict dominators dominate.
ImmediateDominator(dom, b) ==
    CHOOSE a \in dom[b] \ {b} : dom[b] \ {b} \subseteq dom[a]

\* The dominance frontier of b: the groups b does not strictly dominate although
\* it dominates one of their predecessors.
DominanceFrontier(follows, dom, b) ==
    {y \in Groups : /\ b \notin dom[y] \ {y}
                    /\ \E p \in Predecessors(follows, y) : b \in dom[p]}

\* S holds the frontiers, given by df, of all the groups of defs and its own.
ClosedUnder(df, defs, S) == \A b \in defs \cup S : df[b] \subseteq S

IteratedFrontier(df, defs) ==
    {b \in Groups : \A S \in SUBSET Groups : ClosedUnder(df, defs, S) => b \in S}

\* BuildFunction makes groups of what control can reach only (FunctionBuilder).
ASSUME ConnectedAssumption == \A follows \in FlowGraphs : Reachable(follows) = Groups
=============================================================================
