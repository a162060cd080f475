------------------------ MODULE ImmediateDominators ------------------------
(***************************************************************************)
(* What BuildDominatorTree of include/IR/dominator_tree.h promises: for    *)
(* the function it is given it returns, in one step as far as a caller can *)
(* tell, the tree in which the parent of a group is its immediate          *)
(* dominator.                                                              *)
(***************************************************************************)
EXTENDS FlowGraph

VARIABLES
    follows,  \* the graph
    tree      \* {} until the tree is built, then {the parent of each group}

Init ==
    /\ follows \in [Groups -> Seq(Groups)]
    /\ tree = {}

IsTree(parent) ==
    LET dom == DominatorMap(follows)
    IN  parent = [b \in Reachable(follows) \ {Entry} |-> ImmediateDominator(dom, b)]

Build ==
    /\ tree = {}
    /\ UNCHANGED follows
    /\ \E parent \in tree' : tree' = {parent} /\ IsTree(parent)

Spec == Init /\ [][Build]_<<follows, tree>>
=============================================================================
