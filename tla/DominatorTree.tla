--------------------------- MODULE DominatorTree ---------------------------
(***************************************************************************)
(* src/IR/dominator_tree.cpp: DominatorTreeBuilder, the Lengauer-Tarjan    *)
(* construction of the dominator tree of a function.                       *)
(*                                                                         *)
(* Groups are numbered 0, 1, ... in the order a depth-first walk first     *)
(* meets them; the vectors of the builder are functions of these numbers.  *)
(* The recursion of assign_index is the variable stack, whose last frame   *)
(* is the running call.  The builder is one thread of control: phase says  *)
(* which of its loops is running, i and k are the loops' indices.          *)
(***************************************************************************)
EXTENDS FlowGraph, Functions

VARIABLES
    follows,  \* BasicGroup::follows_, the input
    phase,    \* the loop that is running
    stack,    \* the calls of assign_index: [group, next edge to look at]
    order,    \* index_to_basic_group_; basic_group_to_index_ is its inverse
    father,   \* father_: the parent in the depth-first tree
    previous, \* previous_ids_: the numbers of the predecessors
    semi,     \* semi_dominator_
    bucket,   \* bucket_: the nodes whose semi-dominator this is
    idom,     \* immediate_dominator_
    forest,   \* UnionFind::father_
    minAnc,   \* UnionFind::min_ancestor_
    i, k,     \* the outer and the inner loop's position
    parent,   \* DominatorTreeNode::parent_ of the tree nodes made so far
    level,    \* DominatorTreeNode::level
    queue     \* working_queue of the level pass

numbering == <<stack, order, father, previous>>
unionFind == <<forest, minAnc>>
tree      == <<parent, level, queue>>
vars == <<follows, phase, numbering, semi, bucket, idom, unionFind, i, k, tree>>

Index == 0 .. Cardinality(Groups) - 1
Count == Len(order)  \* node_count
GroupAt(n) == order[n + 1]
Numbered(b) == b \in Range(order)
IndexOf(b) == CHOOSE n \in 0 .. Count - 1 : GroupAt(n) = b

Init ==
    /\ follows \in FlowGraphs
    /\ phase = "number"
    /\ stack = <<[group |-> Entry, next |-> 1]>>
    /\ order = <<Entry>>
    /\ father = [n \in Index |-> 0]
    /\ previous = [n \in Index |-> <<>>]
    /\ semi = [n \in Index |-> 0]
    /\ bucket = [n \in Index |-> <<>>]
    /\ idom = [n \in Index |-> 0]
    /\ forest = [n \in Index |-> n]
    /\ minAnc = [n \in Index |-> n]
    /\ i = 0
    /\ k = 1
    /\ parent = << >>
    /\ level = [n \in Index |-> 0]
    /\ queue = <<0>>

-----------------------------------------------------------------------------
(***************************************************************************)
(* assign_index.                                                           *)
(***************************************************************************)
Frame == stack[Len(stack)]
MoreFollows == Frame.next <= Len(follows[Frame.group])
Follow == follows[Frame.group][Frame.next]

\* Look at an edge to a group that has no number: number it and recurse.
Descend ==
    /\ phase = "number"
    /\ MoreFollows
    /\ ~Numbered(Follow)
    /\ order' = Append(order, Follow)
    /\ stack' = Append(stack, [group |-> Follow, next |-> 1])
    /\ UNCHANGED <<follows, phase, father, previous, semi, bucket, idom, unionFind, i, k, tree>>

\* Look at an edge to a group that has a number already.
SeenFollow ==
    /\ phase = "number"
    /\ MoreFollows
    /\ Numbered(Follow)
    /\ previous' = [previous EXCEPT ![IndexOf(Follow)] = Append(@, IndexOf(Frame.group))]
    /\ stack' = [stack EXCEPT ![Len(stack)].next = @ + 1]
    /\ UNCHANGED <<follows, phase, order, father, semi, bucket, idom, unionFind, i, k, tree>>

\* The call for a group returns; its caller records the tree edge.
ReturnToCaller ==
    /\ phase = "number"
    /\ ~MoreFollows
    /\ Len(stack) > 1
    /\ LET child  == IndexOf(Frame.group)
           caller == Len(stack) - 1
           up     == IndexOf(stack[caller].group)
       IN  /\ father' = [father EXCEPT ![child] = up]
           /\ semi' = [semi EXCEPT ![child] = child]
           /\ previous' = [previous EXCEPT ![child] = Append(@, up)]
           /\ stack' = [SubSeq(stack, 1, caller) EXCEPT ![caller].next = @ + 1]
    /\ UNCHANGED <<follows, phase, order, bucket, idom, unionFind, i, k, tree>>

\* The outermost call returns; the loop over the numbers starts at the last.
NumberingDone ==
    /\ phase = "number"
    /\ ~MoreFollows
    /\ Len(stack) = 1
    /\ stack' = <<>>
    /\ phase' = IF Count > 1 THEN "semi" ELSE "level"
    /\ i' = Count - 1
    /\ UNCHANGED <<follows, order, father, previous, semi, bucket, idom, unionFind, k, tree>>

-----------------------------------------------------------------------------
(***************************************************************************)
(* build_immediate_dominators and UnionFind.                               *)
(***************************************************************************)
\* The nodes merge_path(x) visits, x to the root of its tree.
PathOf(x) ==
    LET Up[n \in Index] == IF forest[n] = n THEN {n} ELSE {n} \cup Up[forest[n]]
    IN  Up[x]

RootOf(x) ==
    LET Up[n \in Index] == IF forest[n] = n THEN n ELSE Up[forest[n]]
    IN  Up[x]

\* Mutant of MinAncestor: the root of the path, not its least ancestor.
RootAsAncestor(x) == RootOf(x)

\* min_ancestor_ of x once merge_path(x) has returned.  UnionFind reads the
\* semi-dominators through a reference, so they are the current ones.
MinAncestor(x) ==
    LET Up[n \in Index] ==
            IF forest[n] = n
            THEN minAnc[n]
            ELSE LET up == Up[forest[n]]
                 IN  IF semi[up] < semi[minAnc[n]] THEN up ELSE minAnc[n]
    IN  Up[x]

\* get_min_ancestor(x): path compression.
MergePath(x) ==
    /\ forest' = [n \in Index |-> IF n \in PathOf(x) THEN RootOf(x) ELSE forest[n]]
    /\ minAnc' = [n \in Index |-> IF n \in PathOf(x) THEN MinAncestor(n) ELSE minAnc[n]]

\* Take the next predecessor of i into account in its semi-dominator.
EvalPrevious ==
    /\ phase = "semi"
    /\ k <= Len(previous[i])
    /\ MergePath(previous[i][k])
    /\ LET candidate == semi[MinAncestor(previous[i][k])]
       IN  semi' = [semi EXCEPT ![i] = IF candidate < @ THEN candidate ELSE @]
    /\ k' = k + 1
    /\ UNCHANGED <<follows, phase, numbering, bucket, idom, i, tree>>

\* The semi-dominator of i is known: file i under it, link i to its father.
LinkToFather ==
    /\ phase = "semi"
    /\ k > Len(previous[i])
    /\ bucket' = [bucket EXCEPT ![semi[i]] = Append(@, i)]
    /\ forest' = [forest EXCEPT ![i] = father[i]]
    /\ phase' = "bucket"
    /\ k' = 1
    /\ UNCHANGED <<follows, numbering, semi, idom, minAnc, i, tree>>

\* Give the next node that waits in the bucket of i's father its (possibly
\* provisional) immediate dominator.
EvalBucket ==
    /\ phase = "bucket"
    /\ k <= Len(bucket[father[i]])
    /\ LET node == bucket[father[i]][k]
           best == MinAncestor(node)
       IN  /\ MergePath(node)
           /\ idom' = [idom EXCEPT ![node] = IF semi[best] = semi[node] THEN father[i] ELSE best]
    /\ k' = k + 1
    /\ UNCHANGED <<follows, phase, numbering, semi, bucket, i, tree>>

ClearBucket ==
    /\ phase = "bucket"
    /\ k > Len(bucket[father[i]])
    /\ bucket' = [bucket EXCEPT ![father[i]] = <<>>]
    /\ k' = 1
    /\ IF i > 1
       THEN i' = i - 1 /\ phase' = "semi"
       ELSE i' = 1 /\ phase' = "fix"
    /\ UNCHANGED <<follows, numbering, semi, idom, unionFind, tree>>

\* Mutant of FixIdom: one node too many.
FixOneTooMany ==
    /\ phase = "fix"
    /\ idom' = [idom EXCEPT ![i] = IF @ # semi[i] THEN idom[@] ELSE @]
    /\ IF i < Count
       THEN i' = i + 1 /\ UNCHANGED phase
       ELSE i' = 1 /\ phase' = "tree"
    /\ UNCHANGED <<follows, numbering, semi, bucket, unionFind, k, tree>>

\* Mutant of FixIdom: the provisional immediate dominators stay.
FixNothing ==
    /\ phase = "fix"
    /\ IF i + 1 < Count
       THEN i' = i + 1 /\ UNCHANGED phase
       ELSE i' = 1 /\ phase' = "tree"
    /\ UNCHANGED <<follows, numbering, semi, bucket, idom, unionFind, k, tree>>

\* The last pass, in increasing order: follow one provisional link.
FixIdom ==
    /\ phase = "fix"
    /\ idom' = [idom EXCEPT ![i] = IF @ # semi[i] THEN idom[@] ELSE @]
    /\ IF i + 1 < Count
       THEN i' = i + 1 /\ UNCHANGED phase
       ELSE i' = 1 /\ phase' = "tree"
    /\ UNCHANGED <<follows, numbering, semi, bucket, unionFind, k, tree>>

-----------------------------------------------------------------------------
(***************************************************************************)
(* consturct_dominator_tree.                                               *)
(***************************************************************************)
\* nodes_[i] is made and hung below nodes_[idom[i]].
AddTreeNode ==
    /\ phase = "tree"
    /\ parent' = Append(parent, idom[i])
    /\ IF i + 1 < Count
       THEN i' = i + 1 /\ UNCHANGED phase
       ELSE i' = i /\ phase' = "level"
    /\ UNCHANGED <<follows, numbering, semi, bucket, idom, unionFind, k, level, queue>>

\* children_ of a node, in the order they were hung below it.
Children(n) ==
    LET Upto[c \in 0 .. Len(parent)] ==
            IF c = 0 THEN <<>>
            ELSE IF parent[c] = n THEN Append(Upto[c - 1], c) ELSE Upto[c - 1]
    IN  Upto[Len(parent)]

\* Mutant of AssignLevel: the children of the root keep level 0.
LevelOfParent ==
    /\ phase = "level"
    /\ queue # <<>>
    /\ LET children == Children(Head(queue))
       IN  /\ level' = [n \in Index |->
                            IF n \in Range(children) /\ Head(queue) # 0
                            THEN level[Head(queue)] + 1 ELSE level[n]]
           /\ queue' = Tail(queue) \o children
    /\ UNCHANGED <<follows, phase, numbering, semi, bucket, idom, unionFind, i, k, parent>>

AssignLevel ==
    /\ phase = "level"
    /\ queue # <<>>
    /\ LET children == Children(Head(queue))
       IN  /\ level' = [n \in Index |->
                            IF n \in Range(children) THEN level[Head(queue)] + 1 ELSE level[n]]
           /\ queue' = Tail(queue) \o children
    /\ UNCHANGED <<follows, phase, numbering, semi, bucket, idom, unionFind, i, k, parent>>

ReturnTree ==
    /\ phase = "level"
    /\ queue = <<>>
    /\ phase' = "done"
    /\ UNCHANGED <<follows, numbering, semi, bucket, idom, unionFind, i, k, tree>>

\* The tree has been returned: nothing changes any more.
Finished == phase = "done" /\ UNCHANGED vars

Next ==
    \/ Descend \/ SeenFollow \/ ReturnToCaller \/ NumberingDone
    \/ EvalPrevious \/ LinkToFather \/ EvalBucket \/ ClearBucket \/ FixIdom
    \/ AddTreeNode \/ AssignLevel \/ ReturnTree
    \/ Finished

\* One thread of control that nothing blocks: it takes its next step.
Spec == Init /\ [][Next]_vars /\ WF_vars(Next)

-----------------------------------------------------------------------------
(***************************************************************************)
(* Properties.                                                             *)
(***************************************************************************)
\* The vectors of DominatorTreeBuilder hold numbers of nodes, no index is out of
\* range, and no group is numbered twice.
TypeOK ==
    /\ follows \in [Groups -> Seq(Groups)]
    /\ phase \in {"number", "semi", "bucket", "fix", "tree", "level", "done"}
    /\ stack \in Seq([group : Groups, next : Nat \ {0}])
    /\ order \in Seq(Groups) /\ IsInjective(order)
    /\ father \in [Index -> Index]
    /\ previous \in [Index -> Seq(Index)]
    /\ semi \in [Index -> Index]
    /\ bucket \in [Index -> Seq(Index)]
    /\ idom \in [Index -> Index]
    /\ forest \in [Index -> Index]
    /\ minAnc \in [Index -> Index]
    /\ i \in Index
    /\ k \in Nat \ {0}
    /\ parent \in Seq(Index)
    /\ level \in [Index -> Nat]
    /\ queue \in Seq(Index)

\* n and the nodes above n from which a path of nodes above n leads to n: the
\* least set that holds n and, with a node, its predecessors above n.
Approach(n) ==
    LET isClosed(S) == /\ n \in S
                       /\ \A m \in S : \A p \in n + 1 .. Count - 1 :
                              GroupAt(m) \in Successors(follows, GroupAt(p)) => p \in S
    IN  {m \in 0 .. Count - 1 : \A S \in SUBSET (0 .. Count - 1) : isClosed(S) => m \in S}

\* When build_immediate_dominators is done with the semi-dominators, each is the
\* least node from which a path leads to its node through larger nodes only,
\* although the union-find answers from compressed paths and from values that
\* change under it.
SemiDominatorsAreLeast ==
    phase = "fix" =>
        \A n \in 1 .. Count - 1 :
            LET candidates ==
                    {p \in 0 .. n - 1 : \E m \in Approach(n) :
                        GroupAt(m) \in Successors(follows, GroupAt(p))}
            IN  /\ semi[n] \in candidates
                /\ \A c \in candidates : semi[n] <= c

\* The levels IsDominatorOf climbs by are the numbers of strict dominators:
\* of dominators but the node itself.
LevelsAreDepths ==
    phase = "done" =>
        LET dom == DominatorMap(follows)
        IN  \A n \in 0 .. Count - 1 : level[n] = Cardinality(dom[GroupAt(n)]) - 1

\* What BuildDominatorTree promises its callers, see ImmediateDominators.
Promise == INSTANCE ImmediateDominators WITH
    tree <- IF phase # "done" THEN {}
            ELSE {[b \in Range(order) \ {Entry} |-> GroupAt(parent[IndexOf(b)])]}

\* Whatever the builder does in between, the first tree its caller sees is the
\* tree of immediate dominators of the whole graph.
BuildsDominatorTree == Promise!Spec
=============================================================================
