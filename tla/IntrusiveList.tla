--------------------------- MODULE IntrusiveList ---------------------------
(***************************************************************************)
(* include/utils/list.h: the doubly linked list every instruction list and *)
(* every use list of the IR is, and a loop over one of its lists.          *)
(*                                                                         *)
(* A node carries its own links and a pointer to its list, so it can be    *)
(* unlinked without the list at hand (remove_from_parent).  An iterator    *)
(* remembers the links its node had when it got there, so that the passes  *)
(* can erase the node they stand on and go on.  The actions are the        *)
(* operations of List and ListNode, called the way src/IR calls them: only *)
(* a node that is in no list is inserted, and the body of a loop removes   *)
(* no node of that list but the current one.                               *)
(***************************************************************************)
EXTENDS Naturals, Sequences, FiniteSets, SequencesExt

CONSTANTS
    Lists,
    Nodes,
    Null,
    SizeMod  \* size_t holds the numbers below SizeMod

ASSUME FiniteAssumption == IsFiniteSet(Lists) /\ IsFiniteSet(Nodes)
ASSUME SizeAssumption == SizeMod \in Nat \ {0} /\ Cardinality(Nodes) < SizeMod

\* Dummy heads and tails.  operator= makes a new pair, and destroys one.
Pairs == 1 .. Cardinality(Lists) + 1
HeadOf(p) == [head |-> p]
TailOf(p) == [tail |-> p]
Dummies == {HeadOf(p) : p \in Pairs} \cup {TailOf(p) : p \in Pairs}
Links == Nodes \cup Dummies

ASSUME NullAssumption == Null \notin Links /\ Null \notin Lists
ASSUME DummiesAssumption == Nodes \cap Dummies = {}

VARIABLES
    next, prev,  \* ListNode::next_ and prev_
    parent,      \* ListNode::parent_ (that of a dummy is never read)
    pair,        \* List::dummy_head_ and dummy_tail_
    size,        \* List::size_
    dropped,     \* the nodes break_down cut loose: their list forgot them
    stale,       \* history: the nodes in a list that got there by operator=
    misled,      \* history: remove_from_parent found a node's parent_ to be stale
    loop         \* the running loop, if any

links == <<next, prev>>
history == <<stale, misled>>
vars == <<next, prev, parent, pair, size, dropped, history, loop>>

Head_(l) == HeadOf(pair[l])
Tail_(l) == TailOf(pair[l])

NoLoop == [list |-> Null]
Looping == loop.list # Null

Init ==
    /\ pair = CHOOSE f \in [Lists -> Pairs] : \A l, m \in Lists : f[l] = f[m] => l = m
    /\ next = [n \in Links |-> IF \E l \in Lists : n = Head_(l)
                               THEN TailOf(n.head) ELSE Null]
    /\ prev = [n \in Links |-> IF \E l \in Lists : n = Tail_(l)
                               THEN HeadOf(n.tail) ELSE Null]
    /\ parent = [n \in Nodes |-> Null]
    /\ size = [l \in Lists |-> 0]
    /\ dropped = {}
    /\ stale = {}
    /\ misled = FALSE
    /\ loop = NoLoop

\* The nodes of a list, front to back: what a loop that erases nothing visits.
Contents(l) ==
    LET From[at \in (Links \cup {Null}) \X (0 .. Cardinality(Nodes))] ==
            IF at[1] \notin Nodes \/ at[2] = 0 THEN <<>>
            ELSE <<at[1]>> \o From[<<next[at[1]], at[2] - 1>>]
    IN  From[<<next[Head_(l)], Cardinality(Nodes)>>]

\* The nodes some list holds.
Linked == UNION {ToSet(Contents(l)) : l \in Lists}
Free == Nodes \ (Linked \cup dropped)

-----------------------------------------------------------------------------
(***************************************************************************)
(* Operations.                                                             *)
(***************************************************************************)
\* Mutant of InsertBefore: at keeps its old predecessor.
InsertBeforeForward(l, at, n) ==
    /\ next' = [next EXCEPT ![n] = next[prev[at]], ![prev[at]] = n]
    /\ prev' = [prev EXCEPT ![n] = prev[at]]
    /\ parent' = [parent EXCEPT ![n] = l]
    /\ size' = [size EXCEPT ![l] = (@ + 1) % SizeMod]

\* insert_before(at, n) on list l.
InsertBefore(l, at, n) ==
    /\ next' = [next EXCEPT ![n] = next[prev[at]], ![prev[at]] = n]
    /\ prev' = [prev EXCEPT ![n] = prev[at], ![at] = n]
    /\ parent' = [parent EXCEPT ![n] = l]
    /\ size' = [size EXCEPT ![l] = (@ + 1) % SizeMod]

\* Mutant of InsertAfter: the node is not told its list.
InsertOrphan(l, at, n) ==
    /\ next' = [next EXCEPT ![n] = next[at], ![at] = n]
    /\ prev' = [prev EXCEPT ![n] = prev[next[at]], ![next[at]] = n]
    /\ size' = [size EXCEPT ![l] = (@ + 1) % SizeMod]
    /\ UNCHANGED parent

\* insert_after(at, n) on list l.
InsertAfter(l, at, n) ==
    /\ next' = [next EXCEPT ![n] = next[at], ![at] = n]
    /\ prev' = [prev EXCEPT ![n] = prev[next[at]], ![next[at]] = n]
    /\ parent' = [parent EXCEPT ![n] = l]
    /\ size' = [size EXCEPT ![l] = (@ + 1) % SizeMod]

\* erase of an iterator at n on list l.
Erase(l, n) ==
    /\ next' = [next EXCEPT ![prev[n]] = next[n], ![n] = Null]
    /\ prev' = [prev EXCEPT ![next[n]] = prev[n], ![n] = Null]
    /\ parent' = [parent EXCEPT ![n] = Null]
    /\ size' = [size EXCEPT ![l] = (@ + SizeMod - 1) % SizeMod]

\* A node the loop has erased goes to another list (it would be met again).
MayEnter(l, n) == n \in Free /\ (loop.list = l => n \notin ToSet(loop.visited))

PushBack(l, n) ==
    /\ MayEnter(l, n)
    /\ InsertBefore(l, Tail_(l), n)
    /\ UNCHANGED <<pair, dropped, history, loop>>

PushFront(l, n) ==
    /\ MayEnter(l, n)
    /\ InsertBefore(l, next[Head_(l)], n)
    /\ UNCHANGED <<pair, dropped, history, loop>>

\* insert_before(--end(), n), the way QuitSSAPass inserts before a jump.
InsertBeforeLast(l, n) ==
    /\ MayEnter(l, n)
    /\ prev[Tail_(l)] # Head_(l)
    /\ InsertBefore(l, prev[Tail_(l)], n)
    /\ UNCHANGED <<pair, dropped, history, loop>>

\* insert_after(--end(), n).
InsertAfterLast(l, n) ==
    /\ MayEnter(l, n)
    /\ prev[Tail_(l)] # Head_(l)
    /\ InsertAfter(l, prev[Tail_(l)], n)
    /\ UNCHANGED <<pair, dropped, history, loop>>

\* remove_from_parent: nothing if the node is in no list.
RemoveFromParent(n) ==
    /\ n \notin dropped
    /\ Looping => n \notin ToSet(Contents(loop.list)) \/ n = loop.node
    /\ IF parent[n] # Null
       THEN /\ Erase(parent[n], n)
            /\ stale' = stale \ {n}
            /\ misled' = (misled \/ n \notin ToSet(Contents(parent[n])))
       ELSE UNCHANGED <<links, parent, size, history>>
    /\ UNCHANGED <<pair, dropped, loop>>

\* Mutant of MoveAssign: s keeps its dummies, and with them its nodes.
MoveAndShare(d, s) ==
    /\ d # s
    /\ ~Looping
    /\ LET mine  == ToSet(Contents(d)) \cup {Head_(d), Tail_(d)}
       IN  /\ next' = [n \in Links |-> IF n \in mine THEN Null ELSE next[n]]
           /\ prev' = [n \in Links |-> IF n \in mine THEN Null ELSE prev[n]]
           /\ pair' = [pair EXCEPT ![d] = pair[s]]
           /\ dropped' = dropped \cup ToSet(Contents(d))
    /\ size' = [size EXCEPT ![d] = size[s], ![s] = 0]
    /\ stale' = (stale \ ToSet(Contents(d))) \cup ToSet(Contents(s))
    /\ UNCHANGED <<parent, misled, loop>>

\* Mutant of MoveAssign: the list moved from keeps its size.
MoveAndCountOn(d, s) ==
    /\ d # s
    /\ ~Looping
    /\ LET mine  == ToSet(Contents(d)) \cup {Head_(d), Tail_(d)}
           fresh == CHOOSE p \in Pairs : \A l \in Lists : pair[l] # p
       IN  /\ next' = [n \in Links |-> IF n = HeadOf(fresh) THEN TailOf(fresh)
                                       ELSE IF n \in mine THEN Null ELSE next[n]]
           /\ prev' = [n \in Links |-> IF n = TailOf(fresh) THEN HeadOf(fresh)
                                       ELSE IF n \in mine THEN Null ELSE prev[n]]
           /\ pair' = [pair EXCEPT ![d] = pair[s], ![s] = fresh]
           /\ dropped' = dropped \cup ToSet(Contents(d))
    /\ size' = [size EXCEPT ![d] = size[s]]
    /\ stale' = (stale \ ToSet(Contents(d))) \cup ToSet(Contents(s))
    /\ UNCHANGED <<parent, misled, loop>>

\* d = std::move(s): break_down cuts the nodes of d loose, d takes the dummies
\* of s and with them its nodes, s gets a new pair.  parent_ of no node changes.
MoveAssign(d, s) ==
    /\ d # s
    /\ ~Looping
    /\ LET mine  == ToSet(Contents(d)) \cup {Head_(d), Tail_(d)}
           fresh == CHOOSE p \in Pairs : \A l \in Lists : pair[l] # p
       IN  /\ next' = [n \in Links |-> IF n = HeadOf(fresh) THEN TailOf(fresh)
                                       ELSE IF n \in mine THEN Null ELSE next[n]]
           /\ prev' = [n \in Links |-> IF n = TailOf(fresh) THEN HeadOf(fresh)
                                       ELSE IF n \in mine THEN Null ELSE prev[n]]
           /\ pair' = [pair EXCEPT ![d] = pair[s], ![s] = fresh]
           /\ dropped' = dropped \cup ToSet(Contents(d))
    /\ size' = [size EXCEPT ![d] = size[s], ![s] = 0]
    /\ stale' = (stale \ ToSet(Contents(d))) \cup ToSet(Contents(s))
    /\ UNCHANGED <<parent, misled, loop>>

-----------------------------------------------------------------------------
(***************************************************************************)
(* for(auto iter = l.begin(); iter != l.end(); ++iter): the iterator is    *)
(* loop.node and the links remembered in loop.next.  visited are the nodes *)
(* it has been at, before those the list had when the loop began.          *)
(***************************************************************************)
At(n) == [list |-> loop.list, node |-> n, next |-> next[n],
          before |-> loop.before,
          visited |-> IF n \in Nodes THEN Append(loop.visited, n) ELSE loop.visited]

StartLoop(l) ==
    /\ ~Looping
    /\ LET first == next[Head_(l)]
       IN  loop' = [list |-> l, node |-> first, next |-> next[first],
                    before |-> Contents(l),
                    visited |-> IF first \in Nodes THEN <<first>> ELSE <<>>]
    /\ UNCHANGED <<links, parent, pair, size, dropped, history>>

\* Mutant of EraseCurrent: the iterator goes to the next node, and ++ goes on.
EraseAndGoOn ==
    /\ Looping
    /\ loop.node \in ToSet(Contents(loop.list))
    /\ Erase(loop.list, loop.node)
    /\ stale' = stale \ {loop.node}
    /\ loop' = [loop EXCEPT !.node = loop.next, !.next = next[loop.next]]
    /\ UNCHANGED <<pair, dropped, misled>>

\* The body of the loop erases the node the iterator is at.
EraseCurrent ==
    /\ Looping
    /\ loop.node \in ToSet(Contents(loop.list))
    /\ Erase(loop.list, loop.node)
    /\ stale' = stale \ {loop.node}
    /\ UNCHANGED <<pair, dropped, misled, loop>>

\* ++iter goes to the node remembered as the next one.
Advance ==
    /\ Looping
    /\ loop.node # Tail_(loop.list)
    /\ loop' = At(loop.next)
    /\ UNCHANGED <<links, parent, pair, size, dropped, history>>

EndLoop ==
    /\ Looping
    /\ loop.node = Tail_(loop.list)
    /\ loop' = NoLoop
    /\ UNCHANGED <<links, parent, pair, size, dropped, history>>

-----------------------------------------------------------------------------
Next ==
    \/ \E l \in Lists, n \in Nodes :
            PushBack(l, n) \/ PushFront(l, n) \/ InsertBeforeLast(l, n) \/ InsertAfterLast(l, n)
    \/ \E n \in Nodes : RemoveFromParent(n)
    \/ \E d, s \in Lists : MoveAssign(d, s)
    \/ \E l \in Lists : StartLoop(l)
    \/ EraseCurrent \/ Advance \/ EndLoop

Spec == Init /\ [][Next]_vars

-----------------------------------------------------------------------------
(***************************************************************************)
(* Properties.                                                             *)
(***************************************************************************)
\* The node at place j of s as the nodes of l, the dummies before and after them.
Stop(l, s, j) == IF j = 0 THEN Head_(l) ELSE IF j > Len(s) THEN Tail_(l) ELSE s[j]

\* Each list can be walked in both directions from dummy to dummy and meets the
\* same nodes, no node is in two lists, and a node outside the lists has no
\* links (erasing it would follow a null pointer).
LinksAreConsistent ==
    /\ \A l \in Lists :
        LET s == Contents(l)
        IN  \A j \in 0 .. Len(s) : /\ next[Stop(l, s, j)] = Stop(l, s, j + 1)
                                   /\ prev[Stop(l, s, j + 1)] = Stop(l, s, j)
    /\ \A l, m \in Lists : l # m => ToSet(Contents(l)) \cap ToSet(Contents(m)) = {}
    /\ \A n \in Nodes \ Linked : next[n] = Null /\ prev[n] = Null

\* A node knows the list it is in, so remove_from_parent finds the right one,
\* unless operator= carried the node there and left its parent_ as it was.
NodesKnowTheirList ==
    /\ \A l \in Lists : \A n \in ToSet(Contents(l)) \ stale : parent[n] = l
    /\ \A n \in Free : parent[n] = Null

\* size() is the number of nodes in the list, whatever is inserted, erased by an
\* iterator or moved: it goes wrong, and can wrap around, only after
\* remove_from_parent has followed a parent_ that a move made stale.
SizesAreLengths == ~misled => \A l \in Lists : size[l] = Len(Contents(l))

\* What is in both sequences is in the same order in both, and once.
SameOrder(s, t) ==
    \A i, j \in DOMAIN s, p, q \in DOMAIN t : s[i] = t[p] /\ s[j] = t[q] => (i < j <=> p < q)

\* A loop meets every node the list had when it began, once and in order, even if
\* its body erases the current node, moves it to another list, or inserts nodes
\* before the last one, which the iterator may have remembered as the next.
LoopsMissNothing ==
    (Looping /\ loop.node \in Dummies) =>
        /\ loop.node = Tail_(loop.list)
        /\ ToSet(loop.before) \subseteq ToSet(loop.visited)
        /\ SameOrder(loop.visited, loop.before)

\* What the list promises, see ListContents.
Promise == INSTANCE ListContents WITH contents <- [l \in Lists |-> Contents(l)]

\* Seen from outside, the operations are those of sequences.
ActsAsSequences == Promise!Spec
=============================================================================
