---------------------------- MODULE ListContents ----------------------------
(***************************************************************************)
(* What List of include/utils/list.h promises its callers: lists are       *)
(* disjoint sequences of nodes.  A node in no list can be inserted at any  *)
(* place, a node can be removed, and a list can take over another one.     *)
(***************************************************************************)
EXTENDS Naturals, Sequences, SequencesExt

CONSTANTS Lists, Nodes

VARIABLE contents

Init == contents = [l \in Lists |-> <<>>]

Insert(l, place, n) ==
    /\ \A m \in Lists : n \notin ToSet(contents[m])
    /\ contents' = [contents EXCEPT ![l] = InsertAt(@, place, n)]

Delete(l, place) == contents' = [contents EXCEPT ![l] = RemoveAt(@, place)]

Take(d, s) == contents' = [contents EXCEPT ![d] = contents[s], ![s] = <<>>]

Next ==
    \E l \in Lists :
        \/ \E place \in 1 .. Len(contents[l]) + 1, n \in Nodes : Insert(l, place, n)
        \/ \E place \in 1 .. Len(contents[l]) : Delete(l, place)
        \/ \E s \in Lists \ {l} : Take(l, s)

Spec == Init /\ [][Next]_contents
=============================================================================
