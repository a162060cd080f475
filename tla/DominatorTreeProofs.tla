------------------------- MODULE DominatorTreeProofs -------------------------
(***************************************************************************)
(* Proofs about DominatorTree, for every connected flow graph: its         *)
(* variables have their types, the semi-dominators and the levels are what *)
(* their names say, and the tree that is returned is the tree of immediate *)
(* dominators, the promise of ImmediateDominators.                         *)
(***************************************************************************)
EXTENDS DominatorTree, LengauerTarjanProofs

N == Cardinality(Groups)

Numbering == InOrder(N, order)
Edges == EdgesOf(N, follows, order)

\* The depths of the numbers in the tree of dominators.
Depths == [n \in 0 .. N - 1 |-> Depth(follows, Numbering[n])]

-----------------------------------------------------------------------------
(***************************************************************************)
(* The inductive invariant, by phase.                                      *)
(***************************************************************************)
\* assign_index is a depth-first walk; the semi-dominator of a number is set when its
\* call returns, and nothing else happens.
NumberInv ==
    /\ \E h : /\ IsSearch(follows, stack, h, order, father)
              /\ ArePrevious(N, follows, stack, h, order, previous)
              /\ \A n \in Index : semi[n] = IF HasReturned(stack, h, order, n) THEN n ELSE 0
    /\ bucket = [n \in Index |-> <<>>] /\ forest = [n \in Index |-> n] /\ minAnc = [n \in Index |-> n]
    /\ k = 1

\* What assign_index leaves behind.
NumberedInv ==
    /\ Len(order) = N
    /\ IsNumbering(follows, Numbering, N, Edges)
    /\ IsDFS(N, Edges, father)
    /\ ArePredecessors(N, Edges, previous)

\* The loop looks at the predecessors of i ...
SemiInv ==
    /\ i \in 1 .. N - 1
    /\ IsEvaluating(N, Edges, father, semi, i, forest, minAnc, bucket, idom)
    /\ IsPartial(N, Edges, semi, i)
    /\ \A e \in 1 .. Len(previous[i]) : e < k => IsCounted(N, father, semi, i, previous[i][e])

\* ... and at the bucket of its father.
BucketInv ==
    /\ i \in 1 .. N - 1
    /\ IsKnown(N, Edges, father, semi, i, i, forest, minAnc, bucket, idom)
    /\ \A e \in 1 .. Len(bucket[father[i]]) :
          e < k => HasProvisional(N, father, semi, i, idom, bucket[father[i]][e])

FixInv ==
    /\ i \in 1 .. N - 1
    /\ AreSemis(N, Edges, semi, 0)
    /\ AreProvisional(N, father, semi, idom, i) /\ AreSettled(follows, Numbering, idom, i)

TreeInv ==
    /\ i \in 1 .. N - 1 /\ Len(parent) = i - 1
    /\ AreSettled(follows, Numbering, idom, N)
    /\ \A n \in 1 .. i - 1 : parent[n] = idom[n]

\* The parents are the immediate dominators.
HasTree == Len(parent) = N - 1 /\ AreSettled(follows, Numbering, parent, N)

LevelInv == HasTree /\ \E P : IsLevelled(N, parent, Depths, queue, level, P)

DoneInv == HasTree /\ \A n \in 0 .. N - 1 : level[n] = Depths[n]

\* The tree and the levels before their loops.
StartInv ==
    /\ phase \in {"number", "semi", "bucket", "fix"} => parent = <<>>
    /\ phase \notin {"level", "done"} => level = [n \in Index |-> 0] /\ queue = <<0>>

IInv ==
    /\ TypeOK /\ follows \in FlowGraphs
    /\ phase = "number" => NumberInv
    /\ phase # "number" => NumberedInv
    /\ phase = "semi" => SemiInv
    /\ phase = "bucket" => BucketInv
    /\ phase = "fix" => FixInv
    /\ phase = "tree" => TreeInv
    /\ phase = "level" => LevelInv
    /\ phase = "done" => DoneInv
    /\ StartInv

-----------------------------------------------------------------------------
(***************************************************************************)
(* The operators of the model in terms of the theory.                      *)
(***************************************************************************)
\* There are finitely many numbers.
LEMMA NumbersOfGroups == N \in Nat /\ N > 0 /\ Index = 0 .. N - 1
<1>1. IsFiniteSet(Groups) /\ Groups # {}
  BY GroupsAssumption, EntryAssumption
<1>2. N \in Nat /\ N # 0
  BY <1>1, FS_CardinalityType, FS_EmptySet DEF N
<1> QED
  BY <1>2 DEF Index, N

\* A graph the builder is given is connected.
LEMMA InputIsConnected ==
    ASSUME NEW f \in FlowGraphs
    PROVE  IsGraph(f) /\ IsConnected(f)
  BY FlowGraphsAssumption, ConnectedAssumption DEF IsGraph, IsConnected

\* basic_group_to_index_ is the inverse of index_to_basic_group_.
LEMMA IndexOfIs ==
    ASSUME order \in Seq(Groups), IsInjective(order), NEW n \in Nat, n < Len(order),
           NEW b, b = order[n + 1]
    PROVE  IndexOf(b) = n /\ Numbered(b)
<1>1. PICK c \in Nat : c = Len(order)
  BY LenProperties
<1>2. DOMAIN order = 1 .. c
  BY <1>1, LenProperties
<1>3. n + 1 \in 1 .. c /\ n \in 0 .. c - 1
  BY <1>1
<1>4. ASSUME NEW m \in 0 .. c - 1, order[m + 1] = b PROVE m = n
  <2>1. m + 1 \in 1 .. c
    OBVIOUS
  <2>2. m + 1 = n + 1
    BY <1>2, <1>3, <1>4, <2>1 DEF IsInjective
  <2> QED
    BY <2>2
<1>5. IndexOf(b) = CHOOSE m \in 0 .. c - 1 : order[m + 1] = b
  BY <1>1 DEF IndexOf, GroupAt, Count
<1>6. IndexOf(b) = n
  BY <1>3, <1>4, <1>5
<1>7. Numbered(b)
  BY <1>2, <1>3 DEF Numbered, Range
<1> QED
  BY <1>6, <1>7

\* A group with a number has one below Count.
LEMMA NumberedHasIndex ==
    ASSUME order \in Seq(Groups), IsInjective(order), NEW b, Numbered(b)
    PROVE  \E n \in 0 .. Len(order) - 1 : order[n + 1] = b /\ IndexOf(b) = n
<1>1. PICK c \in Nat : c = Len(order)
  BY LenProperties
<1>2. DOMAIN order = 1 .. c
  BY <1>1, LenProperties
<1>3. PICK m \in 1 .. c : order[m] = b
  BY <1>2 DEF Numbered, Range
<1>4. PICK n \in 0 .. c - 1 : n = m - 1
  OBVIOUS
<1>5. n < c /\ n \in Nat /\ n + 1 = m
  BY <1>4
<1>6. IndexOf(b) = n
  BY <1>1, <1>3, <1>5, IndexOfIs
<1> QED
  BY <1>1, <1>3, <1>5, <1>6

\* What find returns, as the theory has it.
LEMMA FindIs ==
    ASSUME NEW up, NEW lk \in Nat, IsForest(N, up, semi, lk, forest, minAnc), NEW y, MergePath(y)
    PROVE  IsFound(N, semi, forest, minAnc, y, MinAncestor(y), forest', minAnc')
<1>1. N \in Nat /\ Index = 0 .. N - 1
  BY NumbersOfGroups
<1>2. PICK R : R = CHOOSE g : RootMap(N, forest, g)
  OBVIOUS
<1>3. RootMap(N, forest, R)
  BY <1>1, <1>2, RootIsDefined
<1>4. \A x : RootOf(x) = R[x]
  BY <1>1, <1>2 DEF RootOf, RootMap
<1>5. PICK M : M = CHOOSE g : MinMap(N, semi, forest, minAnc, g)
  OBVIOUS
<1>6. MinMap(N, semi, forest, minAnc, M)
  BY <1>1, <1>5, MinIsDefined
<1>7. \A x : MinAncestor(x) = M[x]
  BY <1>1, <1>5 DEF MinAncestor, MinMap, Better
<1>8. PICK P : P = CHOOSE g : PathMap(N, forest, g)
  OBVIOUS
<1>9. PathMap(N, forest, P)
  BY <1>1, <1>8, PathIsDefined
<1>10. \A x : PathOf(x) = P[x]
  BY <1>1, <1>8 DEF PathOf, PathMap
<1>11. forest' = LinkedTo(N, forest, P[y], R[y])
  BY <1>1, <1>4, <1>10 DEF MergePath, LinkedTo
<1>12. minAnc' = TakenFrom(N, minAnc, P[y], M)
  BY <1>1, <1>7, <1>10 DEF MergePath, TakenFrom
<1> QED
  BY <1>3, <1>6, <1>7, <1>9, <1>11, <1>12 DEF IsFound

\* The children of a node.
LEMMA ChildrenAre ==
    ASSUME NEW L \in Nat, L = Len(parent), NEW n
    PROVE  Children(n) \in Seq(1 .. L) /\ \A x \in 1 .. L : Has(Children(n), x) <=> parent[x] = n
<1>1. PICK g : g = CHOOSE h : IsListing(parent, n, h)
  OBVIOUS
<1>2. IsListing(parent, n, g)
  BY <1>1, ListingExists
<1>3. g[L] \in Seq(1 .. L) /\ \A x \in 1 .. L : Has(g[L], x) <=> parent[x] = n
  BY <1>2, ListingIs
<1>4. Children(n) = g[L]
  BY <1>1 DEF Children, IsListing
<1> QED
  BY <1>3, <1>4

-----------------------------------------------------------------------------
(***************************************************************************)
(* assign_index.                                                           *)
(***************************************************************************)
\* The invariant holds in the state in which assign_index is called for the entry.
LEMMA InitInv == Init => IInv
<1> SUFFICES ASSUME Init PROVE IInv
  OBVIOUS
<1>1. N \in Nat \ {0} /\ Index = 0 .. N - 1 /\ 0 \in Index
  BY NumbersOfGroups
<1>2. follows \in [Groups -> Seq(Groups)] /\ IsGraph(follows) /\ follows \in FlowGraphs
  BY FlowGraphsAssumption DEF Init, IsGraph
<1>3. IsSearch(follows, stack, <<0>>, order, father) /\ ArePrevious(N, follows, stack, <<0>>, order, previous)
  BY <1>1, <1>2, SearchStarts DEF Init
<1>4. \A n \in Index : semi[n] = IF HasReturned(stack, <<0>>, order, n) THEN n ELSE 0
  <2>1. Len(order) = 1 /\ Len(stack) = 1
    BY DEF Init
  <2>2. ASSUME NEW n \in Index PROVE ~HasReturned(stack, <<0>>, order, n)
    <3>1. n < 1 => n = 0
      BY <1>1
    <3>2. 1 \in 1 .. 1
      OBVIOUS
    <3>3. OnPath(stack, <<0>>, 0)
      BY <2>1, <3>2 DEF OnPath
    <3> QED
      BY <2>1, <3>1, <3>3 DEF HasReturned
  <2>3. \A n \in Index : semi[n] = 0
    BY DEF Init
  <2> QED
    BY <2>2, <2>3
<1>5. NumberInv
  BY <1>3, <1>4 DEF NumberInv, Init
<1>6. StartInv /\ phase = "number"
  BY DEF StartInv, Init
<1>7. TypeOK
  <2>1. stack \in Seq([group : Groups, next : Nat \ {0}]) /\ order \in Seq(Groups)
    BY EntryAssumption DEF Init
  <2>2. IsInjective(order)
    BY DEF Init, IsInjective
  <2>3. <<>> \in Seq(Index)
    BY EmptySeq
  <2>4. /\ father \in [Index -> Index] /\ previous \in [Index -> Seq(Index)] /\ semi \in [Index -> Index]
        /\ bucket \in [Index -> Seq(Index)] /\ idom \in [Index -> Index] /\ forest \in [Index -> Index]
        /\ minAnc \in [Index -> Index] /\ level \in [Index -> Nat]
    BY <1>1, <2>3 DEF Init
  <2>5. i \in Index /\ k \in Nat \ {0} /\ parent \in Seq(Index) /\ queue \in Seq(Index)
    BY <1>1, <2>3 DEF Init
  <2> QED
    BY <1>2, <1>6, <2>1, <2>2, <2>4, <2>5 DEF TypeOK
<1> QED
  BY <1>2, <1>5, <1>6, <1>7 DEF IInv

\* What a step of assign_index has to keep.
LEMMA NumberStep ==
    ASSUME IInv, phase = "number", phase' = "number",
           UNCHANGED <<follows, bucket, idom, unionFind, i, k, tree>>,
           NEW h, IsSearch(follows, stack', h, order', father'),
           ArePrevious(N, follows, stack', h, order', previous'),
           \A n \in Index : semi'[n] = IF HasReturned(stack', h, order', n) THEN n ELSE 0,
           stack' \in Seq(Calls), order' \in Seq(Groups), father' \in [Index -> Index],
           previous' \in [Index -> Seq(Index)], semi' \in [Index -> Index]
    PROVE  IInv'
<1>1. TypeOK /\ NumberInv /\ StartInv /\ follows \in FlowGraphs
  BY DEF IInv
<1>2. UNCHANGED <<follows, bucket, idom, forest, minAnc, i, k, parent, level, queue>>
  BY DEF unionFind, tree
<1>3. IsInjective(order')
  <2>1. \A a, b \in 1 .. Len(order') : order'[a] = order'[b] => a = b
    BY DEF IsSearch, IsOrdered
  <2>2. DOMAIN order' = 1 .. Len(order')
    BY LenProperties
  <2> QED
    BY <2>1, <2>2 DEF IsInjective
<1>4. TypeOK'
  BY <1>1, <1>2, <1>3 DEF TypeOK, Calls, Index
<1>5. NumberInv'
  BY <1>1, <1>2 DEF NumberInv, Index, N
<1>6. StartInv'
  BY <1>1, <1>2 DEF StartInv, Index
<1> QED
  BY <1>1, <1>2, <1>4, <1>5, <1>6 DEF IInv

\* What is known while assign_index runs.
LEMMA NumberFacts ==
    ASSUME IInv, phase = "number"
    PROVE  /\ IsGraph(follows) /\ stack \in Seq(Calls) /\ order \in Seq(Groups) /\ IsInjective(order)
           /\ father \in [0 .. N - 1 -> 0 .. N - 1] /\ previous \in [0 .. N - 1 -> Seq(0 .. N - 1)]
           /\ semi \in [0 .. N - 1 -> 0 .. N - 1]
           /\ Len(stack) \in Nat \ {0} /\ Frame \in Calls
           /\ Len(order) \in Nat \ {0} /\ Len(order) <= N /\ follows[Frame.group] \in Seq(Groups)
<1>1. TypeOK /\ NumberInv /\ Index = 0 .. N - 1
  BY NumbersOfGroups DEF IInv
<1>2. /\ IsGraph(follows) /\ stack \in Seq(Calls) /\ order \in Seq(Groups) /\ IsInjective(order)
      /\ father \in [0 .. N - 1 -> 0 .. N - 1] /\ previous \in [0 .. N - 1 -> Seq(0 .. N - 1)]
      /\ semi \in [0 .. N - 1 -> 0 .. N - 1]
  BY <1>1 DEF TypeOK, IsGraph, Calls
<1>3. PICK h : IsSearch(follows, stack, h, order, father)
  BY <1>1 DEF NumberInv
<1>4. Len(stack) \in Nat \ {0} /\ Len(order) \in Nat \ {0}
  BY <1>2, <1>3, SearchTypes
<1>5. Len(stack) \in 1 .. Len(stack)
  BY <1>4
<1>6. Frame \in Calls
  BY <1>2, <1>5, ElementOfSeq DEF Frame
<1>7. Frame.group \in Groups
  BY <1>6 DEF Calls
<1>8. follows[Frame.group] \in Seq(Groups)
  BY <1>2, <1>7 DEF IsGraph
<1>9. \A a, b \in 1 .. Len(order) : order[a] = order[b] => a = b
  BY <1>3 DEF IsSearch, IsOrdered
<1>10. Len(order) <= N
  BY <1>2, <1>9, GroupsAssumption, NumbersFit DEF N
<1> QED
  BY <1>2, <1>4, <1>6, <1>8, <1>10

\* A group without a number is met.
LEMMA DescendInv ==
    ASSUME IInv, Descend
    PROVE  IInv'
<1>1. phase = "number" /\ N \in Nat /\ Index = 0 .. N - 1
  BY NumbersOfGroups DEF Descend
<1>2. /\ IsGraph(follows) /\ stack \in Seq(Calls) /\ order \in Seq(Groups) /\ IsInjective(order)
      /\ father \in [0 .. N - 1 -> 0 .. N - 1] /\ previous \in [0 .. N - 1 -> Seq(0 .. N - 1)]
      /\ semi \in [0 .. N - 1 -> 0 .. N - 1]
      /\ Len(stack) \in Nat \ {0} /\ Frame \in Calls /\ follows[Frame.group] \in Seq(Groups)
  BY <1>1, NumberFacts
<1>3. PICK h : /\ IsSearch(follows, stack, h, order, father)
               /\ ArePrevious(N, follows, stack, h, order, previous)
               /\ \A n \in Index : semi[n] = IF HasReturned(stack, h, order, n) THEN n ELSE 0
  BY <1>1 DEF IInv, NumberInv
<1>4. Frame.next \in 1 .. Len(follows[Frame.group])
  BY <1>2, LenProperties DEF Descend, MoreFollows, Calls
<1>5. PICK b \in Groups : b = Follow
  BY <1>2, <1>4, ElementOfSeq DEF Follow
<1>6. /\ stack' = Append(stack, [group |-> b, next |-> 1]) /\ order' = Append(order, b)
      /\ UNCHANGED <<follows, phase, father, previous, semi, bucket, idom, unionFind, i, k, tree>>
  BY <1>5 DEF Descend
<1>7. MeetsNew(follows, stack, order, b)
  <2>1. DOMAIN order = 1 .. Len(order)
    BY <1>2, LenProperties
  <2>2. \A n \in 1 .. Len(order) : order[n] # b
    BY <1>5, <2>1 DEF Descend, Numbered, Range
  <2>3. /\ stack[Len(stack)].next <= Len(follows[stack[Len(stack)].group])
        /\ b = follows[stack[Len(stack)].group][stack[Len(stack)].next]
    BY <1>5 DEF Descend, MoreFollows, Follow, Frame
  <2> QED
    BY <2>2, <2>3 DEF MeetsNew
<1>8. PICK s : s = Append(stack, CallOf(b))
  OBVIOUS
<1>9. PICK o : o = Append(order, b)
  OBVIOUS
<1>10. PICK g : g = Deeper(stack, h, order)
  OBVIOUS
<1>11. /\ IsSearch(follows, s, g, o, father) /\ ArePrevious(N, follows, s, g, o, previous)
       /\ KeepReturned(s, g, o, stack, h, order)
  <2>1. IsSearch(follows, s, g, o, father) /\ ArePrevious(N, follows, s, g, o, previous)
    BY <1>1, <1>2, <1>3, <1>7, <1>8, <1>9, <1>10, SearchDescends
  <2>2. KeepReturned(s, g, o, stack, h, order)
    BY <1>2, <1>3, <1>8, <1>9, <1>10, NoneReturns
  <2> QED
    BY <2>1, <2>2
<1>12. /\ IsSearch(follows, stack', g, order', father) /\ ArePrevious(N, follows, stack', g, order', previous)
       /\ KeepReturned(stack', g, order', stack, h, order)
  BY <1>6, <1>8, <1>9, <1>11 DEF CallOf
<1>13. \A n \in Index : semi[n] = IF HasReturned(stack', g, order', n) THEN n ELSE 0
  BY <1>1, <1>3, <1>12 DEF KeepReturned
<1>14. order' \in Seq(Groups)
  BY <1>2, <1>6, AppendProperties
<1>15. stack' \in Seq(Calls)
  <2>1. [group |-> b, next |-> 1] \in Calls
    BY DEF Calls
  <2> QED
    BY <1>2, <1>6, <2>1, AppendProperties
<1> QED
  BY <1>1, <1>2, <1>6, <1>12, <1>13, <1>14, <1>15, NumberStep

\* The last number of the path is that of the running call.
LEMMA FrameIndex ==
    ASSUME IInv, phase = "number", NEW h, IsSearch(follows, stack, h, order, father),
           NEW j \in 1 .. Len(stack)
    PROVE  h[j] \in 0 .. Len(order) - 1 /\ IndexOf(stack[j].group) = h[j] /\ stack[j].group = order[h[j] + 1]
<1>1. /\ IsGraph(follows) /\ stack \in Seq(Calls) /\ order \in Seq(Groups) /\ IsInjective(order)
  BY NumberFacts
<1>2. h[j] \in 0 .. Len(order) - 1 /\ Len(order) \in Nat
  BY <1>1, SearchTypes
<1>3. stack[j].group = order[h[j] + 1]
  BY DEF IsSearch, IsPath
<1>4. PICK n \in Nat : n = h[j] /\ n < Len(order)
  BY <1>2
<1>5. IndexOf(stack[j].group) = n
  BY <1>1, <1>3, <1>4, IndexOfIs
<1> QED
  BY <1>2, <1>3, <1>4, <1>5

\* A predecessor is entered.
LEMMA EnteredTypes ==
    ASSUME NEW S, NEW pr \in [S -> Seq(S)], NEW c \in S, NEW q \in S
    PROVE  Entered(pr, c, q) \in [S -> Seq(S)]
<1>1. Append(pr[c], q) \in Seq(S)
  BY AppendProperties
<1> QED
  BY <1>1 DEF Entered

\* A group with a number is met: the edge is entered.
LEMMA SeenFollowInv ==
    ASSUME IInv, SeenFollow
    PROVE  IInv'
<1>1. phase = "number" /\ N \in Nat /\ Index = 0 .. N - 1
  BY NumbersOfGroups DEF SeenFollow
<1>2. /\ IsGraph(follows) /\ stack \in Seq(Calls) /\ order \in Seq(Groups) /\ IsInjective(order)
      /\ father \in [0 .. N - 1 -> 0 .. N - 1] /\ previous \in [0 .. N - 1 -> Seq(0 .. N - 1)]
      /\ semi \in [0 .. N - 1 -> 0 .. N - 1]
      /\ Len(stack) \in Nat \ {0} /\ Len(order) \in Nat \ {0} /\ Len(order) <= N
  BY <1>1, NumberFacts
<1>3. PICK h : /\ IsSearch(follows, stack, h, order, father)
               /\ ArePrevious(N, follows, stack, h, order, previous)
               /\ \A n \in Index : semi[n] = IF HasReturned(stack, h, order, n) THEN n ELSE 0
  BY <1>1 DEF IInv, NumberInv
<1>4. PICK c \in 0 .. Len(order) - 1 : order[c + 1] = Follow /\ IndexOf(Follow) = c
  BY <1>2, NumberedHasIndex DEF SeenFollow
<1>5. PICK q \in 0 .. Len(order) - 1 : q = h[Len(stack)] /\ IndexOf(Frame.group) = q
  <2>1. Len(stack) \in 1 .. Len(stack)
    BY <1>2
  <2> QED
    BY <1>1, <1>3, <2>1, FrameIndex DEF Frame
<1>6. /\ previous' = Entered(previous, c, q) /\ stack' = Advanced(stack)
      /\ UNCHANGED <<follows, phase, order, father, semi, bucket, idom, unionFind, i, k, tree>>
  BY <1>4, <1>5 DEF SeenFollow, Entered, Advanced
<1>7. Meets(follows, stack, order, c)
  BY <1>4 DEF SeenFollow, MoreFollows, Follow, Frame, Meets
<1>8. PICK s : s = Advanced(stack)
  OBVIOUS
<1>9. PICK pr : pr = Entered(previous, c, q)
  OBVIOUS
<1>10. IsSearch(follows, s, h, order, father) /\ ArePrevious(N, follows, s, h, order, pr)
  <2>1. IsSearch(follows, stack, h, order, father) /\ ArePrevious(N, follows, stack, h, order, previous)
    BY <1>3
  <2>2. /\ IsGraph(follows) /\ stack \in Seq(Calls) /\ order \in Seq(Groups) /\ N \in Nat /\ Len(order) <= N
        /\ previous \in [0 .. N - 1 -> Seq(0 .. N - 1)] /\ q = h[Len(stack)]
    BY <1>1, <1>2, <1>5
  <2> QED
    BY <2>2, <1>7, <1>8, <1>9, <2>1, SearchSees
<1>11. s \in Seq(Calls) /\ KeepReturned(s, h, order, stack, h, order)
  BY <1>2, <1>8, AdvancedTypes
<1>12. pr \in [Index -> Seq(Index)]
  <2>1. c \in Index /\ q \in Index
    BY <1>1, <1>2
  <2> QED
    BY <1>1, <1>2, <1>5, <1>9, <2>1, EnteredTypes
<1>13. /\ IsSearch(follows, stack', h, order', father') /\ ArePrevious(N, follows, stack', h, order', previous')
       /\ KeepReturned(stack', h, order', stack, h, order) /\ stack' \in Seq(Calls)
       /\ previous' \in [Index -> Seq(Index)]
  BY <1>5, <1>6, <1>8, <1>9, <1>10, <1>11, <1>12
<1>14. \A n \in Index : semi'[n] = IF HasReturned(stack', h, order', n) THEN n ELSE 0
  BY <1>1, <1>3, <1>6, <1>13 DEF KeepReturned
<1> QED
  BY <1>1, <1>2, <1>6, <1>13, <1>14, NumberStep

\* A call returns: its caller is its father, and a predecessor.
LEMMA ReturnToCallerInv ==
    ASSUME IInv, ReturnToCaller
    PROVE  IInv'
<1>1. phase = "number" /\ N \in Nat /\ Index = 0 .. N - 1
  BY NumbersOfGroups DEF ReturnToCaller
<1>2. /\ IsGraph(follows) /\ stack \in Seq(Calls) /\ order \in Seq(Groups) /\ IsInjective(order)
      /\ father \in [0 .. N - 1 -> 0 .. N - 1] /\ previous \in [0 .. N - 1 -> Seq(0 .. N - 1)]
      /\ semi \in [0 .. N - 1 -> 0 .. N - 1] /\ Frame \in Calls
      /\ Len(stack) \in Nat \ {0} /\ Len(order) \in Nat \ {0} /\ Len(order) <= N
      /\ follows[Frame.group] \in Seq(Groups)
  BY <1>1, NumberFacts
<1>3. PICK h : /\ IsSearch(follows, stack, h, order, father)
               /\ ArePrevious(N, follows, stack, h, order, previous)
               /\ \A n \in Index : semi[n] = IF HasReturned(stack, h, order, n) THEN n ELSE 0
  BY <1>1 DEF IInv, NumberInv
<1>4. PICK l \in Nat : l = Len(stack) /\ l > 1
  BY <1>2 DEF ReturnToCaller
<1>5. l \in 1 .. l /\ l - 1 \in 1 .. l /\ l - 1 \in Nat
  BY <1>4
<1>6. PICK c \in 0 .. Len(order) - 1 : c = h[l] /\ IndexOf(Frame.group) = c /\ stack[l].group = order[c + 1]
  BY <1>1, <1>3, <1>4, <1>5, FrameIndex DEF Frame
<1>7. PICK u \in 0 .. Len(order) - 1 : u = h[l - 1] /\ IndexOf(stack[l - 1].group) = u
  BY <1>1, <1>3, <1>4, <1>5, FrameIndex
<1>8. c \in Index /\ u \in Index
  BY <1>1, <1>2
<1>9. PICK t : t = WithoutLast(stack)
  OBVIOUS
<1>10. t \in Seq(Calls) /\ Len(t) = l - 1 /\ t[l - 1] = stack[l - 1]
  BY <1>2, <1>4, <1>5, <1>9, SubSeqProperties DEF WithoutLast
<1>11. /\ father' = [father EXCEPT ![c] = u] /\ semi' = [semi EXCEPT ![c] = c]
       /\ previous' = Entered(previous, c, u) /\ stack' = Advanced(t)
       /\ UNCHANGED <<follows, phase, order, bucket, idom, unionFind, i, k, tree>>
  BY <1>4, <1>6, <1>7, <1>9, <1>10 DEF ReturnToCaller, Entered, Advanced, WithoutLast
<1>12. PICK g : g = Shorter(stack, h)
  OBVIOUS
<1>13. PICK fa : fa = WithFather(father, stack, h)
  OBVIOUS
<1>14. IsSearch(follows, t, g, order, fa) /\ ArePrevious(N, follows, t, g, order, previous)
  <2>1. Returns(follows, stack)
    <3>1. Frame.next \in Nat /\ Len(follows[Frame.group]) \in Nat
      BY <1>2, LenProperties DEF Calls
    <3>2. Frame.next > Len(follows[Frame.group])
      BY <3>1 DEF ReturnToCaller, MoreFollows
    <3> QED
      BY <1>4, <3>2 DEF Frame, Returns
  <2>3. IsSearch(follows, stack, h, order, father) /\ ArePrevious(N, follows, stack, h, order, previous)
    BY <1>3
  <2> QED
    BY ZenonT(60), <1>1, <1>2, <1>9, <1>12, <1>13, <2>1, <2>3, SearchPops
<1>15. AlsoReturned(t, g, stack, h, order, h[Len(stack)])
  BY <1>2, <1>3, <1>4, <1>9, <1>12, LastReturns DEF WithoutLast
<1>16. g[l - 1] = u
  <2>1. l - 1 \in 1 .. l - 1
    BY <1>4
  <2> QED
    BY <1>4, <1>7, <1>12, <2>1 DEF Shorter
<1>17. Meets(follows, t, order, c)
  <2>1. l - 1 \in 1 .. l - 1 /\ l - 1 + 1 = l
    BY <1>4
  <2>2. /\ stack[l - 1].next <= Len(follows[stack[l - 1].group])
        /\ follows[stack[l - 1].group][stack[l - 1].next] = stack[l].group
    BY <1>3, <1>4, <2>1 DEF IsSearch, IsPath
  <2> QED
    BY <1>6, <1>10, <2>2 DEF Meets
<1>18. PICK s : s = Advanced(t)
  OBVIOUS
<1>19. PICK pr : pr = Entered(previous, c, u)
  OBVIOUS
<1>20. IsSearch(follows, s, g, order, fa) /\ ArePrevious(N, follows, s, g, order, pr)
  <2>1. /\ IsGraph(follows) /\ t \in Seq(Calls) /\ order \in Seq(Groups) /\ N \in Nat /\ Len(order) <= N
        /\ previous \in [0 .. N - 1 -> Seq(0 .. N - 1)] /\ u = g[Len(t)]
    BY <1>1, <1>2, <1>10, <1>16
  <2> QED
    BY <1>14, <1>17, <1>18, <1>19, <2>1, SearchSees
<1>21. s \in Seq(Calls) /\ KeepReturned(s, g, order, t, g, order)
  <2>1. Len(t) > 0
    BY <1>4, <1>10
  <2> QED
    BY <1>10, <1>18, <2>1, AdvancedTypes
<1>22. pr \in [Index -> Seq(Index)] /\ pr = Entered(previous, c, u)
  BY <1>1, <1>2, <1>8, <1>10, <1>16, <1>19, EnteredTypes
<1>23. fa = [father EXCEPT ![c] = u] /\ fa \in [Index -> Index]
  BY <1>1, <1>2, <1>4, <1>6, <1>7, <1>8, <1>13 DEF WithFather
<1>24. /\ IsSearch(follows, stack', g, order', father') /\ ArePrevious(N, follows, stack', g, order', previous')
       /\ KeepReturned(stack', g, order', t, g, order) /\ stack' \in Seq(Calls)
       /\ previous' \in [Index -> Seq(Index)] /\ father' \in [Index -> Index]
  BY <1>11, <1>18, <1>20, <1>21, <1>22, <1>23
<1>25. semi' \in [Index -> Index] /\ \A n \in Index : semi'[n] = IF n = c THEN c ELSE semi[n]
  BY <1>1, <1>2, <1>8, <1>11
<1>26. \A n \in Index : semi'[n] = IF HasReturned(stack', g, order', n) THEN n ELSE 0
  <2>1. \A n \in Index : n \in Nat
    BY <1>1
  <2>2. \A n \in Nat : HasReturned(stack', g, order', n) <=> HasReturned(stack, h, order, n) \/ n = c
    BY <1>4, <1>6, <1>15, <1>24 DEF KeepReturned, AlsoReturned
  <2> QED
    BY <1>3, <1>25, <2>1, <2>2
<1> QED
  BY <1>1, <1>2, <1>11, <1>24, <1>25, <1>26, NumberStep

\* The levels before the first is assigned.
LEMMA LevelStarts ==
    ASSUME IsNumbering(follows, Numbering, N, Edges), NEW par, AreSettled(follows, Numbering, par, N)
    PROVE  IsLevelled(N, par, Depths, <<0>>, [n \in Index |-> 0], {})
<1>1. N \in Nat /\ N > 0 /\ Index = 0 .. N - 1 /\ IsFiniteSet(Groups)
  BY NumbersOfGroups, GroupsAssumption
<1>2. PICK dp : dp = [n \in 0 .. N - 1 |-> Depth(follows, Numbering[n])]
  OBVIOUS
<1>3. AreDepths(N, par, dp)
  BY <1>1, <1>2, DepthsOfTree
<1>4. dp[0] = 0 /\ dp = Depths
  BY <1>2, <1>3 DEF AreDepths, Depths
<1>5. Len(<<0>>) = 1 /\ <<0>>[1] = 0 /\ 1 \in 1 .. 1
  OBVIOUS
<1>6. \A n : Has(<<0>>, n) <=> n = 0
  BY <1>5 DEF Has
<1>7. \A n \in 0 .. N - 1 : [m \in Index |-> 0][n] = 0
  BY <1>1
<1>8. \A n \in 1 .. N - 1 : par[n] \notin {}
  OBVIOUS
<1> QED
  BY <1>4, <1>6, <1>7, <1>8 DEF IsLevelled

\* The call for the entry returns: the numbers are a depth-first numbering, and the loop
\* starts at the last one.
LEMMA NumberingDoneInv ==
    ASSUME IInv, NumberingDone
    PROVE  IInv'
<1>1. phase = "number" /\ N \in Nat /\ N > 0 /\ Index = 0 .. N - 1
  BY NumbersOfGroups DEF NumberingDone
<1>2. /\ IsGraph(follows) /\ stack \in Seq(Calls) /\ order \in Seq(Groups) /\ IsInjective(order)
      /\ father \in [0 .. N - 1 -> 0 .. N - 1] /\ Frame \in Calls /\ follows[Frame.group] \in Seq(Groups)
  BY <1>1, NumberFacts
<1>3. PICK h : /\ IsSearch(follows, stack, h, order, father)
               /\ ArePrevious(N, follows, stack, h, order, previous)
               /\ \A n \in Index : semi[n] = IF HasReturned(stack, h, order, n) THEN n ELSE 0
  BY <1>1 DEF IInv, NumberInv
<1>4. TypeOK /\ NumberInv /\ StartInv /\ follows \in FlowGraphs
  BY <1>1 DEF IInv
<1>5. /\ phase' = IF Count > 1 THEN "semi" ELSE "level"
      /\ i' = Count - 1 /\ stack' = <<>>
      /\ UNCHANGED <<follows, order, father, previous, semi, bucket, idom, forest, minAnc, k, parent, level, queue>>
  BY DEF NumberingDone, unionFind, tree
<1>6. IsConnected(follows) /\ IsFiniteSet(Groups)
  BY <1>4, InputIsConnected, GroupsAssumption
<1>7. PICK m \in Nat : m = N
  BY <1>1
<1>8. /\ Len(order) = m
      /\ IsNumbering(follows, InOrder(m, order), m, EdgesOf(m, follows, order))
      /\ IsDFS(m, EdgesOf(m, follows, order), father)
      /\ ArePredecessors(m, EdgesOf(m, follows, order), previous)
  <2>1. m = Cardinality(Groups)
    BY <1>7 DEF N
  <2>2. Len(stack) = 1 /\ stack[1].next > Len(follows[stack[1].group])
    <3>1. Frame.next \in Nat /\ Len(follows[Frame.group]) \in Nat
      BY <1>2, LenProperties DEF Calls
    <3>2. Frame.next > Len(follows[Frame.group]) /\ Len(stack) = 1
      BY <3>1 DEF NumberingDone, MoreFollows
    <3> QED
      BY <3>2 DEF Frame
  <2>3. father \in [0 .. m - 1 -> 0 .. m - 1]
    BY <1>2, <1>7
  <2>4. IsSearch(follows, stack, h, order, father) /\ ArePrevious(m, follows, stack, h, order, previous)
    BY <1>3, <1>7
  <2> QED
    BY <1>2, <1>6, <2>1, <2>2, <2>3, <2>4, SearchEnds
<1>9. NumberedInv
  BY <1>7, <1>8 DEF NumberedInv, Numbering, Edges
<1>10. NumberedInv'
  BY <1>5, <1>9 DEF NumberedInv, Numbering, Edges, N
<1>11. AreUntouched(semi, N)
  <2>1. \A n \in 0 .. N - 1 : semi[n] = n
    <3> SUFFICES ASSUME NEW n \in 0 .. N - 1 PROVE semi[n] = n
      OBVIOUS
    <3>1. semi[n] = IF HasReturned(stack, h, order, n) THEN n ELSE 0
      BY <1>1, <1>3
    <3>2. CASE n = 0
      BY <3>1, <3>2
    <3>3. CASE n # 0
      <4>1. Len(stack) = 1 /\ h[1] = 0
        BY <1>3 DEF NumberingDone, IsSearch, IsPath
      <4>2. ~OnPath(stack, h, n)
        BY <3>3, <4>1 DEF OnPath
      <4>3. n < Len(order)
        BY <1>7, <1>8
      <4> QED
        BY <3>1, <4>2, <4>3 DEF HasReturned
    <3> QED
      BY <3>2, <3>3
  <2> QED
    BY <2>1 DEF AreUntouched
<1>12. Count = N
  BY <1>7, <1>8 DEF Count
<1>13. TypeOK'
  <2>1. i' \in Index
    BY <1>1, <1>5, <1>12
  <2>2. stack' \in Seq([group : Groups, next : Nat \ {0}])
    BY <1>5, EmptySeq
  <2>3. phase' \in {"number", "semi", "bucket", "fix", "tree", "level", "done"}
    BY <1>5
  <2>4. i' \in Index'
    BY <2>1 DEF Index
  <2> QED
    BY <1>4, <1>5, <2>2, <2>3, <2>4 DEF TypeOK, Index
<1>14. StartInv'
  BY <1>1, <1>4, <1>5 DEF StartInv, Index
<1>15. CASE N > 1
  <2>1. phase' = "semi" /\ i' = N - 1
    BY <1>5, <1>12, <1>15
  <2>2. IsKnown(N, Edges, father, semi, N, N - 1, forest, minAnc, bucket, idom)
    <3>1. forest = [n \in 0 .. N - 1 |-> n] /\ minAnc = forest /\ bucket = [n \in 0 .. N - 1 |-> <<>>]
      BY <1>1, <1>4 DEF NumberInv
    <3>2. PICK top \in Nat : top = N - 1 /\ top <= N
      BY <1>1
    <3>3. IsKnown(N, Edges, father, semi, N, top, forest, forest, bucket, idom)
      BY <1>1, <1>11, <3>1, <3>2, KnownStarts
    <3> QED
      BY <3>1, <3>2, <3>3
  <2>3. PICK n \in 1 .. N - 1 : n = N - 1 /\ n + 1 = N
    BY <1>1, <1>15
  <2>4. IsPartial(N, Edges, semi, n)
    BY <1>11, <2>3 DEF IsPartial, AreUntouched
  <2>5. IsEvaluating(N, Edges, father, semi, n, forest, minAnc, bucket, idom)
    BY <2>2, <2>3 DEF IsEvaluating
  <2>6. /\ IsEvaluating(N, Edges, father', semi', n, forest', minAnc', bucket', idom')
        /\ IsPartial(N, Edges, semi', n) /\ i' = n /\ N' = N /\ Edges' = Edges /\ k' = 1
    BY <1>4, <1>5, <2>1, <2>3, <2>4, <2>5 DEF N, Edges, NumberInv
  <2>7. \A e \in 1 .. Len(previous'[n]) : ~(e < 1)
    OBVIOUS
  <2>8. SemiInv'
    BY <2>3, <2>6, <2>7 DEF SemiInv
  <2> QED
    BY <1>4, <1>5, <1>10, <1>13, <1>14, <2>1, <2>8 DEF IInv
<1>16. CASE ~(N > 1)
  <2>1. N = 1 /\ phase' = "level"
    BY <1>1, <1>5, <1>12, <1>16
  <2>2. parent = <<>> /\ level = [n \in Index |-> 0] /\ queue = <<0>>
    BY <1>1, <1>4 DEF StartInv
  <2>3. AreSettled(follows, Numbering, parent, 1)
    BY DEF AreSettled
  <2>4. HasTree
    BY <2>1, <2>2, <2>3 DEF HasTree
  <2>7. IsLevelled(N, parent, Depths, queue, level, {})
    <3>1. IsNumbering(follows, Numbering, N, Edges) /\ AreSettled(follows, Numbering, parent, N)
      BY <1>9, <2>1, <2>3 DEF NumberedInv
    <3>2. IsLevelled(N, parent, Depths, <<0>>, [n \in Index |-> 0], {})
      BY <3>1, LevelStarts
    <3> QED
      BY <2>2, <3>2
  <2>8. LevelInv'
    <3>1. LevelInv
      BY <2>4, <2>7 DEF LevelInv
    <3> QED
      BY <1>5, <3>1 DEF LevelInv, HasTree, N, Numbering, Depths
  <2> QED
    BY <1>4, <1>5, <1>10, <1>13, <1>14, <2>1, <2>8 DEF IInv
<1> QED
  BY <1>15, <1>16

-----------------------------------------------------------------------------
(***************************************************************************)
(* build_immediate_dominators.                                             *)
(***************************************************************************)
\* The numbering stays.
LEMMA NumberedStays ==
    ASSUME IInv, phase # "number", UNCHANGED <<follows, numbering>>
    PROVE  /\ N' = N /\ Index' = Index /\ Edges' = Edges /\ Numbering' = Numbering /\ Depths' = Depths
           /\ UNCHANGED <<follows, stack, order, father, previous>>
           /\ NumberedInv /\ NumberedInv' /\ follows' \in FlowGraphs
           /\ N \in Nat /\ N > 0 /\ Index = 0 .. N - 1 /\ IsDFS(N, Edges, father)
           /\ Count = N
<1>1. UNCHANGED <<follows, stack, order, father, previous>>
  BY DEF numbering
<1>2. NumberedInv /\ follows \in FlowGraphs
  BY DEF IInv
<1>3. N' = N /\ Index' = Index /\ Edges' = Edges /\ Numbering' = Numbering
  BY <1>1 DEF N, Index, Edges, Numbering
<1>4. Depths' = Depths
  BY <1>1, <1>3 DEF Depths
<1>5. NumberedInv'
  BY <1>1, <1>2, <1>3 DEF NumberedInv
<1>6. IsDFS(N, Edges, father) /\ Count = N
  BY <1>2 DEF NumberedInv, Count
<1> QED
  BY <1>1, <1>2, <1>3, <1>4, <1>5, <1>6, NumbersOfGroups

\* A predecessor of i is evaluated.
LEMMA EvalPreviousInv ==
    ASSUME IInv, EvalPrevious
    PROVE  IInv'
<1>1. /\ phase = "semi" /\ TypeOK /\ SemiInv /\ StartInv /\ NumberedInv
      /\ UNCHANGED <<follows, phase, numbering, bucket, idom, i, parent, level, queue>> /\ k' = k + 1
  BY DEF EvalPrevious, IInv, tree
<1>2. /\ N' = N /\ Index' = Index /\ Edges' = Edges
      /\ UNCHANGED <<follows, stack, order, father, previous>>
      /\ NumberedInv' /\ follows' \in FlowGraphs
      /\ N \in Nat /\ N > 0 /\ Index = 0 .. N - 1 /\ IsDFS(N, Edges, father)
  BY <1>1, NumberedStays
<1>3. PICK n \in 1 .. N - 1 : n = i /\ n + 1 \in Nat
  BY <1>1 DEF SemiInv
<1>4. previous[n] \in Seq(Index)
  BY <1>1, <1>2 DEF TypeOK
<1>5. PICK e \in 1 .. Len(previous[n]) : e = k
  BY <1>1, <1>3, <1>4, LenProperties DEF EvalPrevious, TypeOK
<1>6. PICK p \in 0 .. N - 1 : p = previous[n][e]
  BY <1>2, <1>4, ElementOfSeq
<1>7. <<p, n>> \in Edges
  BY <1>1, <1>6 DEF NumberedInv, ArePredecessors
<1>8. /\ IsEvaluating(N, Edges, father, semi, n, forest, minAnc, bucket, idom)
      /\ IsPartial(N, Edges, semi, n)
  BY <1>1, <1>3 DEF SemiInv
<1>9. IsForest(N, father, semi, n + 1, forest, minAnc)
  BY <1>8 DEF IsEvaluating, IsKnown
<1>10. PICK x : x = MinAncestor(p)
  OBVIOUS
<1>11. PICK fo, mn : fo = forest' /\ mn = minAnc'
  OBVIOUS
<1>21. PICK v : v = semi[x]
  OBVIOUS
<1>12. PICK sd : sd = Lowered(semi, n, v)
  OBVIOUS
<1>13. MergePath(p) /\ semi' = [semi EXCEPT ![n] = IF semi[x] < @ THEN semi[x] ELSE @]
  BY <1>3, <1>5, <1>6, <1>10 DEF EvalPrevious
<1>14. IsFound(N, semi, forest, minAnc, p, x, fo, mn)
  <2>1. IsFound(N, semi, forest, minAnc, p, MinAncestor(p), forest', minAnc')
    BY <1>3, <1>9, <1>13, FindIs
  <2> QED
    BY <1>10, <1>11, <2>1
<1>15. semi \in [0 .. N - 1 -> 0 .. N - 1]
  BY <1>1, <1>2 DEF TypeOK
<1>16. /\ IsEvaluating(N, Edges, father, sd, n, fo, mn, bucket, idom)
       /\ sd \in [0 .. N - 1 -> 0 .. N - 1]
       /\ IsPartial(N, Edges, sd, n) /\ IsCounted(N, father, sd, n, p)
       /\ StillCounted(N, father, semi, sd, n)
  <2>1. N \in Nat /\ IsDFS(N, Edges, father)
    BY <1>2
  <2> QED
    BY ZenonT(60), <1>7, <1>8, <1>12, <1>14, <1>15, <1>21, <2>1, KnownEvaluates
<1>17. /\ fo \in [Index -> Index] /\ mn \in [Index -> Index]
  BY <1>2, <1>16 DEF IsEvaluating, IsKnown, IsForest
<1>18. forest' = fo
  BY <1>11
<1>19. minAnc' = mn
  BY <1>11
<1>20. semi' = sd
  BY <1>12, <1>13, <1>21 DEF Lowered
<1>25. TypeOK'
  <2>1. k' \in Nat \ {0}
    BY <1>1 DEF TypeOK
  <2>2. semi' \in [Index -> Index] /\ forest' \in [Index -> Index] /\ minAnc' \in [Index -> Index]
    BY <1>2, <1>16, <1>17, <1>18, <1>19, <1>20
  <2> QED
    BY <1>1, <1>2, <2>1, <2>2 DEF TypeOK
<1>22. \A q \in 1 .. Len(previous[n]) : q < k' => IsCounted(N, father, sd, n, previous[n][q])
  <2> SUFFICES ASSUME NEW q \in 1 .. Len(previous[n]), q < e + 1
               PROVE  IsCounted(N, father, sd, n, previous[n][q])
    BY <1>1, <1>5
  <2>1. CASE q = e
    BY <1>6, <1>16, <2>1
  <2>2. CASE q # e
    <3>1. q < k /\ previous[n][q] \in 0 .. N - 1
      BY <1>2, <1>4, <1>5, <2>2, ElementOfSeq
    <3>2. IsCounted(N, father, semi, n, previous[n][q])
      BY <1>1, <1>3, <3>1 DEF SemiInv
    <3> QED
      BY <1>16, <3>1, <3>2 DEF StillCounted
  <2> QED
    BY <2>1, <2>2
<1>23. SemiInv'
  <2>1. /\ i' = n /\ N' = N /\ Edges' = Edges /\ father' = father /\ previous' = previous
        /\ semi' = sd /\ forest' = fo /\ minAnc' = mn /\ bucket' = bucket /\ idom' = idom
    BY <1>1, <1>2, <1>3, <1>18, <1>19, <1>20
  <2> QED
    BY <1>16, <1>22, <2>1 DEF SemiInv
<1>24. StartInv'
  BY <1>1, <1>2 DEF StartInv
<1> QED
  BY <1>1, <1>2, <1>25, <1>23, <1>24 DEF IInv

\* i is linked to its father.
LEMMA LinkToFatherInv ==
    ASSUME IInv, LinkToFather
    PROVE  IInv'
<1>1. /\ phase = "semi" /\ TypeOK /\ SemiInv /\ StartInv /\ NumberedInv
      /\ UNCHANGED <<follows, numbering, semi, idom, minAnc, i, parent, level, queue>>
      /\ phase' = "bucket" /\ k' = 1
  BY DEF LinkToFather, IInv, tree
<1>2. /\ N' = N /\ Index' = Index /\ Edges' = Edges
      /\ UNCHANGED <<follows, stack, order, father, previous>>
      /\ NumberedInv' /\ follows' \in FlowGraphs
      /\ N \in Nat /\ N > 0 /\ Index = 0 .. N - 1 /\ IsDFS(N, Edges, father)
  BY <1>1, NumberedStays
<1>3. PICK n \in 1 .. N - 1 : n = i
  BY <1>1 DEF SemiInv
<1>4. /\ IsEvaluating(N, Edges, father, semi, n, forest, minAnc, bucket, idom)
      /\ IsPartial(N, Edges, semi, n)
  BY <1>1, <1>3 DEF SemiInv
<1>5. AreCounted(N, Edges, father, semi, n)
  <2> SUFFICES ASSUME NEW p \in 0 .. N - 1, <<p, n>> \in Edges PROVE IsCounted(N, father, semi, n, p)
    BY DEF AreCounted
  <2>1. PICK e \in 1 .. Len(previous[n]) : previous[n][e] = p
    BY <1>1 DEF NumberedInv, ArePredecessors
  <2>2. previous[n] \in Seq(Index)
    BY <1>1, <1>2 DEF TypeOK
  <2>3. e < k
    BY <1>1, <1>3, <2>2, LenProperties DEF LinkToFather, TypeOK
  <2> QED
    BY <1>1, <1>3, <2>1, <2>3 DEF SemiInv
<1>6. semi \in [0 .. N - 1 -> 0 .. N - 1] /\ bucket \in [0 .. N - 1 -> Seq(0 .. N - 1)]
  BY <1>1, <1>2 DEF TypeOK
<1>7. PICK fo : fo = Linked(forest, father, n)
  OBVIOUS
<1>8. PICK bk : bk = Filed(bucket, semi[n], n)
  OBVIOUS
<1>9. IsKnown(N, Edges, father, semi, n, n, fo, minAnc, bk, idom) /\ bk \in [0 .. N - 1 -> Seq(0 .. N - 1)]
  <2>1. N \in Nat /\ IsDFS(N, Edges, father)
    BY <1>2
  <2> QED
    BY <1>4, <1>5, <1>6, <1>7, <1>8, <2>1, KnownLinks
<1>10. forest' = fo /\ bucket' = bk
  BY <1>3, <1>7, <1>8 DEF LinkToFather, Linked, Filed
<1>11. fo \in [0 .. N - 1 -> 0 .. N - 1]
  BY <1>9 DEF IsKnown, IsForest
<1>12. TypeOK'
  <2>1. k' \in Nat \ {0}
    BY <1>1
  <2>2. forest' \in [Index -> Index] /\ bucket' \in [Index -> Seq(Index)]
    BY <1>2, <1>9, <1>10, <1>11
  <2> QED
    BY <1>1, <1>2, <2>1, <2>2 DEF TypeOK
<1>13. BucketInv'
  <2>1. /\ i' = n /\ N' = N /\ Edges' = Edges /\ father' = father /\ k' = 1
        /\ semi' = semi /\ forest' = fo /\ minAnc' = minAnc /\ bucket' = bk /\ idom' = idom
    BY <1>1, <1>2, <1>3, <1>10
  <2>2. \A e \in 1 .. Len(bk[father[n]]) : ~(e < 1)
    OBVIOUS
  <2> QED
    BY <1>9, <2>1, <2>2 DEF BucketInv
<1>14. StartInv'
  BY <1>1, <1>2 DEF StartInv
<1> QED
  BY <1>1, <1>2, <1>12, <1>13, <1>14 DEF IInv

\* A number that waits in the bucket is evaluated.
LEMMA EvalBucketInv ==
    ASSUME IInv, EvalBucket
    PROVE  IInv'
<1>1. /\ phase = "bucket" /\ TypeOK /\ BucketInv /\ StartInv /\ NumberedInv
      /\ UNCHANGED <<follows, phase, numbering, semi, bucket, i, parent, level, queue>> /\ k' = k + 1
  BY DEF EvalBucket, IInv, tree
<1>2. /\ N' = N /\ Index' = Index /\ Edges' = Edges
      /\ UNCHANGED <<follows, stack, order, father, previous>>
      /\ NumberedInv' /\ follows' \in FlowGraphs
      /\ N \in Nat /\ N > 0 /\ Index = 0 .. N - 1 /\ IsDFS(N, Edges, father)
  BY <1>1, NumberedStays
<1>3. PICK n \in 1 .. N - 1 : n = i /\ n \in Nat
  BY <1>1 DEF BucketInv
<1>4. bucket[father[n]] \in Seq(Index)
  <2>1. n \in Index
    BY <1>2
  <2>2. father[n] \in Index
    BY <1>1, <2>1 DEF TypeOK
  <2> QED
    BY <1>1, <2>2 DEF TypeOK
<1>5. PICK e \in 1 .. Len(bucket[father[n]]) : e = k
  BY <1>1, <1>3, <1>4, LenProperties DEF EvalBucket, TypeOK
<1>6. PICK w \in 0 .. N - 1 : w = bucket[father[n]][e]
  BY <1>2, <1>4, ElementOfSeq
<1>7. IsFiled(bucket, father, n, w)
  BY <1>6 DEF IsFiled, Has
<1>8. IsKnown(N, Edges, father, semi, n, n, forest, minAnc, bucket, idom)
  BY <1>1, <1>3 DEF BucketInv
<1>9. IsForest(N, father, semi, n, forest, minAnc)
  BY <1>8 DEF IsKnown
<1>10. PICK x : x = MinAncestor(w)
  OBVIOUS
<1>11. PICK fo, mn : fo = forest' /\ mn = minAnc'
  OBVIOUS
<1>12. PICK id : id = Taken(idom, semi, father, n, w, x)
  OBVIOUS
<1>13. MergePath(w) /\ idom' = [idom EXCEPT ![w] = IF semi[x] = semi[w] THEN father[n] ELSE x]
  BY <1>3, <1>5, <1>6, <1>10 DEF EvalBucket
<1>14. IsFound(N, semi, forest, minAnc, w, x, fo, mn)
  <2>1. IsFound(N, semi, forest, minAnc, w, MinAncestor(w), forest', minAnc')
    BY <1>3, <1>9, <1>13, FindIs
  <2> QED
    BY <1>10, <1>11, <2>1
<1>15. semi \in [0 .. N - 1 -> 0 .. N - 1] /\ idom \in [0 .. N - 1 -> 0 .. N - 1]
  BY <1>1, <1>2 DEF TypeOK
<1>16. /\ IsKnown(N, Edges, father, semi, n, n, fo, mn, bucket, id)
       /\ id \in [0 .. N - 1 -> 0 .. N - 1]
       /\ HasProvisional(N, father, semi, n, id, w) /\ StillProvisional(N, father, semi, n, idom, id)
  <2>1. N \in Nat /\ IsDFS(N, Edges, father)
    BY <1>2
  <2> QED
    BY ZenonT(60), <1>7, <1>8, <1>12, <1>14, <1>15, <2>1, KnownTakes
<1>17. fo \in [Index -> Index] /\ mn \in [Index -> Index]
  BY <1>2, <1>16 DEF IsKnown, IsForest
<1>18. forest' = fo
  BY <1>11
<1>19. minAnc' = mn
  BY <1>11
<1>20. idom' = id
  BY <1>12, <1>13 DEF Taken
<1>21. TypeOK'
  <2>1. k' \in Nat \ {0}
    BY <1>1 DEF TypeOK
  <2>2. idom' \in [Index -> Index] /\ forest' \in [Index -> Index] /\ minAnc' \in [Index -> Index]
    BY <1>2, <1>16, <1>17, <1>18, <1>19, <1>20
  <2> QED
    BY <1>1, <1>2, <2>1, <2>2 DEF TypeOK
<1>22. \A q \in 1 .. Len(bucket[father[n]]) :
           q < k' => HasProvisional(N, father, semi, n, id, bucket[father[n]][q])
  <2> SUFFICES ASSUME NEW q \in 1 .. Len(bucket[father[n]]), q < e + 1
               PROVE  HasProvisional(N, father, semi, n, id, bucket[father[n]][q])
    BY <1>1, <1>5
  <2>1. CASE q = e
    BY <1>6, <1>16, <2>1
  <2>2. CASE q # e
    <3>1. q < k /\ bucket[father[n]][q] \in 0 .. N - 1
      BY <1>2, <1>4, <1>5, <2>2, ElementOfSeq
    <3>2. HasProvisional(N, father, semi, n, idom, bucket[father[n]][q])
      BY <1>1, <1>3, <3>1 DEF BucketInv
    <3> QED
      BY <1>16, <3>1, <3>2 DEF StillProvisional
  <2> QED
    BY <2>1, <2>2
<1>23. BucketInv'
  <2>1. /\ i' = n /\ N' = N /\ Edges' = Edges /\ father' = father
        /\ semi' = semi /\ forest' = fo /\ minAnc' = mn /\ bucket' = bucket /\ idom' = id
    BY <1>1, <1>2, <1>3, <1>18, <1>19, <1>20
  <2> QED
    BY <1>16, <1>22, <2>1 DEF BucketInv
<1>24. StartInv'
  BY <1>1, <1>2 DEF StartInv
<1> QED
  BY <1>1, <1>2, <1>21, <1>23, <1>24 DEF IInv

\* The bucket is emptied; the loop goes on with the next number or is over.
LEMMA ClearBucketInv ==
    ASSUME IInv, ClearBucket
    PROVE  IInv'
<1>1. /\ phase = "bucket" /\ TypeOK /\ BucketInv /\ StartInv /\ NumberedInv
      /\ UNCHANGED <<follows, numbering, semi, idom, forest, minAnc, parent, level, queue>> /\ k' = 1
  BY DEF ClearBucket, IInv, tree, unionFind
<1>2. /\ N' = N /\ Index' = Index /\ Edges' = Edges /\ Numbering' = Numbering
      /\ UNCHANGED <<follows, stack, order, father, previous>>
      /\ NumberedInv' /\ follows' \in FlowGraphs
      /\ N \in Nat /\ N > 0 /\ Index = 0 .. N - 1 /\ IsDFS(N, Edges, father)
  BY <1>1, NumberedStays
<1>3. PICK n \in 1 .. N - 1 : n = i
  BY <1>1 DEF BucketInv
<1>4. PICK top \in 0 .. N - 1 : top = n - 1 /\ top + 1 = n
  BY <1>2
<1>5. bucket[father[n]] \in Seq(Index)
  <2>1. n \in Index
    BY <1>2
  <2>2. father[n] \in Index
    BY <1>1, <2>1 DEF TypeOK
  <2> QED
    BY <1>1, <2>2 DEF TypeOK
<1>6. AllTaken(N, father, semi, n, bucket, idom)
  <2> SUFFICES ASSUME NEW w \in 0 .. N - 1, IsFiled(bucket, father, n, w)
               PROVE  HasProvisional(N, father, semi, n, idom, w)
    BY DEF AllTaken
  <2>1. PICK e \in 1 .. Len(bucket[father[n]]) : bucket[father[n]][e] = w
    BY DEF IsFiled, Has
  <2>2. e < k
    BY <1>1, <1>3, <1>5, LenProperties DEF ClearBucket, TypeOK
  <2> QED
    BY <1>1, <1>3, <2>1, <2>2 DEF BucketInv
<1>7. IsKnown(N, Edges, father, semi, n, n, forest, minAnc, bucket, idom)
  BY <1>1, <1>3 DEF BucketInv
<1>8. semi \in [0 .. N - 1 -> 0 .. N - 1] /\ bucket \in [0 .. N - 1 -> Seq(0 .. N - 1)]
  BY <1>1, <1>2 DEF TypeOK
<1>9. PICK bk : bk = Cleared(bucket, father, n)
  OBVIOUS
<1>10. /\ IsKnown(N, Edges, father, semi, n, top, forest, minAnc, bk, idom)
       /\ bk \in [0 .. N - 1 -> Seq(0 .. N - 1)]
       /\ n = 1 => AreSemis(N, Edges, semi, 0) /\ AreProvisional(N, father, semi, idom, 1)
  <2>1. N \in Nat /\ IsDFS(N, Edges, father) /\ top = n - 1
    BY <1>2, <1>4
  <2> QED
    BY ZenonT(60), <1>6, <1>7, <1>8, <1>9, <2>1, KnownClears
<1>11. bucket' = bk
  BY <1>3, <1>9 DEF ClearBucket, Cleared
<1>12. CASE n > 1
  <2>1. i' = top /\ phase' = "semi" /\ top \in 1 .. N - 1
    BY <1>3, <1>4, <1>12 DEF ClearBucket
  <2>2. IsEvaluating(N, Edges, father, semi, top, forest, minAnc, bk, idom)
    BY <1>4, <1>10 DEF IsEvaluating
  <2>3. IsPartial(N, Edges, semi, top)
    <3>1. top < n
      BY <1>4
    <3>2. semi[top] = top
      BY <1>7, <3>1 DEF IsKnown
    <3> QED
      BY <3>2 DEF IsPartial
  <2>4. \A e \in 1 .. Len(previous[top]) : ~(e < 1)
    OBVIOUS
  <2>5. SemiInv'
    <3>1. /\ i' = top /\ N' = N /\ Edges' = Edges /\ father' = father /\ previous' = previous /\ k' = 1
          /\ semi' = semi /\ forest' = forest /\ minAnc' = minAnc /\ bucket' = bk /\ idom' = idom
      BY <1>1, <1>2, <1>11, <2>1
    <3> QED
      BY <2>1, <2>2, <2>3, <2>4, <3>1 DEF SemiInv
  <2>6. TypeOK'
    <3>1. i' \in Index /\ bucket' \in [Index -> Seq(Index)]
      BY <1>2, <1>10, <1>11, <2>1
    <3>2. k' \in Nat \ {0}
      BY <1>1
    <3> QED
      BY <1>1, <1>2, <2>1, <3>1, <3>2 DEF TypeOK
  <2>7. StartInv'
    BY <1>1, <1>2, <2>1 DEF StartInv
  <2> QED
    BY <1>2, <2>1, <2>5, <2>6, <2>7 DEF IInv
<1>13. CASE ~(n > 1)
  <2>1. n = 1 /\ i' = 1 /\ phase' = "fix"
    BY <1>3, <1>13 DEF ClearBucket
  <2>2. AreSettled(follows, Numbering, idom, 1)
    BY DEF AreSettled
  <2>3. FixInv'
    <3>1. /\ i' = 1 /\ N' = N /\ Edges' = Edges /\ father' = father /\ semi' = semi /\ idom' = idom
          /\ follows' = follows /\ Numbering' = Numbering /\ 1 \in 1 .. N - 1
      BY <1>1, <1>2, <2>1
    <3> QED
      BY <1>10, <2>1, <2>2, <3>1 DEF FixInv
  <2>4. TypeOK'
    <3>1. i' \in Index /\ bucket' \in [Index -> Seq(Index)]
      BY <1>2, <1>10, <1>11, <2>1
    <3>2. k' \in Nat \ {0}
      BY <1>1
    <3> QED
      BY <1>1, <1>2, <2>1, <3>1, <3>2 DEF TypeOK
  <2>5. StartInv'
    BY <1>1, <1>2, <2>1 DEF StartInv
  <2> QED
    BY <1>2, <2>1, <2>3, <2>4, <2>5 DEF IInv
<1> QED
  BY <1>12, <1>13

\* The last pass replaces a provisional immediate dominator.
LEMMA FixIdomInv ==
    ASSUME IInv, FixIdom
    PROVE  IInv'
<1>1. /\ phase = "fix" /\ TypeOK /\ FixInv /\ StartInv /\ NumberedInv
      /\ UNCHANGED <<follows, numbering, semi, bucket, forest, minAnc, k, parent, level, queue>>
  BY DEF FixIdom, IInv, tree, unionFind
<1>2. /\ N' = N /\ Index' = Index /\ Edges' = Edges /\ Numbering' = Numbering
      /\ UNCHANGED <<follows, stack, order, father, previous>>
      /\ NumberedInv' /\ follows' \in FlowGraphs
      /\ N \in Nat /\ N > 0 /\ Index = 0 .. N - 1 /\ IsDFS(N, Edges, father) /\ Count = N
  BY <1>1, NumberedStays
<1>3. PICK n \in 1 .. N - 1 : n = i
  BY <1>1 DEF FixInv
<1>4. /\ AreSemis(N, Edges, semi, 0)
      /\ AreProvisional(N, father, semi, idom, n) /\ AreSettled(follows, Numbering, idom, n)
  BY <1>1, <1>3 DEF FixInv
<1>5. semi \in [0 .. N - 1 -> 0 .. N - 1] /\ idom \in [0 .. N - 1 -> 0 .. N - 1]
  BY <1>1, <1>2 DEF TypeOK
<1>6. PICK id : id = Fixed(idom, semi, n)
  OBVIOUS
<1>7. PICK m \in Nat : m = n + 1 /\ m \in 2 .. N
  BY <1>2
<1>8. /\ id \in [0 .. N - 1 -> 0 .. N - 1]
      /\ AreProvisional(N, father, semi, id, m) /\ AreSettled(follows, Numbering, id, m)
  <2>1. N \in Nat /\ IsDFS(N, Edges, father) /\ IsNumbering(follows, Numbering, N, Edges)
    BY <1>1, <1>2 DEF NumberedInv
  <2>2. /\ id \in [0 .. N - 1 -> 0 .. N - 1]
        /\ AreProvisional(N, father, semi, id, n + 1) /\ AreSettled(follows, Numbering, id, n + 1)
    BY <1>4, <1>5, <1>6, <2>1, KnownFixes
  <2> QED
    BY <1>7, <2>2
<1>9. idom' = id
  BY <1>3, <1>6 DEF FixIdom, Fixed
<1>10. CASE m < N
  <2>1. i' = m /\ phase' = "fix" /\ m \in 1 .. N - 1
    BY <1>1, <1>2, <1>3, <1>7, <1>10 DEF FixIdom
  <2>2. FixInv'
    <3>1. /\ i' = m /\ N' = N /\ Edges' = Edges /\ father' = father /\ semi' = semi /\ idom' = id
          /\ follows' = follows /\ Numbering' = Numbering
      BY <1>1, <1>2, <1>9, <2>1
    <3> QED
      BY <1>4, <1>8, <2>1, <3>1 DEF FixInv
  <2>3. TypeOK'
    <3>1. i' \in Index /\ idom' \in [Index -> Index]
      BY <1>2, <1>8, <1>9, <2>1
    <3> QED
      BY <1>1, <1>2, <2>1, <3>1 DEF TypeOK
  <2>4. StartInv'
    BY <1>1, <1>2, <2>1 DEF StartInv
  <2> QED
    BY <1>2, <2>1, <2>2, <2>3, <2>4 DEF IInv
<1>11. CASE ~(m < N)
  <2>1. i' = 1 /\ phase' = "tree" /\ m = N /\ 1 \in 1 .. N - 1
    BY <1>1, <1>2, <1>3, <1>7, <1>11 DEF FixIdom
  <2>2. TreeInv'
    <3>1. /\ i' = 1 /\ N' = N /\ idom' = id /\ follows' = follows /\ Numbering' = Numbering /\ parent' = <<>>
      BY <1>1, <1>2, <1>9, <2>1 DEF StartInv
    <3>2. Len(<<>>) = 0 /\ \A v \in 1 .. 1 - 1 : FALSE
      OBVIOUS
    <3> QED
      BY <1>8, <2>1, <3>1, <3>2 DEF TreeInv
  <2>3. TypeOK'
    <3>1. i' \in Index /\ idom' \in [Index -> Index]
      BY <1>2, <1>8, <1>9, <2>1
    <3> QED
      BY <1>1, <1>2, <2>1, <3>1 DEF TypeOK
  <2>4. StartInv'
    BY <1>1, <1>2, <2>1 DEF StartInv
  <2> QED
    BY <1>2, <2>1, <2>2, <2>3, <2>4 DEF IInv
<1> QED
  BY <1>10, <1>11

-----------------------------------------------------------------------------
(***************************************************************************)
(* consturct_dominator_tree.                                               *)
(***************************************************************************)
\* A node is hung below its immediate dominator.
LEMMA AddTreeNodeInv ==
    ASSUME IInv, AddTreeNode
    PROVE  IInv'
<1>1. /\ phase = "tree" /\ TypeOK /\ TreeInv /\ StartInv /\ NumberedInv
      /\ UNCHANGED <<follows, numbering, semi, bucket, idom, forest, minAnc, k, level, queue>>
  BY DEF AddTreeNode, IInv, unionFind
<1>2. /\ N' = N /\ Index' = Index /\ Numbering' = Numbering /\ Depths' = Depths
      /\ UNCHANGED <<follows, stack, order, father, previous>>
      /\ NumberedInv' /\ follows' \in FlowGraphs
      /\ N \in Nat /\ N > 0 /\ Index = 0 .. N - 1 /\ Count = N
  BY <1>1, NumberedStays
<1>3. PICK n \in 1 .. N - 1 : n = i
  BY <1>1 DEF TreeInv
<1>4. idom[n] \in Index
  <2>1. n \in Index
    BY <1>2
  <2> QED
    BY <1>1, <2>1 DEF TypeOK
<1>5. PICK par : par = Append(parent, idom[n])
  OBVIOUS
<1>6. parent' = par
  BY <1>3, <1>5 DEF AddTreeNode
<1>7. /\ par \in Seq(Index) /\ Len(par) = n
      /\ \A v \in 1 .. n : par[v] = idom[v]
  <2>1. parent \in Seq(Index) /\ Len(parent) = n - 1 /\ \A v \in 1 .. n - 1 : parent[v] = idom[v]
    BY <1>1, <1>3 DEF TypeOK, TreeInv
  <2>2. /\ par \in Seq(Index) /\ Len(par) = n /\ par[n] = idom[n]
        /\ \A v \in 1 .. n - 1 : par[v] = parent[v]
    BY <1>4, <1>5, <2>1, AppendProperties
  <2>3. \A v \in 1 .. n : v \in 1 .. n - 1 \/ v = n
    OBVIOUS
  <2> QED
    BY <2>1, <2>2, <2>3
<1>8. AreSettled(follows, Numbering, idom, N)
  BY <1>1 DEF TreeInv
<1>9. CASE n + 1 < N
  <2>1. i' = n + 1 /\ phase' = "tree" /\ n + 1 \in 1 .. N - 1 /\ n + 1 - 1 = n
    BY <1>1, <1>2, <1>3, <1>9 DEF AddTreeNode
  <2>2. PICK m \in 1 .. N - 1 : m = n + 1 /\ m - 1 = n
    BY <2>1
  <2>3. TreeInv'
    <3>1. /\ i' = m /\ N' = N /\ idom' = idom /\ follows' = follows /\ Numbering' = Numbering /\ parent' = par
      BY <1>1, <1>2, <1>6, <2>1, <2>2
    <3> QED
      BY <1>7, <1>8, <2>2, <3>1 DEF TreeInv
  <2>4. TypeOK'
    <3>1. i' \in Index
      BY <1>2, <2>1
    <3> QED
      BY <1>1, <1>2, <1>6, <1>7, <2>1, <3>1 DEF TypeOK
  <2>5. StartInv'
    BY <1>1, <1>2, <2>1 DEF StartInv
  <2> QED
    BY <1>2, <2>1, <2>3, <2>4, <2>5 DEF IInv
<1>10. CASE ~(n + 1 < N)
  <2>1. i' = i /\ phase' = "level" /\ n = N - 1
    BY <1>1, <1>2, <1>3, <1>10 DEF AddTreeNode
  <2>2. AreSettled(follows, Numbering, par, N)
    <3>1. \A v \in Nat : 0 < v /\ v < N => v \in 1 .. n
      BY <1>2, <2>1
    <3> QED
      BY <1>7, <1>8, <3>1 DEF AreSettled
  <2>3. IsLevelled(N, par, Depths, queue, level, {})
    <3>1. IsNumbering(follows, Numbering, N, Edges)
      BY <1>1 DEF NumberedInv
    <3>2. IsLevelled(N, par, Depths, <<0>>, [m \in Index |-> 0], {})
      BY <2>2, <3>1, LevelStarts
    <3>3. queue = <<0>> /\ level = [m \in Index |-> 0]
      BY <1>1 DEF StartInv
    <3> QED
      BY <3>2, <3>3
  <2>4. LevelInv'
    <3>1. /\ N' = N /\ follows' = follows /\ Numbering' = Numbering /\ parent' = par /\ Depths' = Depths
          /\ queue' = queue /\ level' = level
      BY <1>1, <1>2, <1>6
    <3> QED
      BY <1>7, <2>1, <2>2, <2>3, <3>1 DEF LevelInv, HasTree
  <2>5. TypeOK'
    BY <1>1, <1>2, <1>6, <1>7, <2>1 DEF TypeOK
  <2>6. StartInv'
    BY <2>1 DEF StartInv
  <2> QED
    BY <1>2, <2>1, <2>4, <2>5, <2>6 DEF IInv
<1> QED
  BY <1>9, <1>10

\* The children of the head of the queue get their level.
LEMMA AssignLevelInv ==
    ASSUME IInv, AssignLevel
    PROVE  IInv'
<1>1. /\ phase = "level" /\ phase' = "level" /\ TypeOK /\ LevelInv /\ StartInv /\ NumberedInv
      /\ UNCHANGED <<follows, numbering, semi, bucket, idom, forest, minAnc, i, k, parent>>
  BY DEF AssignLevel, IInv, unionFind
<1>2. /\ N' = N /\ Index' = Index /\ Numbering' = Numbering /\ Depths' = Depths
      /\ UNCHANGED <<follows, stack, order, father, previous>>
      /\ NumberedInv' /\ follows' \in FlowGraphs
      /\ N \in Nat /\ N > 0 /\ Index = 0 .. N - 1
  BY <1>1, NumberedStays
<1>3. PICK P : IsLevelled(N, parent, Depths, queue, level, P)
  BY <1>1 DEF LevelInv
<1>4. HasTree
  BY <1>1 DEF LevelInv
<1>5. queue \in Seq(0 .. N - 1) /\ queue # <<>>
  BY <1>1, <1>2 DEF TypeOK, AssignLevel
<1>6. PICK a \in 0 .. N - 1 : a = Head(queue)
  BY <1>5, QueueMoves
<1>7. PICK c : c = Children(a)
  OBVIOUS
<1>8. PICK L \in Nat : L = Len(parent) /\ L = N - 1
  BY <1>2, <1>4 DEF HasTree
<1>9. c \in Seq(1 .. L) /\ \A x \in 1 .. L : Has(c, x) <=> parent[x] = a
  BY <1>7, <1>8, ChildrenAre
<1>10. \A e \in 1 .. Len(c) : c[e] \in 1 .. L
  BY <1>9, ElementOfSeq
<1>11. c \in Seq(0 .. N - 1) /\ ~Has(c, 0)
  <2>1. PICK m \in Nat : m = Len(c) /\ c \in [1 .. m -> 1 .. L]
    BY <1>9, LenProperties
  <2>2. \A x \in 1 .. L : x \in 0 .. N - 1 /\ x # 0
    BY <1>8
  <2>3. c \in [1 .. m -> 0 .. N - 1]
    BY <2>1, <2>2
  <2>4. c \in Seq(0 .. N - 1)
    BY <2>3, SeqDef
  <2> QED
    BY <1>10, <2>2, <2>4 DEF Has
<1>12. \A n \in 1 .. N - 1 : Has(c, n) <=> parent[n] = Head(queue)
  BY <1>6, <1>8, <1>9
<1>13. \A n : n \in Range(c) <=> Has(c, n)
  <2>1. DOMAIN c = 1 .. Len(c)
    BY <1>9, LenProperties
  <2> QED
    BY <2>1 DEF Has, Range
<1>14. PICK lv : lv = [n \in Index |-> IF n \in Range(c) THEN level[a] + 1 ELSE level[n]]
  OBVIOUS
<1>15. PICK q : q = Tail(queue) \o c
  OBVIOUS
<1>16. level' = lv /\ queue' = q
  BY <1>6, <1>7, <1>14, <1>15 DEF AssignLevel
<1>17. \A n \in 0 .. N - 1 : lv[n] = IF Has(c, n) THEN level[Head(queue)] + 1 ELSE level[n]
  BY <1>2, <1>6, <1>13, <1>14
<1>18. q \in Seq(Index) /\ lv \in [Index -> Nat]
  <2>1. q \in Seq(0 .. N - 1)
    BY <1>5, <1>11, <1>15, QueueMoves
  <2>2. \A n \in Index : level[n] \in Nat
    BY <1>1 DEF TypeOK
  <2> QED
    BY <1>2, <1>6, <1>14, <2>1, <2>2
<1>19. AreDepths(N, parent, Depths)
  <2>1. PICK dp : dp = [n \in 0 .. N - 1 |-> Depth(follows, Numbering[n])]
    OBVIOUS
  <2>2. IsNumbering(follows, Numbering, N, Edges) /\ AreSettled(follows, Numbering, parent, N)
    BY <1>1, <1>4 DEF NumberedInv, HasTree
  <2>3. AreDepths(N, parent, dp)
    BY <1>2, <2>1, <2>2, GroupsAssumption, DepthsOfTree
  <2> QED
    BY <2>1, <2>3 DEF Depths
<1>20. IsLevelled(N, parent, Depths, q, lv, P \cup {Head(queue)})
  <2>1. N \in Nat
    BY <1>2
  <2> QED
    BY <1>3, <1>5, <1>11, <1>12, <1>15, <1>17, <1>19, <2>1, LevelStep
<1>21. LevelInv'
  <2>1. /\ N' = N /\ follows' = follows /\ Numbering' = Numbering /\ parent' = parent /\ Depths' = Depths
        /\ queue' = q /\ level' = lv
    BY <1>1, <1>2, <1>16
  <2> QED
    BY <1>4, <1>20, <2>1 DEF LevelInv, HasTree
<1>22. TypeOK'
  BY <1>1, <1>2, <1>16, <1>18 DEF TypeOK
<1>23. StartInv'
  BY <1>1 DEF StartInv
<1> QED
  BY <1>1, <1>2, <1>21, <1>22, <1>23 DEF IInv

\* The tree is returned.
LEMMA ReturnTreeInv ==
    ASSUME IInv, ReturnTree
    PROVE  IInv'
<1>1. /\ phase = "level" /\ phase' = "done" /\ TypeOK /\ LevelInv /\ StartInv /\ NumberedInv
      /\ UNCHANGED <<follows, numbering, semi, bucket, idom, forest, minAnc, i, k, parent, level, queue>>
  BY DEF ReturnTree, IInv, unionFind, tree
<1>2. /\ N' = N /\ Index' = Index /\ Numbering' = Numbering /\ Depths' = Depths
      /\ UNCHANGED <<follows, stack, order, father, previous>>
      /\ NumberedInv' /\ follows' \in FlowGraphs
      /\ N \in Nat
  BY <1>1, NumberedStays
<1>3. PICK P : IsLevelled(N, parent, Depths, queue, level, P)
  BY <1>1 DEF LevelInv
<1>4. HasTree
  BY <1>1 DEF LevelInv
<1>5. Len(queue) = 0
  BY DEF ReturnTree
<1>6. AreDepths(N, parent, Depths)
  <2>1. PICK dp : dp = [n \in 0 .. N - 1 |-> Depth(follows, Numbering[n])]
    OBVIOUS
  <2>2. IsNumbering(follows, Numbering, N, Edges) /\ AreSettled(follows, Numbering, parent, N)
    BY <1>1, <1>4 DEF NumberedInv, HasTree
  <2>3. AreDepths(N, parent, dp)
    BY <1>2, <2>1, <2>2, GroupsAssumption, DepthsOfTree
  <2> QED
    BY <2>1, <2>3 DEF Depths
<1>7. \A n \in 0 .. N - 1 : level[n] = Depths[n]
  <2>1. N \in Nat
    BY <1>2
  <2> QED
    BY <1>3, <1>5, <1>6, <2>1, LevelsAreKnown
<1>8. DoneInv'
  BY <1>1, <1>2, <1>4, <1>7 DEF DoneInv, HasTree
<1>9. TypeOK'
  BY <1>1, <1>2 DEF TypeOK
<1>10. StartInv'
  BY <1>1 DEF StartInv
<1> QED
  BY <1>1, <1>2, <1>8, <1>9, <1>10 DEF IInv

-----------------------------------------------------------------------------
(***************************************************************************)
(* The theorems.                                                           *)
(***************************************************************************)
\* Every step keeps the invariant.
LEMMA NextInv == IInv /\ [Next]_vars => IInv'
<1> SUFFICES ASSUME IInv, [Next]_vars PROVE IInv'
  OBVIOUS
<1>1. CASE Descend
  BY <1>1, DescendInv
<1>2. CASE SeenFollow
  BY <1>2, SeenFollowInv
<1>3. CASE ReturnToCaller
  BY <1>3, ReturnToCallerInv
<1>4. CASE NumberingDone
  BY <1>4, NumberingDoneInv
<1>5. CASE EvalPrevious
  BY <1>5, EvalPreviousInv
<1>6. CASE LinkToFather
  BY <1>6, LinkToFatherInv
<1>7. CASE EvalBucket
  BY <1>7, EvalBucketInv
<1>8. CASE ClearBucket
  BY <1>8, ClearBucketInv
<1>9. CASE FixIdom
  BY <1>9, FixIdomInv
<1>10. CASE AddTreeNode
  BY <1>10, AddTreeNodeInv
<1>11. CASE AssignLevel
  BY <1>11, AssignLevelInv
<1>12. CASE ReturnTree
  BY <1>12, ReturnTreeInv
<1>13. CASE UNCHANGED vars
  <2>1. UNCHANGED <<follows, phase, stack, order, father, previous, semi, bucket, idom, forest, minAnc, i, k,
                    parent, level, queue>>
    BY <1>13 DEF vars, numbering, unionFind, tree
  <2>2. N' = N /\ Index' = Index /\ Edges' = Edges /\ Numbering' = Numbering /\ Depths' = Depths
    BY <2>1 DEF N, Index, Edges, Numbering, Depths
  <2>3. TypeOK' <=> TypeOK
    BY <2>1, <2>2 DEF TypeOK
  <2>4. NumberInv => NumberInv'
    BY <2>1, <2>2 DEF NumberInv
  <2>5. (NumberedInv => NumberedInv') /\ (SemiInv => SemiInv') /\ (BucketInv => BucketInv')
    BY <2>1, <2>2 DEF NumberedInv, SemiInv, BucketInv
  <2>6. (FixInv => FixInv') /\ (TreeInv => TreeInv')
    BY <2>1, <2>2 DEF FixInv, TreeInv
  <2>7. (LevelInv => LevelInv') /\ (DoneInv => DoneInv') /\ (StartInv => StartInv')
    BY <2>1, <2>2 DEF LevelInv, DoneInv, StartInv, HasTree
  <2> QED
    BY <2>1, <2>3, <2>4, <2>5, <2>6, <2>7 DEF IInv
<1> QED
  BY <1>1, <1>2, <1>3, <1>4, <1>5, <1>6, <1>7, <1>8, <1>9, <1>10, <1>11, <1>12, <1>13 DEF Next, Finished

\* The invariant holds in every reachable state.
LEMMA Invariance == Spec => []IInv
  BY InitInv, NextInv, PTL DEF Spec

\* The vectors of DominatorTreeBuilder hold numbers of nodes, no index is out of range
\* and no group is numbered twice, for every function.
THEOREM TypeCorrect == Spec => []TypeOK
<1>1. IInv => TypeOK
  BY DEF IInv
<1> QED
  BY <1>1, Invariance, PTL

\* The numbers of the model are those of the theory.
LEMMA NumbersAre ==
    ASSUME NumberedInv
    PROVE  /\ Count = N /\ N \in Nat
           /\ \A m \in 0 .. N - 1 : GroupAt(m) = Numbering[m]
           /\ \A p, m \in 0 .. N - 1 : <<p, m>> \in Edges <=> GroupAt(m) \in Successors(follows, GroupAt(p))
<1>1. Count = N /\ \A m \in 0 .. N - 1 : GroupAt(m) = Numbering[m]
  BY DEF NumberedInv, Count, GroupAt, Numbering, InOrder
<1>2. \A p, m \in 0 .. N - 1 : <<p, m>> \in Edges <=> Numbering[m] \in Successors(follows, Numbering[p])
  BY DEF NumberedInv, IsNumbering
<1> QED
  BY <1>1, <1>2, NumbersOfGroups

\* The nodes Approach collects are those the theory calls Above.
LEMMA ApproachIsAbove ==
    ASSUME NumberedInv, NEW n \in 1 .. N - 1
    PROVE  Approach(n) = Above(N, Edges, n)
<1> DEFINE isClosed(S) == /\ n \in S
                          /\ \A m \in S : \A p \in n + 1 .. Count - 1 :
                                 GroupAt(m) \in Successors(follows, GroupAt(p)) => p \in S
<1>1. /\ Count = N /\ N \in Nat
      /\ \A p, m \in 0 .. N - 1 : <<p, m>> \in Edges <=> GroupAt(m) \in Successors(follows, GroupAt(p))
  BY NumbersAre
<1>2. ASSUME NEW S \in SUBSET (0 .. N - 1) PROVE isClosed(S) <=> ClosedAbove(N, Edges, n, S)
  <2>1. \A p : p \in n + 1 .. N - 1 <=> p \in 0 .. N - 1 /\ p > n
    BY <1>1
  <2>2. \A m \in S : m \in 0 .. N - 1
    OBVIOUS
  <2> QED
    BY <1>1, <2>1, <2>2 DEF ClosedAbove
<1>3. Approach(n) = {m \in 0 .. N - 1 : \A S \in SUBSET (0 .. N - 1) : isClosed(S) => m \in S}
  BY <1>1 DEF Approach
<1> HIDE DEF isClosed
<1> QED
  BY <1>2, <1>3 DEF Above

\* The union-find answers from compressed paths and from values that change under it,
\* and yet each semi-dominator is the least node from which a path leads to its node
\* through larger nodes only, for every function.
THEOREM SemiDominatorsAreFound == Spec => []SemiDominatorsAreLeast
<1>1. IInv => SemiDominatorsAreLeast
  <2> SUFFICES ASSUME IInv, phase = "fix", NEW n \in 1 .. Count - 1
               PROVE  LET candidates ==
                              {p \in 0 .. n - 1 : \E m \in Approach(n) :
                                  GroupAt(m) \in Successors(follows, GroupAt(p))}
                      IN  /\ semi[n] \in candidates
                          /\ \A c \in candidates : semi[n] <= c
    BY DEF SemiDominatorsAreLeast
  <2> DEFINE candidates ==
                 {p \in 0 .. n - 1 : \E m \in Approach(n) : GroupAt(m) \in Successors(follows, GroupAt(p))}
  <2>1. NumberedInv /\ FixInv
    BY DEF IInv
  <2>2. /\ Count = N /\ N \in Nat
        /\ \A p, m \in 0 .. N - 1 : <<p, m>> \in Edges <=> GroupAt(m) \in Successors(follows, GroupAt(p))
    BY <2>1, NumbersAre
  <2>3. n \in 1 .. N - 1 /\ n \in 0 + 1 .. N - 1
    BY <2>2
  <2>4. Approach(n) = Above(N, Edges, n) /\ Above(N, Edges, n) \subseteq 0 .. N - 1
    BY <2>1, <2>3, ApproachIsAbove DEF Above
  <2>5. \A p \in 0 .. n - 1 : p \in 0 .. N - 1
    BY <2>2, <2>3
  <2>6. candidates = Candidates(N, Edges, n)
    BY <2>2, <2>4, <2>5 DEF Candidates
  <2>7. IsSemi(N, Edges, n, semi[n])
    BY <2>1, <2>3 DEF FixInv, AreSemis
  <2> HIDE DEF candidates
  <2>8. semi[n] \in candidates /\ \A c \in candidates : semi[n] <= c
    BY <2>6, <2>7 DEF IsSemi
  <2> QED
    BY <2>8 DEF candidates
<1> QED
  BY <1>1, Invariance, PTL

\* The level IsDominatorOf climbs by is the number of strict dominators of the node,
\* for every function.
THEOREM LevelsAreFound == Spec => []LevelsAreDepths
<1>1. IInv => LevelsAreDepths
  <2> SUFFICES ASSUME IInv, phase = "done", NEW n \in 0 .. Count - 1
               PROVE  level[n] = Cardinality(DominatorMap(follows)[GroupAt(n)]) - 1
    BY DEF LevelsAreDepths
  <2>1. NumberedInv /\ DoneInv
    BY DEF IInv
  <2>2. Count = N /\ \A m \in 0 .. N - 1 : GroupAt(m) = Numbering[m]
    BY <2>1, NumbersAre
  <2>3. n \in 0 .. N - 1
    BY <2>2
  <2>4. Numbering[n] \in Groups /\ GroupAt(n) = Numbering[n]
    BY <2>1, <2>2, <2>3 DEF NumberedInv, IsNumbering
  <2>5. level[n] = Depth(follows, Numbering[n])
    BY <2>1, <2>3 DEF DoneInv, Depths
  <2>6. DominatorMap(follows)[GroupAt(n)] = Dominators(follows, Numbering[n])
    BY <2>4, DominatorMapIs
  <2> QED
    BY <2>5, <2>6 DEF Depth
<1> QED
  BY <1>1, Invariance, PTL

\* The tree of the node parents is the tree of immediate dominators.
LEMMA TreeIs ==
    ASSUME IInv, phase = "level"
    PROVE  [b \in Range(order) \ {Entry} |-> GroupAt(parent[IndexOf(b)])] =
           [b \in Reachable(follows) \ {Entry} |-> ImmediateDominator(DominatorMap(follows), b)]
<1>1. NumberedInv /\ HasTree /\ order \in Seq(Groups) /\ IsInjective(order) /\ N \in Nat
  BY NumbersOfGroups DEF IInv, LevelInv, TypeOK
<1>2. IsConnected(follows) /\ IsFiniteSet(Groups)
  BY <1>1, GroupsAssumption DEF NumberedInv, IsNumbering
<1>3. \A m \in 0 .. N - 1 : GroupAt(m) = Numbering[m]
  BY <1>1, NumbersAre
<1>4. PICK l \in Nat : l = N /\ Len(order) = l
  BY <1>1 DEF NumberedInv
<1>5. DOMAIN order = 1 .. l /\ \A e \in 1 .. l : order[e] \in Groups
  BY <1>1, <1>4, LenProperties, ElementOfSeq
<1>6. Range(order) = Groups
  <2>1. \A x \in Groups : \E n \in 0 .. N - 1 : Numbering[n] = x
    BY <1>1 DEF NumberedInv, IsNumbering
  <2>2. \A n \in 0 .. N - 1 : n + 1 \in 1 .. l /\ order[n + 1] = Numbering[n]
    BY <1>3, <1>4 DEF GroupAt
  <2> QED
    BY <1>5, <2>1, <2>2 DEF Range
<1>7. Reachable(follows) = Groups
  BY <1>2 DEF IsConnected
<1>8. ASSUME NEW b \in Groups \ {Entry}
      PROVE  GroupAt(parent[IndexOf(b)]) = ImmediateDominator(DominatorMap(follows), b)
  <2>1. Numbered(b)
    BY <1>6 DEF Numbered
  <2>2. PICK n \in 0 .. Len(order) - 1 : order[n + 1] = b /\ IndexOf(b) = n
    BY <1>1, <2>1, NumberedHasIndex
  <2>3. n \in 0 .. N - 1
    BY <1>4, <2>2
  <2>4. b = Numbering[n]
    BY <1>3, <2>2, <2>3 DEF GroupAt
  <2>5. n # 0
    <3>1. Numbering[0] = Entry
      BY <1>1 DEF NumberedInv, IsNumbering
    <3> QED
      BY <2>4, <3>1
  <2>6. n \in Nat /\ 0 < n /\ n < N
    BY <1>4, <2>3, <2>5
  <2>7. IsIdom(follows, Numbering[parent[n]], b) /\ parent[n] \in 0 .. n - 1
    BY <1>1, <2>4, <2>6 DEF HasTree, AreSettled
  <2>8. parent[n] \in 0 .. N - 1
    BY <1>4, <2>6, <2>7
  <2>9. GroupAt(parent[IndexOf(b)]) = Numbering[parent[n]]
    BY <1>3, <2>2, <2>8
  <2>10. IsIdom(follows, ImmediateDominator(DominatorMap(follows), b), b)
    BY <1>2, ImmediateDominatorExists
  <2>11. PICK d, e : d = Numbering[parent[n]] /\ e = ImmediateDominator(DominatorMap(follows), b)
    OBVIOUS
  <2>12. d = e
    BY <1>2, <2>7, <2>10, <2>11, IdomUnique
  <2> QED
    BY <2>9, <2>11, <2>12
<1> QED
  BY <1>6, <1>7, <1>8

\* The notions of the promise are those of FlowGraph.
LEMMA PromiseNotions ==
    ASSUME NEW f
    PROVE  /\ Promise!Reachable(f) = Reachable(f)
           /\ Promise!DominatorMap(f) = DominatorMap(f)
           /\ \A d, b : Promise!ImmediateDominator(d, b) = ImmediateDominator(d, b)
<1>1. \A b : Promise!Successors(f, b) = Successors(f, b)
  BY DEF Successors, Promise!Successors
<1>2. \A cut, S : Promise!ClosedAvoiding(f, cut, S) <=> ClosedAvoiding(f, cut, S)
  BY <1>1 DEF ClosedAvoiding, Promise!ClosedAvoiding
<1>3. \A cut : Promise!ReachableAvoiding(f, cut) = ReachableAvoiding(f, cut)
  BY <1>2 DEF ReachableAvoiding, Promise!ReachableAvoiding
<1>4. Promise!Reachable(f) = Reachable(f)
  BY <1>3 DEF Reachable, Promise!Reachable
<1>5. Promise!DominatorMap(f) = DominatorMap(f)
  BY <1>3 DEF DominatorMap, Promise!DominatorMap
<1>6. \A d, b : Promise!ImmediateDominator(d, b) = ImmediateDominator(d, b)
  BY DEF ImmediateDominator, Promise!ImmediateDominator
<1> QED
  BY <1>4, <1>5, <1>6

\* Whatever the builder does in between, the first tree its caller sees is the tree of
\* immediate dominators, for every function.
THEOREM BuilderKeepsPromise == Spec => BuildsDominatorTree
<1> DEFINE result == IF phase # "done" THEN {}
                     ELSE {[b \in Range(order) \ {Entry} |-> GroupAt(parent[IndexOf(b)])]}
<1>1. Init => Promise!Init
  <2> SUFFICES ASSUME Init PROVE follows \in [Groups -> Seq(Groups)] /\ result = {}
    BY DEF Promise!Init
  <2> QED
    BY FlowGraphsAssumption DEF Init
<1>2. ASSUME IInv, [Next]_vars PROVE [Promise!Build]_<<follows, result>>
  <2>1. CASE ReturnTree
    <3>1. /\ phase = "level" /\ phase' = "done"
          /\ UNCHANGED <<follows, order, parent>>
      BY <2>1 DEF ReturnTree, numbering, tree
    <3>2. PICK up : up = [b \in Range(order) \ {Entry} |-> GroupAt(parent[IndexOf(b)])]
      OBVIOUS
    <3>3. result = {} /\ result' = {up}
      BY <3>1, <3>2 DEF GroupAt, IndexOf, Count
    <3>4. up = [b \in Reachable(follows) \ {Entry} |-> ImmediateDominator(DominatorMap(follows), b)]
      BY <1>2, <3>1, <3>2, TreeIs
    <3>5. Promise!IsTree(up)
      BY <3>4, PromiseNotions DEF Promise!IsTree
    <3> HIDE DEF result
    <3>6. Promise!Build
      BY <3>1, <3>3, <3>5 DEF Promise!Build, result
    <3> QED
      BY <3>6
  <2>2. CASE Finished \/ UNCHANGED vars
    <3>1. UNCHANGED <<follows, phase, order, parent>>
      BY <2>2 DEF Finished, vars, numbering, tree
    <3> QED
      BY <3>1 DEF GroupAt, IndexOf, Count
  <2>3. CASE \/ Descend \/ SeenFollow \/ ReturnToCaller \/ NumberingDone
             \/ EvalPrevious \/ LinkToFather \/ EvalBucket \/ ClearBucket \/ FixIdom
             \/ AddTreeNode \/ AssignLevel
    <3>1. phase # "done" /\ phase' # "done" /\ follows' = follows
      BY <2>3 DEF Descend, SeenFollow, ReturnToCaller, NumberingDone, EvalPrevious, LinkToFather, EvalBucket,
                  ClearBucket, FixIdom, AddTreeNode, AssignLevel
    <3> QED
      BY <3>1
  <2> QED
    BY <1>2, <2>1, <2>2, <2>3 DEF Next
<1>3. Spec => [][Promise!Build]_<<follows, result>>
  BY <1>2, Invariance, PTL DEF Spec
<1>4. Spec => Promise!Init
  BY <1>1, PTL DEF Spec
<1> QED
  BY <1>3, <1>4, PTL DEF BuildsDominatorTree, Promise!Spec
=============================================================================
