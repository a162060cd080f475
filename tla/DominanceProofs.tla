--------------------------- MODULE DominanceProofs ---------------------------
(***************************************************************************)
(* What the algorithms over flow graphs rest on: lemmas about dominators,  *)
(* immediate dominators and dominance frontiers as FlowGraph defines them, *)
(* for every finite graph in which the entry reaches all groups.           *)
(***************************************************************************)
EXTENDS FlowGraph, FiniteSetTheorems, SequenceTheorems, NaturalsInduction, WellFoundedInduction, TLAPS

IsGraph(f) == f \in [Groups -> Seq(Groups)]
IsConnected(f) == IsGraph(f) /\ Reachable(f) = Groups

Dominators(f, b) == {a \in Groups : b \notin ReachableAvoiding(f, {a})}
StrictDominators(f, b) == Dominators(f, b) \ {b}

\* A set of numbers that is not empty has a least one: induction, for facts that
\* are not the values of an operator.
LEMMA LeastNumber ==
    ASSUME NEW T, T \subseteq Nat, T # {}
    PROVE  \E m \in T : \A k \in T : m <= k
<1> DEFINE R == {p \in Nat \X Nat : p[1] < p[2]}
<1>1. IsWellFoundedOn(R, Nat)
  BY NatLessThanWellFounded DEF OpToRel
<1>2. \E x \in T : \A y \in T : ~(<<y, x>> \in R)
  <2> HIDE DEF R
  <2> QED
    BY <1>1, WFMin
<1>3. PICK x \in T : \A y \in T : ~(<<y, x>> \in R)
  BY <1>2
<1>4. ASSUME NEW y \in T PROVE x <= y
  <2>1. x \in Nat /\ y \in Nat /\ ~(y < x)
    BY <1>3
  <2> QED
    BY <2>1
<1> QED
  BY <1>3, <1>4

-----------------------------------------------------------------------------
(***************************************************************************)
(* Reachability.                                                           *)
(***************************************************************************)
\* A successor is a group.
LEMMA GraphEdges ==
    ASSUME NEW f, IsGraph(f), NEW b \in Groups
    PROVE  Successors(f, b) \subseteq Groups
<1>1. f[b] \in Seq(Groups)
  BY DEF IsGraph
<1>2. \A j \in DOMAIN f[b] : f[b][j] \in Groups
  BY <1>1, ElementOfSeq, LenProperties
<1> QED
  BY <1>2 DEF Successors

\* What a path reaches without entering cut is closed, and it is the least such set.
LEMMA AvoidClosed ==
    ASSUME NEW f, IsGraph(f), NEW cut
    PROVE  ClosedAvoiding(f, cut, ReachableAvoiding(f, cut))
<1>1. Entry \in ReachableAvoiding(f, cut) \cup cut
  BY EntryAssumption DEF ReachableAvoiding, ClosedAvoiding
<1>2. ASSUME NEW b \in ReachableAvoiding(f, cut), NEW s \in Successors(f, b), s \notin cut
      PROVE  s \in ReachableAvoiding(f, cut)
  <2>1. b \in Groups /\ s \in Groups
    BY <1>2, GraphEdges DEF ReachableAvoiding
  <2>2. ASSUME NEW S \in SUBSET (Groups \ cut), ClosedAvoiding(f, cut, S) PROVE s \in S
    BY <1>2, <2>2 DEF ReachableAvoiding, ClosedAvoiding
  <2> QED
    BY <1>2, <2>1, <2>2 DEF ReachableAvoiding
<1> QED
  BY <1>1, <1>2 DEF ClosedAvoiding

\* What is reached without entering cut lies in every set closed that way.
LEMMA AvoidLeast ==
    ASSUME NEW f, NEW cut, NEW S, S \subseteq Groups \ cut, ClosedAvoiding(f, cut, S)
    PROVE  ReachableAvoiding(f, cut) \subseteq S
  BY DEF ReachableAvoiding

\* The same, for a single group that is not entered.
LEMMA WithoutOne ==
    ASSUME NEW f, IsGraph(f), NEW a \in Groups
    PROVE  LET R == ReachableAvoiding(f, {a})
           IN  /\ R \subseteq Groups /\ a \notin R
               /\ Entry = a \/ Entry \in R
               /\ \A b \in R : \A s \in Successors(f, b) : s = a \/ s \in R
<1>1. ClosedAvoiding(f, {a}, ReachableAvoiding(f, {a}))
  BY AvoidClosed
<1>2. ReachableAvoiding(f, {a}) \subseteq Groups \ {a}
  BY DEF ReachableAvoiding
<1> QED
  BY <1>1, <1>2 DEF ClosedAvoiding

-----------------------------------------------------------------------------
(***************************************************************************)
(* Dominance is an order, linear above each group.                         *)
(***************************************************************************)
LEMMA DominatorMapIs ==
    ASSUME NEW f
    PROVE  DominatorMap(f) = [b \in Groups |-> Dominators(f, b)]
  BY DEF DominatorMap, Dominators

\* The entry dominates every group.
LEMMA EntryDominates ==
    ASSUME NEW f, IsGraph(f)
    PROVE  /\ \A b \in Groups : Entry \in Dominators(f, b)
           /\ Dominators(f, Entry) = {Entry}
<1>1. ASSUME NEW b \in Groups PROVE b \notin ReachableAvoiding(f, {Entry})
  <2>1. ClosedAvoiding(f, {Entry}, {})
    BY DEF ClosedAvoiding
  <2> QED
    BY <2>1, AvoidLeast
<1>2. ASSUME NEW a \in Groups, a # Entry PROVE Entry \in ReachableAvoiding(f, {a})
  BY <1>2, WithoutOne
<1> QED
  BY <1>1, <1>2, EntryAssumption DEF Dominators

\* Every group dominates itself.
LEMMA SelfDominates ==
    ASSUME NEW f, NEW b \in Groups
    PROVE  b \in Dominators(f, b) /\ Dominators(f, b) \subseteq Groups
  BY DEF Dominators, ReachableAvoiding

\* What dominates a group strictly dominates its predecessors.
LEMMA DominatesPredecessor ==
    ASSUME NEW f, IsGraph(f), NEW p \in Groups, NEW y \in Successors(f, p),
           NEW a \in Dominators(f, y), a # y
    PROVE  a \in Dominators(f, p)
  BY WithoutOne DEF Dominators

\* Dominance is transitive.
LEMMA DominatesTransitive ==
    ASSUME NEW f, IsGraph(f), NEW c \in Groups, NEW b \in Dominators(f, c)
    PROVE  Dominators(f, b) \subseteq Dominators(f, c)
<1> SUFFICES ASSUME NEW a \in Groups, b \notin ReachableAvoiding(f, {a}),
                    c \in ReachableAvoiding(f, {a})
             PROVE  FALSE
  BY DEF Dominators
<1> DEFINE Ra == ReachableAvoiding(f, {a})
           Rb == ReachableAvoiding(f, {b})
<1>1. b \in Groups /\ c \notin Rb
  BY DEF Dominators
<1>2. /\ Ra \subseteq Groups /\ a \notin Ra
      /\ Entry = a \/ Entry \in Ra
      /\ \A x \in Ra : \A s \in Successors(f, x) : s = a \/ s \in Ra
  BY WithoutOne
<1>3. /\ Rb \subseteq Groups /\ b \notin Rb
      /\ Entry = b \/ Entry \in Rb
      /\ \A x \in Rb : \A s \in Successors(f, x) : s = b \/ s \in Rb
  BY <1>1, WithoutOne
<1>4. b \notin Ra /\ c \in Ra
  OBVIOUS
<1> HIDE DEF Ra, Rb
<1>5. Ra \cap Rb \subseteq Groups \ {a}
  BY <1>2
<1>6. ClosedAvoiding(f, {a}, Ra \cap Rb)
  <2>1. Entry \in (Ra \cap Rb) \cup {a}
    BY <1>2, <1>3, <1>4
  <2>2. ASSUME NEW x \in Ra \cap Rb, NEW s \in Successors(f, x) PROVE s \in (Ra \cap Rb) \cup {a}
    BY <1>2, <1>3, <1>4
  <2> QED
    BY <2>1, <2>2 DEF ClosedAvoiding
<1>7. Ra \subseteq Ra \cap Rb
  BY <1>5, <1>6, AvoidLeast DEF Ra
<1> QED
  BY <1>1, <1>4, <1>7

\* Two groups that dominate each other are the same group.
LEMMA DominatesAntisymmetric ==
    ASSUME NEW f, IsConnected(f), NEW b \in Groups, NEW a \in Dominators(f, b), b \in Dominators(f, a)
    PROVE  a = b
<1> SUFFICES ASSUME a # b PROVE FALSE
  OBVIOUS
<1> DEFINE Ra == ReachableAvoiding(f, {a})
           Rb == ReachableAvoiding(f, {b})
<1>1. a \in Groups /\ b \notin Ra /\ a \notin Rb
  BY DEF Dominators
<1>2. /\ Ra \subseteq Groups /\ a \notin Ra
      /\ Entry = a \/ Entry \in Ra
      /\ \A x \in Ra : \A s \in Successors(f, x) : s = a \/ s \in Ra
  BY <1>1, WithoutOne DEF IsConnected
<1>3. /\ Rb \subseteq Groups /\ b \notin Rb
      /\ Entry = b \/ Entry \in Rb
      /\ \A x \in Rb : \A s \in Successors(f, x) : s = b \/ s \in Rb
  BY WithoutOne DEF IsConnected
<1> HIDE DEF Ra, Rb
<1>4. ClosedAvoiding(f, {}, Ra \cap Rb)
  <2>1. Entry \in Ra \cap Rb
    BY <1>1, <1>2, <1>3
  <2>2. ASSUME NEW x \in Ra \cap Rb, NEW s \in Successors(f, x) PROVE s \in Ra \cap Rb
    BY <1>1, <1>2, <1>3
  <2> QED
    BY <2>1, <2>2 DEF ClosedAvoiding
<1>5. Groups \subseteq Ra \cap Rb
  <2>1. ReachableAvoiding(f, {}) \subseteq Ra \cap Rb
    BY <1>2, <1>4, AvoidLeast
  <2> QED
    BY <2>1 DEF IsConnected, Reachable
<1> QED
  BY <1>1, <1>2, <1>5

\* Of two dominators of a group one dominates the other.
LEMMA DominatesLinear ==
    ASSUME NEW f, IsConnected(f), NEW c \in Groups,
           NEW a \in Dominators(f, c), NEW b \in Dominators(f, c)
    PROVE  a \in Dominators(f, b) \/ b \in Dominators(f, a)
<1> DEFINE Ra == ReachableAvoiding(f, {a})
           Rb == ReachableAvoiding(f, {b})
<1> SUFFICES ASSUME b \in Ra, a \in Rb PROVE FALSE
  BY DEF Dominators
<1>1. a \in Groups /\ b \in Groups /\ c \notin Ra /\ c \notin Rb
  BY DEF Dominators
<1>2. /\ Ra \subseteq Groups /\ a \notin Ra
      /\ Entry = a \/ Entry \in Ra
      /\ \A x \in Ra : \A s \in Successors(f, x) : s = a \/ s \in Ra
  BY <1>1, WithoutOne DEF IsConnected
<1>3. /\ Rb \subseteq Groups /\ b \notin Rb
      /\ Entry = b \/ Entry \in Rb
      /\ \A x \in Rb : \A s \in Successors(f, x) : s = b \/ s \in Rb
  BY <1>1, WithoutOne DEF IsConnected
<1>. b \in Ra /\ a \in Rb
  OBVIOUS
<1> HIDE DEF Ra, Rb
<1>4. ClosedAvoiding(f, {}, Ra \cup Rb)
  BY <1>2, <1>3 DEF ClosedAvoiding
<1>5. ReachableAvoiding(f, {}) \subseteq Ra \cup Rb
  BY <1>2, <1>3, <1>4, AvoidLeast
<1> QED
  BY <1>1, <1>5 DEF IsConnected, Reachable

-----------------------------------------------------------------------------
(***************************************************************************)
(* Depths and immediate dominators.                                        *)
(***************************************************************************)
Depth(f, b) == Cardinality(Dominators(f, b)) - 1

\* A dominator that is another group has fewer dominators.
LEMMA DepthGrows ==
    ASSUME NEW f, IsConnected(f), IsFiniteSet(Groups), NEW b \in Groups, NEW a \in Dominators(f, b)
    PROVE  /\ Depth(f, a) \in Nat /\ Depth(f, b) \in Nat
           /\ a # b => Depth(f, a) < Depth(f, b)
<1> DEFINE A == Dominators(f, a)
           B == Dominators(f, b)
<1>1. IsGraph(f) /\ a \in Groups
  BY SelfDominates DEF IsConnected
<1>2. A \subseteq Groups /\ B \subseteq Groups /\ a \in A /\ b \in B /\ A \subseteq B
  BY <1>1, SelfDominates, DominatesTransitive
<1>3. a # b => A # B
  BY <1>2, DominatesAntisymmetric
<1> HIDE DEF A, B
<1>4. IsFiniteSet(A) /\ IsFiniteSet(B)
  BY <1>2, FS_Subset
<1>5. PICK p : p = Cardinality(A)
  OBVIOUS
<1>6. PICK q : q = Cardinality(B)
  OBVIOUS
<1>7. p \in Nat /\ q \in Nat /\ p # 0 /\ q # 0
  BY <1>2, <1>4, <1>5, <1>6, FS_EmptySet, FS_CardinalityType
<1>8. p <= q /\ (p = q => A = B)
  BY <1>2, <1>4, <1>5, <1>6, FS_Subset
<1>9. Depth(f, a) = p - 1 /\ Depth(f, b) = q - 1
  BY <1>5, <1>6 DEF Depth, A, B
<1> QED
  BY <1>3, <1>7, <1>8, <1>9

\* Depths are numbers, and the entry alone is at depth 0.
LEMMA DepthIsNumber ==
    ASSUME NEW f, IsConnected(f), IsFiniteSet(Groups), NEW b \in Groups
    PROVE  /\ Depth(f, b) \in Nat
           /\ Depth(f, Entry) = 0
           /\ Depth(f, b) = 0 => b = Entry
<1>1. Entry \in Dominators(f, b) /\ Dominators(f, Entry) = {Entry} /\ b \in Dominators(f, b)
  BY EntryDominates, SelfDominates DEF IsConnected
<1>2. Cardinality({Entry}) = 1
  BY FS_Singleton
<1>3. Depth(f, Entry) = 0
  BY <1>1, <1>2 DEF Depth
<1>4. Depth(f, b) \in Nat /\ (Entry # b => Depth(f, Entry) < Depth(f, b))
  BY <1>1, DepthGrows
<1> QED
  BY <1>3, <1>4

\* Dominators of the same group at the same depth are the same.
LEMMA SameDepth ==
    ASSUME NEW f, IsConnected(f), IsFiniteSet(Groups), NEW c \in Groups,
           NEW a \in Dominators(f, c), NEW b \in Dominators(f, c), Depth(f, a) = Depth(f, b)
    PROVE  a = b
<1>1. a \in Groups /\ b \in Groups
  BY SelfDominates
<1>2. CASE a \in Dominators(f, b)
  <2>1. Depth(f, a) \in Nat /\ (a # b => Depth(f, a) < Depth(f, b))
    BY <1>1, <1>2, DepthGrows
  <2> QED
    BY <2>1
<1>3. CASE b \in Dominators(f, a)
  <2>1. Depth(f, a) \in Nat /\ (a # b => Depth(f, b) < Depth(f, a))
    BY <1>1, <1>3, DepthGrows
  <2> QED
    BY <2>1
<1> QED
  BY <1>2, <1>3, DominatesLinear

\* d is the immediate dominator of b.
IsIdom(f, d, b) ==
    /\ d \in Groups /\ d # b
    /\ Dominators(f, d) = Dominators(f, b) \ {b}

\* Every group but the entry has an immediate dominator, one less deep: the deepest
\* strict dominator.
LEMMA ImmediateDominatorExists ==
    ASSUME NEW f, IsConnected(f), IsFiniteSet(Groups), NEW b \in Groups, b # Entry
    PROVE  IsIdom(f, ImmediateDominator(DominatorMap(f), b), b)
<1> DEFINE D == Dominators(f, b) \ {b}
           T == {Depth(f, b) - Depth(f, a) : a \in D}
           dom == DominatorMap(f)
           d == ImmediateDominator(dom, b)
<1>1. IsGraph(f) /\ D \subseteq Groups /\ Entry \in D
  BY SelfDominates, EntryDominates DEF IsConnected
<1>2. ASSUME NEW a \in D PROVE Depth(f, b) - Depth(f, a) \in Nat /\ Depth(f, a) \in Nat /\ Depth(f, b) \in Nat
  BY DepthGrows
<1>3. PICK m \in T : \A k \in T : m <= k
  <2>1. T \subseteq Nat /\ T # {}
    BY <1>1, <1>2
  <2> HIDE DEF T
  <2> QED
    BY <2>1, LeastNumber
<1>4. PICK a \in D : m = Depth(f, b) - Depth(f, a)
  BY <1>3
<1>5. D \subseteq Dominators(f, a)
  <2> SUFFICES ASSUME NEW c \in D, c \notin Dominators(f, a) PROVE FALSE
    OBVIOUS
  <2>1. a \in Dominators(f, c) /\ a # c
    BY <1>1, DominatesLinear, SelfDominates
  <2>2. Depth(f, a) < Depth(f, c)
    BY <1>1, <2>1, DepthGrows
  <2>3. m <= Depth(f, b) - Depth(f, c)
    BY <1>3
  <2> QED
    BY <1>2, <1>4, <2>2, <2>3
<1>6. \A c \in Groups : dom[c] = Dominators(f, c)
  BY DominatorMapIs
<1>7. d \in D /\ D \subseteq Dominators(f, d)
  <2>1. a \in dom[b] \ {b} /\ dom[b] \ {b} \subseteq dom[a]
    BY <1>1, <1>4, <1>5, <1>6
  <2>2. d \in dom[b] \ {b} /\ dom[b] \ {b} \subseteq dom[d]
    BY <2>1 DEF ImmediateDominator
  <2>3. d \in D
    BY <1>6, <2>2
  <2> QED
    BY <1>1, <1>6, <2>2, <2>3
<1> HIDE DEF d, D
<1>8. Dominators(f, d) \subseteq Dominators(f, b)
  BY <1>1, <1>7, DominatesTransitive DEF D
<1>9. b \notin Dominators(f, d)
  BY <1>7, DominatesAntisymmetric DEF D
<1>10. Dominators(f, d) = D
  BY <1>7, <1>8, <1>9 DEF D
<1> QED
  BY <1>1, <1>7, <1>10 DEF IsIdom, D, d, dom

\* A group is one deeper than its immediate dominator.
LEMMA IdomDepth ==
    ASSUME NEW f, IsConnected(f), IsFiniteSet(Groups), NEW b \in Groups, NEW d, IsIdom(f, d, b)
    PROVE  /\ d \in Dominators(f, b) /\ b # Entry
           /\ Depth(f, b) = Depth(f, d) + 1
<1>1. d \in Dominators(f, d) /\ Dominators(f, b) \subseteq Groups /\ b \in Dominators(f, b)
  BY SelfDominates DEF IsIdom
<1>2. d \in Dominators(f, b) /\ b # Entry
  BY <1>1, EntryDominates DEF IsIdom, IsConnected
<1>3. PICK B : B = Dominators(f, b)
  OBVIOUS
<1>4. IsFiniteSet(B) /\ b \in B /\ Dominators(f, d) = B \ {b}
  BY <1>1, <1>3, FS_Subset DEF IsIdom
<1>5. Cardinality(B) \in Nat /\ Cardinality(B \ {b}) = Cardinality(B) - 1
  BY <1>4, FS_RemoveElement, FS_CardinalityType
<1>6. Depth(f, b) = Cardinality(B) - 1 /\ Depth(f, d) = Cardinality(B \ {b}) - 1
  BY <1>3, <1>4 DEF Depth
<1> QED
  BY <1>2, <1>5, <1>6

\* A group has one immediate dominator.
LEMMA IdomUnique ==
    ASSUME NEW f, IsConnected(f), IsFiniteSet(Groups), NEW b \in Groups,
           NEW d, IsIdom(f, d, b), NEW e, IsIdom(f, e, b)
    PROVE  d = e
<1>1. d \in Dominators(f, b) /\ e \in Dominators(f, b)
  BY IdomDepth
<1>2. Depth(f, d) = Depth(f, e)
  BY DEF IsIdom, Depth
<1> QED
  BY <1>1, <1>2, SameDepth

\* On the way from a group to a dominator of it there is one of each depth in between.
LEMMA DominatorAtDepth ==
    ASSUME NEW f, IsConnected(f), IsFiniteSet(Groups), NEW b \in Groups, NEW k \in 0 .. Depth(f, b)
    PROVE  \E d \in Dominators(f, b) : Depth(f, d) = k
<1> DEFINE T == {Depth(f, d) : d \in {d \in Dominators(f, b) : Depth(f, d) >= k}}
<1>1. b \in Dominators(f, b) /\ Dominators(f, b) \subseteq Groups
  BY SelfDominates
<1>2. \A d \in Groups : Depth(f, d) \in Nat
  BY DepthIsNumber
<1>3. PICK m \in T : \A j \in T : m <= j
  <2>1. T \subseteq Nat /\ T # {}
    BY <1>1, <1>2
  <2> HIDE DEF T
  <2> QED
    BY <2>1, LeastNumber
<1>4. PICK d \in Dominators(f, b) : Depth(f, d) >= k /\ m = Depth(f, d)
  BY <1>3
<1>5. d \in Groups
  BY <1>1
<1>6. SUFFICES ASSUME m # k PROVE FALSE
  BY <1>4
<1>7. m > k /\ m \in Nat /\ d # Entry
  BY <1>2, <1>4, <1>5, <1>6, DepthIsNumber
<1>8. PICK e : IsIdom(f, e, d)
  BY <1>5, <1>7, ImmediateDominatorExists
<1>9. e \in Dominators(f, d) /\ Depth(f, d) = Depth(f, e) + 1
  BY <1>5, <1>8, IdomDepth
<1>10. e \in Dominators(f, b) /\ e \in Groups
  BY <1>1, <1>9, DominatesTransitive DEF IsConnected
<1>11. Depth(f, e) \in T
  BY <1>2, <1>4, <1>7, <1>9, <1>10
<1> QED
  BY <1>2, <1>3, <1>4, <1>7, <1>9, <1>10, <1>11

\* Between a group and a strict dominator of it there is a child of the dominator.
LEMMA ChildBetween ==
    ASSUME NEW f, IsConnected(f), IsFiniteSet(Groups), NEW p \in Groups,
           NEW b \in Dominators(f, p), b # p
    PROVE  \E c \in Dominators(f, p) : IsIdom(f, b, c)
<1>1. IsGraph(f) /\ b \in Groups
  BY SelfDominates DEF IsConnected
<1>2. PICK m : m = Depth(f, b)
  OBVIOUS
<1>3. m \in Nat /\ Depth(f, p) \in Nat /\ m < Depth(f, p)
  BY <1>1, <1>2, DepthGrows
<1>4. PICK c \in Dominators(f, p) : Depth(f, c) = m + 1
  <2>1. m + 1 \in 0 .. Depth(f, p)
    BY <1>3
  <2> QED
    BY <2>1, DominatorAtDepth
<1>5. c \in Groups /\ c # Entry
  BY <1>3, <1>4, SelfDominates, DepthIsNumber
<1>6. PICK e : IsIdom(f, e, c)
  BY <1>5, ImmediateDominatorExists
<1>7. e \in Dominators(f, c) /\ Depth(f, c) = Depth(f, e) + 1 /\ Depth(f, e) \in Nat
  BY <1>5, <1>6, IdomDepth, DepthIsNumber DEF IsIdom
<1>8. e \in Dominators(f, p)
  BY <1>1, <1>4, <1>7, DominatesTransitive
<1>9. e = b
  BY <1>2, <1>3, <1>4, <1>7, <1>8, SameDepth
<1> QED
  BY <1>4, <1>6, <1>9

\* The dominator tree and the depths in it.
IsDominatorTree(f, up, depth) ==
    /\ depth = [b \in Groups |-> Depth(f, b)]
    /\ \A b \in Groups \ {Entry} : IsIdom(f, up[b], b)

\* Climbing from b as far up as a leads to a if, and only if, a dominates b.
LEMMA ClimbFindsDominator ==
    ASSUME NEW f, IsConnected(f), IsFiniteSet(Groups),
           NEW up, NEW depth, IsDominatorTree(f, up, depth),
           NEW a \in Groups, NEW b \in Groups,
           NEW C, C = CHOOSE g : g = [n \in Groups |-> IF depth[n] > depth[a] THEN g[up[n]] ELSE n]
    PROVE  C[b] = a <=> a \in Dominators(f, b)
<1> DEFINE At(n) == CHOOSE d \in Dominators(f, n) : depth[d] = depth[a]
           K == [n \in Groups |-> IF depth[n] > depth[a] THEN At(n) ELSE n]
           Body(g) == [n \in Groups |-> IF depth[n] > depth[a] THEN g[up[n]] ELSE n]
           T == {depth[n] : n \in {n \in Groups : depth[n] > depth[a] /\ ~(C[n] \in Dominators(f, n) /\ depth[C[n]] = depth[a])}}
<1>1. \A n \in Groups : depth[n] = Depth(f, n) /\ depth[n] \in Nat
  BY DepthIsNumber DEF IsDominatorTree
<1>2. ASSUME NEW n \in Groups, depth[n] > depth[a]
      PROVE  /\ up[n] \in Groups /\ up[n] \in Dominators(f, n)
             /\ Dominators(f, up[n]) = Dominators(f, n) \ {n}
             /\ depth[n] = depth[up[n]] + 1
  <2>1. n # Entry
    BY <1>1, <1>2, DepthIsNumber
  <2>2. IsIdom(f, up[n], n)
    BY <2>1 DEF IsDominatorTree
  <2> QED
    BY <1>1, <2>2, IdomDepth DEF IsIdom
<1>3. ASSUME NEW n \in Groups, depth[n] > depth[a]
      PROVE  /\ At(n) \in Dominators(f, n) /\ depth[At(n)] = depth[a] /\ At(n) \in Groups
             /\ \A d \in Dominators(f, n) : depth[d] = depth[a] => d = At(n)
  <2>1. depth[a] \in 0 .. Depth(f, n)
    BY <1>1, <1>3
  <2>2. Dominators(f, n) \subseteq Groups
    BY SelfDominates
  <2>3. \E d \in Dominators(f, n) : depth[d] = depth[a]
    BY <1>1, <2>1, <2>2, DominatorAtDepth
  <2>4. At(n) \in Dominators(f, n) /\ depth[At(n)] = depth[a]
    BY <2>3
  <2> HIDE DEF At
  <2>5. ASSUME NEW d \in Dominators(f, n), depth[d] = depth[a] PROVE d = At(n)
    BY <1>1, <2>2, <2>4, <2>5, SameDepth
  <2> QED
    BY <2>2, <2>4, <2>5
<1> HIDE DEF At
<1>4. K = Body(K)
  <2>1. ASSUME NEW n \in Groups, depth[n] > depth[a] PROVE At(n) = K[up[n]]
    <3>1. up[n] \in Groups /\ depth[n] = depth[up[n]] + 1
      BY <1>2, <2>1
    <3>2. CASE depth[up[n]] > depth[a]
      <4>1. At(up[n]) \in Dominators(f, n) /\ depth[At(up[n])] = depth[a]
        BY <1>2, <1>3, <2>1, <3>1, <3>2
      <4>2. At(up[n]) = At(n)
        BY <1>3, <2>1, <4>1
      <4> QED
        BY <3>1, <3>2, <4>2
    <3>3. CASE ~(depth[up[n]] > depth[a])
      <4>1. depth[up[n]] = depth[a]
        BY <1>1, <2>1, <3>1, <3>3
      <4>2. up[n] = At(n)
        BY <1>2, <1>3, <2>1, <4>1
      <4> QED
        BY <3>1, <3>3, <4>2
    <3> QED
      BY <3>2, <3>3
  <2> QED
    BY <2>1
<1>5. C = Body(C)
  BY <1>4
<1>6. \A n \in Groups : C[n] = IF depth[n] > depth[a] THEN C[up[n]] ELSE n
  BY <1>5
<1>7. T = {}
  <2> SUFFICES ASSUME T # {} PROVE FALSE
    OBVIOUS
  <2>1. T \subseteq Nat
    BY <1>1
  <2>2. PICK m \in T : \A j \in T : m <= j
    <3> HIDE DEF T
    <3> QED
      BY <2>1, LeastNumber
  <2>3. PICK n \in Groups : m = depth[n] /\ depth[n] > depth[a] /\ ~(C[n] \in Dominators(f, n) /\ depth[C[n]] = depth[a])
    BY <2>2
  <2>4. C[n] = C[up[n]] /\ up[n] \in Groups /\ up[n] \in Dominators(f, n)
        /\ Dominators(f, up[n]) \subseteq Dominators(f, n) /\ depth[n] = depth[up[n]] + 1
    BY <1>2, <1>6, <2>3
  <2>5. CASE depth[up[n]] > depth[a]
    <3>0. depth[up[n]] \in Nat /\ m = depth[up[n]] + 1
      BY <1>1, <2>3, <2>4
    <3>1. depth[up[n]] \notin T
      <4> HIDE DEF T
      <4> QED
        BY <2>2, <3>0
    <3>2. C[up[n]] \in Dominators(f, up[n]) /\ depth[C[up[n]]] = depth[a]
      BY <2>4, <2>5, <3>1
    <3> QED
      BY <2>3, <2>4, <3>2
  <2>6. CASE ~(depth[up[n]] > depth[a])
    <3>1. depth[up[n]] = depth[a]
      <4>1. PICK x, y, z : x = depth[up[n]] /\ y = depth[a] /\ z = depth[n]
        OBVIOUS
      <4>2. x \in Nat /\ y \in Nat /\ z > y /\ z = x + 1 /\ ~(x > y)
        BY <1>1, <2>3, <2>4, <2>6, <4>1
      <4>3. x = y
        BY ONLY <4>2
      <4> QED
        BY <4>1, <4>3
    <3>2. C[up[n]] = up[n]
      BY <1>6, <2>4, <2>6
    <3> QED
      BY <2>3, <2>4, <3>1, <3>2
  <2> QED
    BY <2>5, <2>6
<1>8. CASE depth[b] > depth[a]
  <2>1. C[b] \in Dominators(f, b) /\ depth[C[b]] = depth[a]
    BY <1>7, <1>8
  <2>2. a \in Dominators(f, b) => a = At(b)
    BY <1>3, <1>8
  <2>3. C[b] = At(b)
    BY <1>3, <1>8, <2>1
  <2> QED
    BY <2>1, <2>2, <2>3
<1>9. CASE ~(depth[b] > depth[a])
  <2>1. C[b] = b
    BY <1>6, <1>9
  <2>2. b \in Dominators(f, b)
    BY SelfDominates
  <2>3. a \in Dominators(f, b) => a = b
    BY <1>1, <1>9, DepthGrows
  <2> QED
    BY <2>1, <2>2, <2>3
<1> QED
  BY <1>8, <1>9

-----------------------------------------------------------------------------
(***************************************************************************)
(* Dominance frontiers.                                                    *)
(***************************************************************************)
Frontier(f, b) == DominanceFrontier(f, DominatorMap(f), b)

\* The frontier in terms of dominance.
LEMMA FrontierIs ==
    ASSUME NEW f, NEW b \in Groups
    PROVE  Frontier(f, b) =
             {y \in Groups : /\ b \notin StrictDominators(f, y)
                             /\ \E p \in Groups : y \in Successors(f, p) /\ b \in Dominators(f, p)}
  BY DominatorMapIs DEF Frontier, DominanceFrontier, Predecessors, StrictDominators

Kids(f, b) == {c \in Groups : IsIdom(f, b, c)}

\* The part of the frontier of b that its own edges make, and with that of the children in S.
OwnFrontier(f, b) == {y \in Successors(f, b) : b \notin StrictDominators(f, y)}
PartFrontier(f, b, S) ==
    OwnFrontier(f, b)
        \cup {y \in Groups : b \notin StrictDominators(f, y) /\ \E c \in S : y \in Frontier(f, c)}

\* The frontier of a group is made of its own edges and of the frontiers of its
\* children: what the recursion of IDFBuilder computes.
LEMMA FrontierFromChildren ==
    ASSUME NEW f, IsConnected(f), IsFiniteSet(Groups), NEW b \in Groups
    PROVE  Frontier(f, b) = PartFrontier(f, b, Kids(f, b))
<1>1. IsGraph(f) /\ b \in Dominators(f, b)
  BY SelfDominates DEF IsConnected
<1>2. ASSUME NEW y \in Successors(f, b), b \notin StrictDominators(f, y) PROVE y \in Frontier(f, b)
  <2>1. y \in Groups
    BY <1>1, GraphEdges
  <2> QED
    BY <1>1, <1>2, <2>1, FrontierIs
<1>3. ASSUME NEW y \in Groups, b \notin StrictDominators(f, y), NEW c \in Groups, IsIdom(f, b, c), y \in Frontier(f, c)
      PROVE  y \in Frontier(f, b)
  <2>1. PICK p \in Groups : y \in Successors(f, p) /\ c \in Dominators(f, p)
    BY <1>3, FrontierIs
  <2>2. b \in Dominators(f, c)
    BY <1>3, IdomDepth
  <2>3. b \in Dominators(f, p)
    BY <1>1, <2>1, <2>2, DominatesTransitive
  <2> QED
    BY <1>3, <2>1, <2>3, FrontierIs
<1>4. ASSUME NEW y \in Frontier(f, b), y \notin OwnFrontier(f, b)
      PROVE  y \in Groups /\ b \notin StrictDominators(f, y) /\ \E c \in Groups : IsIdom(f, b, c) /\ y \in Frontier(f, c)
  <2>1. y \in Groups /\ b \notin StrictDominators(f, y)
    BY FrontierIs
  <2>2. PICK p \in Groups : y \in Successors(f, p) /\ b \in Dominators(f, p)
    BY FrontierIs
  <2>3. b # p
    BY <1>4, <2>1, <2>2 DEF OwnFrontier
  <2>4. PICK c \in Dominators(f, p) : IsIdom(f, b, c)
    BY <2>2, <2>3, ChildBetween
  <2>5. c \in Groups /\ b \in Dominators(f, c) /\ b # c
    BY <2>2, <2>4, IdomDepth, SelfDominates DEF IsIdom
  <2>6. c \notin StrictDominators(f, y)
    <3> SUFFICES ASSUME c \in Dominators(f, y), c # y PROVE FALSE
      BY DEF StrictDominators
    <3>1. b \in Dominators(f, y)
      BY <1>1, <2>1, <2>5, DominatesTransitive
    <3>2. b = y
      BY <2>1, <3>1 DEF StrictDominators
    <3>3. c = b
      BY <2>5, <3>2, DominatesAntisymmetric
    <3> QED
      BY <2>5, <3>3
  <2>7. y \in Frontier(f, c)
    BY <2>1, <2>2, <2>4, <2>5, <2>6, FrontierIs
  <2> QED
    BY <2>1, <2>4, <2>5, <2>7
<1> QED
  BY <1>2, <1>3, <1>4 DEF PartFrontier, OwnFrontier, Kids

-----------------------------------------------------------------------------
(***************************************************************************)
(* The recursion over the tree that computes the frontiers.                *)
(***************************************************************************)
TreeFrames == [node : Groups, todo : SUBSET Groups]

\* The children of the node of call n whose calls have returned.
Returned(f, st, n) ==
    {c \in Kids(f, st[n].node) \ st[n].todo : n < Len(st) => c # st[n + 1].node}

\* The frontiers in the subtree of c are known.
SubtreeDone(f, d, c) == \A m \in Groups : c \in Dominators(f, m) => d[m] = Frontier(f, m)

\* The running calls are for the nodes from the root of the tree down to one.
IsBranch(f, st) ==
    \A n \in 1 .. Len(st) :
        /\ Depth(f, st[n].node) = n - 1
        /\ st[n].todo \subseteq Kids(f, st[n].node)
        /\ n < Len(st) => st[n + 1].node \in Kids(f, st[n].node) \ st[n].todo
        /\ st[n].node \in Dominators(f, st[Len(st)].node)

IsWalk(f, st, d) ==
    /\ IsBranch(f, st)
    /\ \A n \in 1 .. Len(st) :
        /\ d[st[n].node] = PartFrontier(f, st[n].node, Returned(f, st, n))
        /\ \A c \in Returned(f, st, n) : SubtreeDone(f, d, c)

\* A child is one deeper than its parent and dominated by it.
LEMMA KidsAreDeeper ==
    ASSUME NEW f, IsConnected(f), IsFiniteSet(Groups), NEW b, NEW c \in Kids(f, b)
    PROVE  /\ c \in Groups /\ b \in Groups /\ IsIdom(f, b, c)
           /\ b \in Dominators(f, c) /\ Depth(f, c) = Depth(f, b) + 1
           /\ Dominators(f, c) = Dominators(f, b) \cup {c}
<1>1. c \in Groups /\ IsIdom(f, b, c)
  BY DEF Kids
<1> QED
  BY <1>1, IdomDepth, SelfDominates DEF IsIdom

\* A subtree is done when its root and the subtrees of the children of the root are.
LEMMA SubtreeFromKids ==
    ASSUME NEW f, IsConnected(f), IsFiniteSet(Groups), NEW b \in Groups, NEW d,
           d[b] = Frontier(f, b), \A c \in Kids(f, b) : SubtreeDone(f, d, c)
    PROVE  SubtreeDone(f, d, b)
<1> SUFFICES ASSUME NEW m \in Groups, b \in Dominators(f, m), b # m PROVE d[m] = Frontier(f, m)
  BY DEF SubtreeDone
<1>1. PICK c \in Dominators(f, m) : IsIdom(f, b, c)
  BY ChildBetween
<1>2. c \in Kids(f, b)
  BY <1>1, SelfDominates DEF Kids
<1> QED
  BY <1>1, <1>2 DEF SubtreeDone

\* Changing the frontier of a group outside a subtree that is done.
LEMMA OtherSubtree ==
    ASSUME NEW f, NEW c, NEW d, NEW x \in Groups, NEW new, SubtreeDone(f, d, c), c \notin Dominators(f, x),
           NEW e, e = [d EXCEPT ![x] = new], DOMAIN d = Groups
    PROVE  SubtreeDone(f, e, c)
  BY DEF SubtreeDone

\* A call for the next child.
LEMMA WalkCalls ==
    ASSUME NEW f, IsConnected(f), IsFiniteSet(Groups),
           NEW st \in Seq(TreeFrames), st # <<>>, NEW d \in [Groups -> SUBSET Groups], IsWalk(f, st, d),
           NEW c \in st[Len(st)].todo,
           NEW t, t = Append([st EXCEPT ![Len(st)].todo = @ \ {c}], [node |-> c, todo |-> Kids(f, c)]),
           NEW e, e = [d EXCEPT ![c] = OwnFrontier(f, c)]
    PROVE  IsWalk(f, t, e)
<1>1. PICK L : L = Len(st)
  OBVIOUS
<1>2. L \in Nat \ {0} /\ DOMAIN st = 1 .. L /\ \A n \in 1 .. L : st[n] \in TreeFrames
  BY <1>1, EmptySeq, LenProperties, ElementOfSeq
<1>3. /\ Len(t) = L + 1
      /\ \A n \in 1 .. L : t[n].node = st[n].node
      /\ \A n \in 1 .. L : n # L => t[n].todo = st[n].todo
      /\ t[L].todo = st[L].todo \ {c}
      /\ t[L + 1] = [node |-> c, todo |-> Kids(f, c)]
  <2>1. PICK r : r = [st EXCEPT ![L].todo = @ \ {c}]
    OBVIOUS
  <2>2. [st[L] EXCEPT !.todo = @ \ {c}] \in TreeFrames
    BY <1>2 DEF TreeFrames
  <2>3. r \in Seq(TreeFrames) /\ Len(r) = L
    BY <1>1, <1>2, <2>1, <2>2, ExceptSeq
  <2>4. \A n \in 1 .. L : r[n] = IF n = L THEN [st[L] EXCEPT !.todo = @ \ {c}] ELSE st[n]
    BY <1>2, <2>1
  <2>5. \A n \in 1 .. L : r[n].node = st[n].node /\ r[n].todo = IF n = L THEN st[L].todo \ {c} ELSE st[n].todo
    BY <1>2, <2>4 DEF TreeFrames
  <2>6. t = Append(r, [node |-> c, todo |-> Kids(f, c)])
    BY <1>1, <2>1
  <2>7. PICK z : z = [node |-> c, todo |-> Kids(f, c)]
    OBVIOUS
  <2>8. c \in Groups /\ Kids(f, c) \in SUBSET Groups
    BY <1>1, <1>2 DEF TreeFrames, Kids
  <2>9. z \in TreeFrames /\ t = Append(r, z)
    BY <2>6, <2>7, <2>8 DEF TreeFrames
  <2>10. Len(t) = L + 1 /\ t[L + 1] = z /\ \A n \in 1 .. L : t[n] = r[n]
    <3>1. /\ Len(Append(r, z)) = Len(r) + 1 /\ Append(r, z)[Len(r) + 1] = z
          /\ \A n \in 1 .. Len(r) : Append(r, z)[n] = r[n]
      BY ONLY <2>3, <2>9, AppendProperties
    <3> QED
      BY <2>3, <2>9, <3>1
  <2> QED
    BY <1>2, <2>5, <2>7, <2>10
<1>4. \A n \in 1 .. L : /\ st[n].node \in Groups
                        /\ Depth(f, st[n].node) = n - 1
                        /\ st[n].todo \subseteq Kids(f, st[n].node)
                        /\ n < L => st[n + 1].node \in Kids(f, st[n].node) \ st[n].todo
                        /\ st[n].node \in Dominators(f, st[L].node)
                        /\ d[st[n].node] = PartFrontier(f, st[n].node, Returned(f, st, n))
                        /\ \A x \in Returned(f, st, n) : SubtreeDone(f, d, x)
  BY <1>1, <1>2 DEF IsWalk, IsBranch, TreeFrames
<1>5. /\ c \in Groups /\ st[L].node \in Dominators(f, c) /\ Depth(f, c) = L
      /\ c \in Kids(f, st[L].node) /\ Dominators(f, c) = Dominators(f, st[L].node) \cup {c}
  <2>1. c \in Kids(f, st[L].node)
    BY <1>1, <1>2, <1>4
  <2> QED
    BY <1>2, <1>4, <2>1, KidsAreDeeper
<1>6. \A n \in 1 .. L : st[n].node \in Dominators(f, c) /\ st[n].node # c
  BY <1>2, <1>4, <1>5
<1>7. \A n \in 1 .. L : Returned(f, t, n) = Returned(f, st, n)
  <2>1. ASSUME NEW n \in 1 .. L, n # L PROVE Returned(f, t, n) = Returned(f, st, n)
    <3>1. n < L /\ n < L + 1 /\ n + 1 \in 1 .. L
      BY <1>2, <2>1
    <3> QED
      BY <1>1, <1>3, <2>1, <3>1 DEF Returned
  <2>2. Returned(f, t, L) = Returned(f, st, L)
    <3>1. L < L + 1 /\ ~(L < L)
      BY <1>2
    <3> QED
      BY <1>1, <1>2, <1>3, <3>1 DEF Returned
  <2> QED
    BY <2>1, <2>2
<1>8. Returned(f, t, L + 1) = {}
  BY <1>3 DEF Returned
<1>9. ASSUME NEW n \in 1 .. L, NEW x \in Returned(f, st, n) PROVE x \notin Dominators(f, c)
  <2> SUFFICES ASSUME x \in Dominators(f, c) PROVE FALSE
    OBVIOUS
  <2>1. x \in Kids(f, st[n].node) /\ x \notin st[n].todo
    BY <1>9 DEF Returned
  <2>2. Depth(f, x) = n
    <3>1. Depth(f, x) = Depth(f, st[n].node) + 1
      BY <2>1, KidsAreDeeper
    <3> QED
      BY <1>2, <1>4, <3>1
  <2>3. CASE n = L
    <3>1. x = c
      BY <1>5, <2>2, <2>3, SameDepth, SelfDominates
    <3> QED
      BY <1>1, <2>1, <2>3, <3>1
  <2>4. CASE n # L
    <3>1. n < L /\ n + 1 \in 1 .. L /\ (n + 1) - 1 = n
      BY <1>2, <2>4
    <3>2. Depth(f, st[n + 1].node) = n
      BY <1>4, <3>1
    <3>3. x = st[n + 1].node
      BY <1>5, <1>6, <2>2, <3>1, <3>2, SameDepth
    <3> QED
      BY <1>1, <1>9, <3>1, <3>3 DEF Returned
  <2> QED
    BY <2>3, <2>4
<1>10. IsBranch(f, t)
  <2> SUFFICES ASSUME NEW n \in 1 .. L + 1
               PROVE  /\ Depth(f, t[n].node) = n - 1
                      /\ t[n].todo \subseteq Kids(f, t[n].node)
                      /\ n < L + 1 => t[n + 1].node \in Kids(f, t[n].node) \ t[n].todo
                      /\ t[n].node \in Dominators(f, c)
    BY <1>3 DEF IsBranch
  <2>1. CASE n = L + 1
    BY <1>2, <1>3, <1>5, <2>1, SelfDominates
  <2>2. CASE n = L
    BY <1>2, <1>3, <1>4, <1>5, <2>2
  <2>3. CASE n # L /\ n # L + 1
    <3>1. n \in 1 .. L /\ n < L /\ n + 1 \in 1 .. L
      BY <1>2, <2>3
    <3> QED
      BY <1>3, <1>4, <1>6, <2>3, <3>1
  <2> QED
    BY <2>1, <2>2, <2>3
<1>11. ASSUME NEW n \in 1 .. L + 1
       PROVE  /\ e[t[n].node] = PartFrontier(f, t[n].node, Returned(f, t, n))
              /\ \A x \in Returned(f, t, n) : SubtreeDone(f, e, x)
  <2>1. CASE n = L + 1
    <3>1. PartFrontier(f, c, {}) = OwnFrontier(f, c)
      BY DEF PartFrontier
    <3>2. t[n].node = c /\ Returned(f, t, n) = {}
      <4>1. t[L + 1].node = c
        BY <1>3
      <4> QED
        BY <1>8, <2>1, <4>1, Zenon
    <3>3. e[c] = OwnFrontier(f, c)
      BY <1>5
    <3> QED
      BY <3>1, <3>2, <3>3
  <2>2. CASE n # L + 1
    <3>1. n \in 1 .. L
      BY <1>2, <2>2
    <3>2. t[n].node = st[n].node /\ Returned(f, t, n) = Returned(f, st, n) /\ st[n].node # c /\ st[n].node \in Groups
      BY <1>3, <1>4, <1>6, <1>7, <3>1
    <3>3. e[st[n].node] = d[st[n].node]
      BY <3>2
    <3>4. \A x \in Returned(f, st, n) : SubtreeDone(f, e, x)
      BY <1>4, <1>5, <1>9, <3>1, OtherSubtree
    <3>5. e[st[n].node] = PartFrontier(f, st[n].node, Returned(f, st, n))
      BY <1>4, <3>1, <3>3
    <3> QED
      BY <3>2, <3>4, <3>5
  <2> QED
    BY <2>1, <2>2
<1> QED
  BY <1>3, <1>10, <1>11 DEF IsWalk

\* The call for a node returns to the call for its parent.
LEMMA WalkReturns ==
    ASSUME NEW f, IsConnected(f), IsFiniteSet(Groups),
           NEW st \in Seq(TreeFrames), Len(st) > 1, NEW d \in [Groups -> SUBSET Groups], IsWalk(f, st, d),
           st[Len(st)].todo = {},
           NEW u, u = st[Len(st) - 1].node,
           NEW new, new = d[u] \cup {y \in d[st[Len(st)].node] : u \notin StrictDominators(f, y)},
           NEW e, e = [d EXCEPT ![u] = new]
    PROVE  IsWalk(f, SubSeq(st, 1, Len(st) - 1), e)
<1>1. PICK L : L = Len(st)
  OBVIOUS
<1>2. PICK t : t = SubSeq(st, 1, L - 1)
  OBVIOUS
<1>3. L \in Nat /\ L > 1 /\ DOMAIN st = 1 .. L /\ \A n \in 1 .. L : st[n] \in TreeFrames
  BY <1>1, LenProperties, ElementOfSeq
<1>4. Len(t) = L - 1 /\ \A n \in 1 .. L - 1 : t[n] = st[n]
  <2>1. 1 \in 1 .. Len(st) + 1 /\ L - 1 \in 0 .. Len(st)
    BY <1>1, <1>3
  <2> QED
    BY <1>1, <1>2, <1>3, <2>1, SubSeqProperties
<1>5. \A n \in 1 .. L : /\ st[n].node \in Groups
                        /\ Depth(f, st[n].node) = n - 1
                        /\ st[n].todo \subseteq Kids(f, st[n].node)
                        /\ n < L => st[n + 1].node \in Kids(f, st[n].node) \ st[n].todo
                        /\ st[n].node \in Dominators(f, st[L].node)
                        /\ d[st[n].node] = PartFrontier(f, st[n].node, Returned(f, st, n))
                        /\ \A x \in Returned(f, st, n) : SubtreeDone(f, d, x)
  BY <1>1, <1>3 DEF IsWalk, IsBranch, TreeFrames
<1>6. PICK k : k = st[L].node
  OBVIOUS
<1>7. u = st[L - 1].node /\ L - 1 \in 1 .. L /\ L - 1 < L /\ L \in 1 .. L /\ (L - 1) + 1 = L
  BY <1>1, <1>3
<1>8. /\ k \in Kids(f, u) /\ k \in Groups /\ u \in Groups
      /\ Dominators(f, k) = Dominators(f, u) \cup {k}
      /\ Depth(f, k) = L - 1 /\ Depth(f, u) = L - 2
  <2>1. k \in Kids(f, u) /\ Depth(f, k) = L - 1 /\ Depth(f, u) = (L - 1) - 1
    BY <1>5, <1>6, <1>7
  <2> QED
    BY <1>3, <2>1, KidsAreDeeper
<1>9. d[k] = Frontier(f, k) /\ SubtreeDone(f, d, k)
  <2>1. Returned(f, st, L) = Kids(f, k)
    BY <1>1, <1>3, <1>6 DEF Returned
  <2>2. d[k] = Frontier(f, k)
    BY <1>5, <1>6, <1>7, <1>8, <2>1, FrontierFromChildren
  <2>3. \A x \in Kids(f, k) : SubtreeDone(f, d, x)
    BY <1>5, <1>7, <2>1
  <2> QED
    BY <1>8, <2>2, <2>3, SubtreeFromKids
<1>10. \A n \in 1 .. L - 1 : st[n].node \in Dominators(f, u) /\ (n # L - 1 => st[n].node # u)
  <2> SUFFICES ASSUME NEW n \in 1 .. L - 1
               PROVE  st[n].node \in Dominators(f, u) /\ (n # L - 1 => st[n].node # u)
    OBVIOUS
  <2>1. n \in 1 .. L /\ n - 1 # L - 1
    BY <1>3
  <2>2. Depth(f, st[n].node) = n - 1 /\ st[n].node \in Dominators(f, k)
    BY <1>5, <1>6, <2>1
  <2>3. st[n].node # k
    BY <1>8, <2>1, <2>2
  <2>4. n # L - 1 => n - 1 # L - 2
    BY <1>3
  <2> QED
    BY <1>8, <2>2, <2>3, <2>4
<1>11. \A n \in 1 .. L - 1 : Returned(f, t, n) = IF n = L - 1 THEN Returned(f, st, n) \cup {k} ELSE Returned(f, st, n)
  <2>1. ASSUME NEW n \in 1 .. L - 1, n # L - 1 PROVE Returned(f, t, n) = Returned(f, st, n)
    <3>1. n < L /\ n < L - 1 /\ n + 1 \in 1 .. L - 1
      BY <1>3, <2>1
    <3> QED
      BY <1>1, <1>4, <3>1 DEF Returned
  <2>2. Returned(f, t, L - 1) = Returned(f, st, L - 1) \cup {k}
    <3>1. ~(L - 1 < Len(t)) /\ L - 1 < Len(st) /\ t[L - 1] = st[L - 1] /\ st[(L - 1) + 1].node = k
      BY <1>1, <1>3, <1>4, <1>6
    <3>2. k \in Kids(f, st[L - 1].node) \ st[L - 1].todo
      BY <1>5, <1>6, <1>7
    <3> QED
      BY <3>1, <3>2 DEF Returned
  <2> QED
    BY <2>1, <2>2
<1>12. ASSUME NEW n \in 1 .. L - 1, NEW x \in Returned(f, st, n) PROVE x \notin Dominators(f, u)
  <2> SUFFICES ASSUME x \in Dominators(f, u) PROVE FALSE
    OBVIOUS
  <2>0. n \in 1 .. L
    BY <1>3
  <2>1. x \in Kids(f, st[n].node) /\ x \notin st[n].todo
    BY <1>12 DEF Returned
  <2>2. Depth(f, x) = n /\ x \in Groups
    <3>1. Depth(f, x) = Depth(f, st[n].node) + 1 /\ x \in Groups
      BY <2>1, KidsAreDeeper
    <3> QED
      BY <1>3, <1>5, <2>0, <3>1
  <2>3. CASE n = L - 1
    <3>1. Depth(f, x) <= Depth(f, u)
      BY <1>8, <2>2, DepthGrows
    <3> QED
      BY <1>3, <1>8, <2>2, <2>3, <3>1
  <2>4. CASE n # L - 1
    <3>1. n < L /\ n + 1 \in 1 .. L - 1 /\ n + 1 \in 1 .. L /\ (n + 1) - 1 = n
      BY <1>3, <2>4
    <3>2. Depth(f, st[n + 1].node) = n /\ st[n + 1].node \in Dominators(f, u)
      BY <1>5, <1>10, <3>1
    <3>3. x = st[n + 1].node
      BY <1>8, <2>2, <3>2, SameDepth
    <3> QED
      BY <1>1, <1>12, <3>1, <3>3 DEF Returned
  <2> QED
    BY <2>3, <2>4
<1>13. IsBranch(f, t)
  <2> SUFFICES ASSUME NEW n \in 1 .. L - 1
               PROVE  /\ Depth(f, st[n].node) = n - 1
                      /\ st[n].todo \subseteq Kids(f, st[n].node)
                      /\ n < L - 1 => st[n + 1].node \in Kids(f, st[n].node) \ st[n].todo
                      /\ st[n].node \in Dominators(f, u)
    <3> SUFFICES ASSUME NEW n \in 1 .. L - 1
                 PROVE  /\ Depth(f, t[n].node) = n - 1
                        /\ t[n].todo \subseteq Kids(f, t[n].node)
                        /\ n < L - 1 => t[n + 1].node \in Kids(f, t[n].node) \ t[n].todo
                        /\ t[n].node \in Dominators(f, t[L - 1].node)
      BY <1>4 DEF IsBranch
    <3>1. n < L - 1 => n + 1 \in 1 .. L - 1
      BY <1>3
    <3>2. t[n] = st[n] /\ (n < L - 1 => t[n + 1] = st[n + 1])
      BY <1>4, <3>1
    <3>3. t[L - 1].node = u
      <4>1. L - 1 \in 1 .. L - 1
        BY <1>3
      <4> QED
        BY <1>4, <1>7, <4>1
    <3> QED
      BY <3>2, <3>3
  <2>1. n \in 1 .. L /\ n < L
    BY <1>3
  <2> QED
    BY <1>5, <1>10, <2>1
<1>14. e = [d EXCEPT ![u] = new] /\ new = d[u] \cup {y \in d[k] : u \notin StrictDominators(f, y)}
  BY <1>1, <1>6
<1>15. ASSUME NEW n \in 1 .. L - 1
       PROVE  /\ e[t[n].node] = PartFrontier(f, t[n].node, Returned(f, t, n))
              /\ \A x \in Returned(f, t, n) : SubtreeDone(f, e, x)
  <2>0. n \in 1 .. L /\ t[n].node = st[n].node /\ st[n].node \in Groups
    BY <1>3, <1>4, <1>5
  <2>1. \A x \in Returned(f, st, n) : SubtreeDone(f, e, x)
    <3> SUFFICES ASSUME NEW x \in Returned(f, st, n) PROVE SubtreeDone(f, e, x)
      OBVIOUS
    <3>1. SubtreeDone(f, d, x) /\ x \notin Dominators(f, u)
      BY <1>5, <1>12, <2>0
    <3> QED
      BY <1>8, <1>14, <3>1, OtherSubtree
  <2>2. CASE n = L - 1
    <3>1. Returned(f, t, n) = Returned(f, st, n) \cup {k} /\ t[n].node = u
      BY <1>7, <1>11, <2>0, <2>2
    <3>2. k \notin Dominators(f, u)
      <4>1. k \in Dominators(f, u) => Depth(f, k) <= Depth(f, u)
        BY <1>8, DepthGrows
      <4> QED
        BY <1>3, <1>8, <4>1
    <3>3. SubtreeDone(f, e, k)
      BY <1>8, <1>9, <1>14, <3>2, OtherSubtree
    <3>4. d[u] = PartFrontier(f, u, Returned(f, st, n))
      BY <1>5, <1>7, <2>2
    <3>5. e[u] = d[u] \cup {y \in Frontier(f, k) : u \notin StrictDominators(f, y)}
      BY <1>8, <1>9, <1>14
    <3>6. Frontier(f, k) \subseteq Groups
      BY <1>8, FrontierIs
    <3>7. PartFrontier(f, u, Returned(f, st, n) \cup {k})
            = PartFrontier(f, u, Returned(f, st, n)) \cup {y \in Frontier(f, k) : u \notin StrictDominators(f, y)}
      BY <3>6 DEF PartFrontier
    <3>8. e[u] = PartFrontier(f, u, Returned(f, st, n) \cup {k})
      BY <3>4, <3>5, <3>7
    <3> QED
      BY <2>1, <3>1, <3>3, <3>8
  <2>3. CASE n # L - 1
    <3>1. Returned(f, t, n) = Returned(f, st, n) /\ st[n].node # u
      BY <1>10, <1>11, <2>3
    <3>2. e[st[n].node] = d[st[n].node]
      BY <1>14, <2>0, <3>1
    <3>3. e[st[n].node] = PartFrontier(f, st[n].node, Returned(f, st, n))
      BY <1>5, <2>0, <3>2
    <3> QED
      BY <2>0, <2>1, <3>1, <3>3
  <2> QED
    BY <2>2, <2>3
<1>16. IsWalk(f, t, e)
  BY <1>4, <1>13, <1>15 DEF IsWalk
<1> QED
  BY <1>1, <1>2, <1>16

\* The outermost call returns: all frontiers are known.
LEMMA WalkEnds ==
    ASSUME NEW f, IsConnected(f), IsFiniteSet(Groups),
           NEW st \in Seq(TreeFrames), Len(st) = 1, NEW d \in [Groups -> SUBSET Groups], IsWalk(f, st, d),
           st[1].todo = {}
    PROVE  \A m \in Groups : d[m] = Frontier(f, m)
<1>1. /\ st[1].node \in Groups /\ Depth(f, st[1].node) = 1 - 1
      /\ d[st[1].node] = PartFrontier(f, st[1].node, Returned(f, st, 1))
      /\ \A x \in Returned(f, st, 1) : SubtreeDone(f, d, x)
  <2>0. 1 \in 1 .. Len(st)
    OBVIOUS
  <2>1. 1 \in 1 .. Len(st) /\ st[1] \in TreeFrames
    BY <2>0, ElementOfSeq
  <2> QED
    BY <2>1 DEF IsWalk, IsBranch, TreeFrames
<1>2. st[1].node = Entry
  BY <1>1, DepthIsNumber
<1>3. Returned(f, st, 1) = Kids(f, Entry)
  BY <1>2 DEF Returned
<1>4. d[Entry] = Frontier(f, Entry)
  BY <1>1, <1>2, <1>3, EntryAssumption, FrontierFromChildren
<1>5. SubtreeDone(f, d, Entry)
  BY <1>1, <1>3, <1>4, EntryAssumption, SubtreeFromKids
<1> QED
  BY <1>5, EntryDominates DEF SubtreeDone, IsConnected

-----------------------------------------------------------------------------
(***************************************************************************)
(* Why phis in the iterated frontier of the groups that store to a         *)
(* variable are enough.  S are the groups with a phi, D those with a       *)
(* store; the value of the variable on entry to a group is named after the *)
(* phi or the store it comes from.                                         *)
(***************************************************************************)
\* One step up the tree for the name of the value on entry to b.
NameFrom(up, S, D, b, g) ==
    IF b \in S THEN <<"phi", b>>
    ELSE IF b = Entry THEN <<"undef", b>>
    ELSE IF up[b] \in D THEN <<"store", up[b]>>
    ELSE g[up[b]]

\* There are names that go up the tree step by step.
NamesMeet(up, S, D) == \E K : K = [b \in Groups |-> NameFrom(up, S, D, b, K)]

\* Names that go up the tree exist: a group has the name of the closest dominator
\* whose name does not depend on others.
LEMMA NamesExist ==
    ASSUME NEW f, IsConnected(f), IsFiniteSet(Groups),
           NEW up, NEW depth, IsDominatorTree(f, up, depth), NEW S, NEW D
    PROVE  NamesMeet(up, S, D)
<1> DEFINE Own(a) == a \in S \/ a = Entry \/ up[a] \in D
           Stops(b) == {a \in Dominators(f, b) : Own(a)}
           Closest(T) == CHOOSE a \in T : \A c \in T : depth[c] <= depth[a]
           K == [b \in Groups |-> NameFrom(up, S, D, Closest(Stops(b)), up)]
<1> SUFFICES ASSUME NEW b \in Groups PROVE K[b] = NameFrom(up, S, D, b, K)
  BY DEF NamesMeet
<1>1. \A n \in Groups : depth[n] = Depth(f, n) /\ depth[n] \in Nat
  BY DepthIsNumber DEF IsDominatorTree
<1>2. K[b] = NameFrom(up, S, D, Closest(Stops(b)), up)
  OBVIOUS
<1>3. CASE Own(b)
  <2>1. b \in Stops(b) /\ Stops(b) \subseteq Groups
    BY <1>3, SelfDominates
  <2>2. \A c \in Stops(b) : depth[c] <= depth[b] /\ (c # b => depth[c] < depth[b])
    BY <1>1, <2>1, DepthGrows
  <2>3. \A c \in Stops(b) : depth[c] <= depth[b]
    BY <2>2
  <2>4. Closest(Stops(b)) \in Stops(b) /\ depth[b] <= depth[Closest(Stops(b))]
    <3>1. PICK T : T = Stops(b)
      OBVIOUS
    <3>2. \E a \in T : \A c \in T : depth[c] <= depth[a]
      BY <2>1, <2>3, <3>1
    <3>3. Closest(T) \in T /\ \A c \in T : depth[c] <= depth[Closest(T)]
      BY <3>2
    <3> QED
      BY <2>1, <3>1, <3>3
  <2>5. Closest(Stops(b)) = b
    <3>1. PICK x : x = Closest(Stops(b))
      OBVIOUS
    <3>2. x \in Stops(b) /\ depth[b] <= depth[x] /\ depth[x] \in Nat /\ depth[b] \in Nat
      BY <1>1, <2>1, <2>4, <3>1
    <3>3. x = b
      BY <2>2, <3>2
    <3> QED
      BY <3>1, <3>3
  <2>6. K[b] = NameFrom(up, S, D, b, up)
    BY <1>2, <2>5
  <2> HIDE DEF K
  <2>7. NameFrom(up, S, D, b, K) = NameFrom(up, S, D, b, up)
    BY <1>3 DEF NameFrom
  <2> QED
    BY <2>6, <2>7
<1>4. CASE ~Own(b)
  <2>1. IsIdom(f, up[b], b)
    BY <1>4 DEF IsDominatorTree
  <2>2. Dominators(f, up[b]) = Dominators(f, b) \ {b} /\ up[b] \in Groups
    BY <2>1 DEF IsIdom
  <2>3. Stops(up[b]) = Stops(b)
    BY <1>4, <2>2
  <2>4. K[up[b]] = NameFrom(up, S, D, Closest(Stops(up[b])), up)
    BY <2>2
  <2>5. NameFrom(up, S, D, b, K) = K[up[b]]
    BY <1>4 DEF NameFrom
  <2> QED
    BY <1>2, <2>3, <2>4, <2>5
<1> QED
  BY <1>3, <1>4

\* The names on exit from a group, and from a dominator of it with no store and no phi in between.
NameOut(In, D, b) == IF b \in D THEN <<"store", b>> ELSE In[b]

\* On the way up the tree a name is handed down unchanged through groups without a phi
\* or a store.
LEMMA NamesPassThrough ==
    ASSUME NEW f, IsConnected(f), IsFiniteSet(Groups),
           NEW up, NEW depth, IsDominatorTree(f, up, depth), NEW S, NEW D,
           NEW In, In = [b \in Groups |-> NameFrom(up, S, D, b, In)],
           NEW p \in Groups, NEW q \in Dominators(f, p),
           \A g \in Dominators(f, p) : g \notin Dominators(f, q) => g \notin D \cup S
    PROVE  NameOut(In, D, p) = NameOut(In, D, q)
<1> DEFINE Bad == {g \in Dominators(f, p) : q \in Dominators(f, g) /\ NameOut(In, D, g) # NameOut(In, D, q)}
           T == {Depth(f, g) : g \in Bad}
<1>1. Dominators(f, p) \subseteq Groups /\ p \in Dominators(f, p) /\ q \in Groups /\ IsGraph(f)
  BY SelfDominates DEF IsConnected
<1> SUFFICES ASSUME Bad # {} PROVE FALSE
  BY <1>1
<1>2. PICK m \in T : \A j \in T : m <= j
  <2>1. T \subseteq Nat /\ T # {}
    BY <1>1, DepthIsNumber
  <2> HIDE DEF T
  <2> QED
    BY <2>1, LeastNumber
<1>3. PICK g \in Bad : m = Depth(f, g)
  BY <1>2
<1>4. g \in Groups /\ g \in Dominators(f, p) /\ q \in Dominators(f, g) /\ g # q
  BY <1>1, <1>3
<1>5. g \notin Dominators(f, q)
  BY <1>4, DominatesAntisymmetric
<1>6. g \notin D /\ g \notin S /\ g # Entry
  BY <1>1, <1>4, <1>5, EntryDominates
<1>7. IsIdom(f, up[g], g)
  BY <1>4, <1>6 DEF IsDominatorTree
<1>8. up[g] \in Groups /\ q \in Dominators(f, up[g]) /\ up[g] \in Dominators(f, g) /\ Depth(f, g) = Depth(f, up[g]) + 1
  BY <1>4, <1>7, IdomDepth DEF IsIdom
<1>9. up[g] \in Dominators(f, p)
  BY <1>1, <1>4, <1>8, DominatesTransitive
<1>10. up[g] \notin Bad
  <2>1. Depth(f, up[g]) \in Nat
    BY <1>8, DepthIsNumber
  <2>2. Depth(f, up[g]) \notin T
    <3> HIDE DEF T
    <3> QED
      BY <1>2, <1>3, <1>8, <2>1
  <2> QED
    BY <2>2
<1>11. NameOut(In, D, up[g]) = NameOut(In, D, q)
  BY <1>8, <1>9, <1>10
<1>12. In[g] = NameFrom(up, S, D, g, In)
  BY <1>4
<1>13. NameOut(In, D, g) = NameOut(In, D, up[g])
  BY <1>6, <1>12 DEF NameOut, NameFrom
<1> QED
  BY <1>3, <1>11, <1>13

\* All predecessors of a group without a phi end with the name its entry has.
LEMMA NamesAgree ==
    ASSUME NEW f, IsConnected(f), IsFiniteSet(Groups),
           NEW up, NEW depth, IsDominatorTree(f, up, depth), NEW S, NEW D,
           NEW In, In = [b \in Groups |-> NameFrom(up, S, D, b, In)],
           D \subseteq Groups, S \subseteq Groups,
           \A g \in D \cup S : Frontier(f, g) \subseteq S,
           NEW b \in Groups, b \notin S, NEW p \in Groups, b \in Successors(f, p)
    PROVE  NameOut(In, D, p) = In[b]
<1>0. IsGraph(f)
  BY DEF IsConnected
<1>1. ASSUME NEW g \in Dominators(f, p), g \notin StrictDominators(f, b) PROVE g \notin D \cup S
  <2>1. g \in Groups
    BY SelfDominates
  <2>2. b \in Frontier(f, g)
    BY <1>1, <2>1, FrontierIs
  <2> QED
    BY <2>2
<1>2. CASE b = Entry
  <2>1. StrictDominators(f, b) = {} /\ Entry \in Dominators(f, p)
    BY <1>0, <1>2, EntryDominates DEF StrictDominators
  <2>2. NameOut(In, D, p) = NameOut(In, D, Entry)
    BY <1>1, <2>1, NamesPassThrough
  <2>3. Entry \notin D
    BY <1>1, <2>1
  <2> QED
    BY <1>2, <2>2, <2>3 DEF NameOut
<1>3. CASE b # Entry
  <2>1. IsIdom(f, up[b], b)
    BY <1>3 DEF IsDominatorTree
  <2>2. up[b] \in Dominators(f, b) /\ up[b] # b /\ Dominators(f, up[b]) = StrictDominators(f, b)
    BY <2>1, IdomDepth DEF IsIdom, StrictDominators
  <2>3. up[b] \in Dominators(f, p)
    BY <1>0, <2>2, DominatesPredecessor
  <2>4. NameOut(In, D, p) = NameOut(In, D, up[b])
    BY <1>1, <2>2, <2>3, NamesPassThrough
  <2>5. In[b] = NameFrom(up, S, D, b, In)
    OBVIOUS
  <2> QED
    BY <1>3, <2>4, <2>5 DEF NameFrom, NameOut
<1> QED
  BY <1>2, <1>3
=============================================================================
