------------------------ MODULE LengauerTarjanProofs ------------------------
(***************************************************************************)
(* Why the construction of Lengauer and Tarjan finds the immediate         *)
(* dominators: lemmas about depth-first numberings of a flow graph, the    *)
(* semi-dominators they give, the union-find over the depth-first tree and *)
(* the levels of the dominator tree.  They are about functions of numbers  *)
(* and not about the variables of DominatorTree, for every finite graph.   *)
(***************************************************************************)
EXTENDS DominanceProofs

-----------------------------------------------------------------------------
(***************************************************************************)
(* Depth-first trees.  Groups have the numbers 0 .. N - 1 in the order a   *)
(* depth-first walk meets them; E are the edges between the numbers and up *)
(* the parents in the tree of the walk.                                    *)
(***************************************************************************)
\* a is an ancestor of n or n itself: the numbers of a subtree are an interval.
Anc(up, a, n) == a <= n /\ \A m \in a + 1 .. n : up[m] >= a

IsDFS(N, E, up) ==
    /\ E \subseteq (0 .. N - 1) \X (0 .. N - 1)
    /\ up \in [0 .. N - 1 -> 0 .. N - 1]
    /\ \A n \in 1 .. N - 1 : up[n] < n /\ <<up[n], n>> \in E
    /\ \A p, n \in 0 .. N - 1 : <<p, n>> \in E /\ p < n => Anc(up, p, n)

\* A number is its own ancestor, and 0 is everyone's.
LEMMA AncSelf ==
    ASSUME NEW N \in Nat, NEW E, NEW up, IsDFS(N, E, up), NEW n \in 0 .. N - 1
    PROVE  /\ Anc(up, n, n) /\ Anc(up, 0, n)
           /\ n > 0 => up[n] \in 0 .. N - 1 /\ up[n] < n /\ Anc(up, up[n], n) /\ <<up[n], n>> \in E
<1>1. \A m \in 0 .. N - 1 : up[m] \in 0 .. N - 1
  BY DEF IsDFS
<1>2. Anc(up, n, n) /\ Anc(up, 0, n)
  BY <1>1 DEF Anc
<1>3. n > 0 => up[n] < n /\ <<up[n], n>> \in E
  BY DEF IsDFS
<1> QED
  BY <1>1, <1>2, <1>3 DEF IsDFS

\* Ancestors are transitive, and an ancestor is one of all numbers in between.
LEMMA AncBetween ==
    ASSUME NEW N \in Nat, NEW E, NEW up, IsDFS(N, E, up),
           NEW a \in 0 .. N - 1, NEW b \in 0 .. N - 1, NEW n \in 0 .. N - 1
    PROVE  /\ Anc(up, a, b) /\ Anc(up, b, n) => Anc(up, a, n)
           /\ Anc(up, a, n) /\ a <= b /\ b <= n => Anc(up, a, b)
<1>1. ASSUME Anc(up, a, b), Anc(up, b, n) PROVE Anc(up, a, n)
  <2>1. a <= n
    BY <1>1 DEF Anc
  <2>2. ASSUME NEW m \in a + 1 .. n PROVE up[m] >= a
    <3>1. m \in 0 .. N - 1 /\ up[m] \in 0 .. N - 1
      BY DEF IsDFS
    <3>2. CASE m <= b
      BY <1>1, <3>1, <3>2 DEF Anc
    <3>3. CASE m > b
      <4>1. up[m] >= b /\ a <= b
        BY <1>1, <3>1, <3>3 DEF Anc
      <4> QED
        BY <3>1, <4>1
    <3> QED
      BY <3>1, <3>2, <3>3
  <2> QED
    BY <2>1, <2>2 DEF Anc
<1> QED
  BY <1>1 DEF Anc

\* The parent lies between a proper ancestor and the number.
LEMMA AncUp ==
    ASSUME NEW N \in Nat, NEW E, NEW up, IsDFS(N, E, up),
           NEW a \in 0 .. N - 1, NEW n \in 0 .. N - 1, Anc(up, a, n), a < n
    PROVE  a <= up[n] /\ Anc(up, a, up[n])
<1>1. n \in 1 .. N - 1 /\ n \in a + 1 .. n
  OBVIOUS
<1>2. a <= up[n] /\ up[n] < n /\ up[n] \in 0 .. N - 1
  BY <1>1 DEF Anc, IsDFS
<1> QED
  BY <1>2, AncBetween

\* There is a child of a on the way to a descendant.
LEMMA ChildToward ==
    ASSUME NEW N \in Nat, NEW E, NEW up, IsDFS(N, E, up),
           NEW a \in 0 .. N - 1, NEW n \in 0 .. N - 1, Anc(up, a, n), a < n
    PROVE  \E c \in a + 1 .. n : up[c] = a /\ Anc(up, c, n)
<1> DEFINE T == {c \in a + 1 .. n : Anc(up, c, n)}
<1>1. n \in T /\ T \subseteq Nat
  <2>1. Anc(up, n, n)
    BY AncSelf
  <2>2. n \in a + 1 .. n
    OBVIOUS
  <2> QED
    BY <2>1, <2>2
<1>2. PICK c \in T : \A d \in T : c <= d
  BY <1>1, LeastNumber
<1>3. c \in 0 .. N - 1 /\ a < c /\ c <= n /\ Anc(up, c, n)
  BY <1>1, <1>2
<1>4. Anc(up, a, c)
  BY <1>3, AncBetween
<1>5. a <= up[c] /\ up[c] < c /\ Anc(up, up[c], c) /\ up[c] \in 0 .. N - 1
  <2>1. a <= up[c]
    BY <1>3, <1>4, AncUp
  <2>2. c > 0
    BY <1>3
  <2> QED
    BY <1>3, <2>1, <2>2, AncSelf
<1>6. Anc(up, up[c], n)
  BY <1>3, <1>5, AncBetween
<1>7. up[c] \notin T
  BY <1>2, <1>3, <1>5
<1> QED
  BY <1>3, <1>5, <1>6, <1>7

-----------------------------------------------------------------------------
(***************************************************************************)
(* Semi-dominators.                                                        *)
(***************************************************************************)
\* S has n and what an edge leads from to S, as long as it is greater than n.
ClosedAbove(N, E, n, S) ==
    n \in S /\ \A x \in S : \A p \in 0 .. N - 1 : <<p, x>> \in E /\ p > n => p \in S

\* The numbers from which a path leads to n that is above n until then.
Above(N, E, n) == {m \in 0 .. N - 1 : \A S \in SUBSET (0 .. N - 1) : ClosedAbove(N, E, n, S) => m \in S}

\* What the semi-dominator of n is the least of.
Candidates(N, E, n) == {p \in 0 .. n - 1 : \E m \in Above(N, E, n) : <<p, m>> \in E}

IsSemi(N, E, n, s) == s \in Candidates(N, E, n) /\ \A c \in Candidates(N, E, n) : s <= c

\* Above(n) is the least closed set.
LEMMA AboveIsLeast ==
    ASSUME NEW N \in Nat, NEW E, NEW up, IsDFS(N, E, up), NEW n \in 0 .. N - 1
    PROVE  /\ ClosedAbove(N, E, n, Above(N, E, n))
           /\ Above(N, E, n) \subseteq n .. N - 1
           /\ \A S \in SUBSET (0 .. N - 1) : ClosedAbove(N, E, n, S) => Above(N, E, n) \subseteq S
<1>1. ClosedAbove(N, E, n, n .. N - 1)
  BY DEF ClosedAbove, IsDFS
<1>2. Above(N, E, n) \subseteq n .. N - 1
  <2>1. n .. N - 1 \in SUBSET (0 .. N - 1)
    OBVIOUS
  <2> QED
    BY <1>1, <2>1 DEF Above
<1>3. ClosedAbove(N, E, n, Above(N, E, n))
  BY DEF ClosedAbove, Above
<1> QED
  BY <1>2, <1>3 DEF Above

\* From an ancestor above n a path leads to n, too.
LEMMA AboveClimbs ==
    ASSUME NEW N \in Nat, NEW E, NEW up, IsDFS(N, E, up), NEW n \in 0 .. N - 1,
           NEW v \in Above(N, E, n), NEW z \in 0 .. N - 1, Anc(up, z, v), z > n
    PROVE  z \in Above(N, E, n)
<1> DEFINE Bad == {y \in n + 1 .. v : Anc(up, y, v) /\ y \notin Above(N, E, n)}
           T == {v - y : y \in Bad}
<1> SUFFICES ASSUME z \notin Above(N, E, n) PROVE FALSE
  OBVIOUS
<1>1. v \in 0 .. N - 1 /\ n <= v /\ z <= v
  BY AboveIsLeast DEF Anc
<1>2. z \in Bad
  BY <1>1
<1>3. T \subseteq Nat /\ T # {}
  BY <1>1, <1>2
<1>4. PICK t \in T : \A d \in T : t <= d
  BY <1>3, LeastNumber
<1>5. PICK y \in Bad : t = v - y
  BY <1>4
<1>6. y \in 0 .. N - 1 /\ y > n /\ Anc(up, y, v) /\ y \notin Above(N, E, n) /\ y < v
  BY <1>1, <1>5, AboveIsLeast
<1>7. PICK c \in y + 1 .. v : up[c] = y /\ Anc(up, c, v)
  BY <1>1, <1>6, ChildToward
<1>8. c \notin Bad
  <2>1. v - c \in Nat /\ v - c < t
    BY <1>1, <1>5, <1>6, <1>7
  <2> QED
    BY <1>1, <1>4, <1>5, <2>1
<1>9. c \in Above(N, E, n) /\ c \in 0 .. N - 1 /\ c > 0
  BY <1>1, <1>6, <1>7, <1>8
<1>10. <<y, c>> \in E
  BY <1>7, <1>9, AncSelf
<1> QED
  BY <1>6, <1>9, <1>10, AboveIsLeast DEF ClosedAbove

\* Paths go on.
LEMMA AboveGoesOn ==
    ASSUME NEW N \in Nat, NEW E, NEW up, IsDFS(N, E, up), NEW n \in 0 .. N - 1,
           NEW u \in Above(N, E, n), u > n
    PROVE  Above(N, E, u) \subseteq Above(N, E, n)
<1>1. u \in 0 .. N - 1
  BY AboveIsLeast
<1>2. ClosedAbove(N, E, u, Above(N, E, n))
  BY <1>1, AboveIsLeast DEF ClosedAbove
<1>3. Above(N, E, n) \in SUBSET (0 .. N - 1)
  BY DEF Above
<1> QED
  BY <1>1, <1>2, <1>3, AboveIsLeast

\* The least number on a path to n above n is an ancestor of the last one before n.
LEMMA AboveHasLeast ==
    ASSUME NEW N \in Nat, NEW E, NEW up, IsDFS(N, E, up), NEW n \in 0 .. N - 1,
           NEW m \in Above(N, E, n), m # n
    PROVE  \E u, v \in n + 1 .. N - 1 : <<v, n>> \in E /\ Anc(up, u, v) /\ m \in Above(N, E, u)
<1> DEFINE Good(x) == \E u, v \in n + 1 .. N - 1 : <<v, n>> \in E /\ Anc(up, u, v) /\ x \in Above(N, E, u)
           S == {x \in 0 .. N - 1 : x = n \/ Good(x)}
<1>1. ASSUME NEW x \in S, NEW p \in 0 .. N - 1, <<p, x>> \in E, p > n PROVE p \in S
  <2>1. CASE x = n
    <3>0. Anc(up, p, p)
      BY AncSelf
    <3>1. p \in n + 1 .. N - 1
      BY <1>1
    <3>2. p \in Above(N, E, p)
      BY <1>1, AboveIsLeast DEF ClosedAbove
    <3> QED
      BY <1>1, <2>1, <3>0, <3>1, <3>2
  <2>2. CASE x # n
    <3>1. PICK u \in n + 1 .. N - 1, v \in n + 1 .. N - 1 : <<v, n>> \in E /\ Anc(up, u, v) /\ x \in Above(N, E, u)
      BY <2>2
    <3>2. u \in 0 .. N - 1 /\ v \in 0 .. N - 1 /\ x \in 0 .. N - 1 /\ u <= x
      BY <3>1, AboveIsLeast
    <3>3. CASE p > u
      BY <1>1, <3>1, <3>2, <3>3, AboveIsLeast DEF ClosedAbove
    <3>4. CASE p = u
      BY <3>1, <3>2, <3>4, AboveIsLeast DEF ClosedAbove
    <3>5. CASE p < u
      <4>1. p < x
        BY <3>2, <3>5
      <4>2. Anc(up, p, x)
        BY <1>1, <3>2, <4>1 DEF IsDFS
      <4>3. Anc(up, p, u)
        BY <3>2, <3>5, <4>2, AncBetween
      <4>4. Anc(up, p, v)
        BY <3>1, <3>2, <4>3, AncBetween
      <4>5. p \in Above(N, E, p) /\ p \in n + 1 .. N - 1
        BY <1>1, AboveIsLeast DEF ClosedAbove
      <4> QED
        BY <3>1, <4>4, <4>5
    <3> QED
      BY <3>2, <3>3, <3>4, <3>5
  <2> QED
    BY <2>1, <2>2
<1>2. ClosedAbove(N, E, n, S)
  BY <1>1 DEF ClosedAbove
<1>3. m \in S
  <2>1. S \in SUBSET (0 .. N - 1)
    OBVIOUS
  <2> HIDE DEF S
  <2> QED
    BY <1>2, <2>1 DEF Above
<1> QED
  BY <1>3

\* A candidate is a proper ancestor, and the parent is one.
LEMMA CandidatesAreAncestors ==
    ASSUME NEW N \in Nat, NEW E, NEW up, IsDFS(N, E, up), NEW n \in 1 .. N - 1
    PROVE  /\ \A p \in Candidates(N, E, n) : p \in 0 .. N - 1 /\ p < n /\ Anc(up, p, n)
           /\ up[n] \in Candidates(N, E, n)
<1>1. n \in 0 .. N - 1
  OBVIOUS
<1>2. ASSUME NEW p \in Candidates(N, E, n) PROVE p \in 0 .. N - 1 /\ p < n /\ Anc(up, p, n)
  <2>1. PICK m \in Above(N, E, n) : <<p, m>> \in E
    BY DEF Candidates
  <2>2. p \in 0 .. N - 1 /\ p < n /\ m \in 0 .. N - 1 /\ n <= m
    BY <1>1, AboveIsLeast DEF Candidates
  <2>3. Anc(up, p, m)
    BY <2>1, <2>2 DEF IsDFS
  <2> QED
    BY <1>1, <2>2, <2>3, AncBetween
<1>3. n \in Above(N, E, n)
  BY <1>1, AboveIsLeast DEF ClosedAbove
<1>4. up[n] \in 0 .. n - 1 /\ <<up[n], n>> \in E
  BY AncSelf
<1> QED
  BY <1>2, <1>3, <1>4 DEF Candidates

\* Candidates of n that are not its predecessors are candidates of an ancestor of one,
\* and the other way round: what the loop over the predecessors rests on.
LEMMA CandidatesFromAbove ==
    ASSUME NEW N \in Nat, NEW E, NEW up, IsDFS(N, E, up), NEW n \in 0 .. N - 1, NEW p \in 0 .. n - 1
    PROVE  p \in Candidates(N, E, n) <=>
             \/ <<p, n>> \in E
             \/ \E u, v \in n + 1 .. N - 1 : /\ <<v, n>> \in E /\ Anc(up, u, v)
                                             /\ p \in Candidates(N, E, u)
<1>1. n \in Above(N, E, n)
  BY AboveIsLeast DEF ClosedAbove
<1>2. ASSUME p \in Candidates(N, E, n), <<p, n>> \notin E
      PROVE  \E u, v \in n + 1 .. N - 1 : <<v, n>> \in E /\ Anc(up, u, v) /\ p \in Candidates(N, E, u)
  <2>1. PICK m \in Above(N, E, n) : <<p, m>> \in E
    BY <1>2 DEF Candidates
  <2>2. PICK u \in n + 1 .. N - 1, v \in n + 1 .. N - 1 : <<v, n>> \in E /\ Anc(up, u, v) /\ m \in Above(N, E, u)
    BY <1>2, <2>1, AboveHasLeast
  <2>3. p \in 0 .. u - 1
    BY <2>2
  <2> QED
    BY <2>1, <2>2, <2>3 DEF Candidates
<1>3. ASSUME NEW u \in n + 1 .. N - 1, NEW v \in n + 1 .. N - 1, <<v, n>> \in E, Anc(up, u, v),
             p \in Candidates(N, E, u)
      PROVE  p \in Candidates(N, E, n)
  <2>1. v \in Above(N, E, n)
    BY <1>1, <1>3, AboveIsLeast DEF ClosedAbove
  <2>2. u \in Above(N, E, n)
    BY <1>3, <2>1, AboveClimbs
  <2>3. Above(N, E, u) \subseteq Above(N, E, n)
    BY <2>2, AboveGoesOn
  <2> QED
    BY <1>3, <2>3 DEF Candidates
<1> QED
  BY <1>1, <1>2, <1>3 DEF Candidates
-----------------------------------------------------------------------------
(***************************************************************************)
(* Dominators in terms of semi-dominators.                                 *)
(***************************************************************************)
\* g are the groups in the order of their numbers.
IsNumbering(f, g, N, E) ==
    /\ IsConnected(f)
    /\ g \in [0 .. N - 1 -> Groups]
    /\ \A a, b \in 0 .. N - 1 : g[a] = g[b] => a = b
    /\ \A x \in Groups : \E n \in 0 .. N - 1 : g[n] = x
    /\ N > 0 /\ g[0] = Entry
    /\ \A p, n \in 0 .. N - 1 : <<p, n>> \in E <=> g[n] \in Successors(f, g[p])

\* What dominates the end of an edge dominates its start.
LEMMA DominatesAlongEdge ==
    ASSUME NEW N \in Nat, NEW E, NEW f, NEW g, IsNumbering(f, g, N, E),
           NEW p \in 0 .. N - 1, NEW n \in 0 .. N - 1, NEW a \in 0 .. N - 1,
           <<p, n>> \in E, a # n, g[a] \in Dominators(f, g[n])
    PROVE  g[a] \in Dominators(f, g[p])
<1>1. IsGraph(f) /\ g[p] \in Groups /\ g[n] \in Successors(f, g[p]) /\ g[a] # g[n]
  BY DEF IsNumbering, IsConnected
<1> QED
  BY <1>1, DominatesPredecessor

\* What dominates a number dominates its ancestors, up to itself.
LEMMA DominatesUpTheTree ==
    ASSUME NEW N \in Nat, NEW E, NEW up, IsDFS(N, E, up), NEW f, NEW g, IsNumbering(f, g, N, E),
           NEW m \in 0 .. N - 1, NEW n \in 0 .. N - 1, NEW a \in 0 .. N - 1,
           Anc(up, m, n), g[a] \in Dominators(f, g[n]), ~(m < a /\ Anc(up, a, n))
    PROVE  g[a] \in Dominators(f, g[m])
<1> DEFINE T == {x \in m .. n : Anc(up, x, n) /\ g[a] \in Dominators(f, g[x])}
<1>1. n \in T /\ T \subseteq Nat
  <2>1. Anc(up, n, n)
    BY AncSelf
  <2>2. n \in m .. n
    BY DEF Anc
  <2> QED
    BY <2>1, <2>2
<1>2. PICK x \in T : \A y \in T : x <= y
  BY <1>1, LeastNumber
<1>3. x \in 0 .. N - 1 /\ m <= x /\ x <= n /\ Anc(up, x, n) /\ g[a] \in Dominators(f, g[x])
  BY <1>2
<1>4. CASE x = m
  BY <1>3, <1>4
<1>5. CASE x # m
  <2>1. m < x /\ a # x
    BY <1>3, <1>5
  <2>2. Anc(up, m, x)
    BY <1>3, AncBetween
  <2>3. m <= up[x]
    BY <1>3, <2>1, <2>2, AncUp
  <2>4. up[x] \in 0 .. N - 1 /\ up[x] < x /\ Anc(up, up[x], x) /\ <<up[x], x>> \in E
    BY <1>3, <2>1, AncSelf
  <2>5. Anc(up, up[x], n)
    BY <1>3, <2>4, AncBetween
  <2>6. g[a] \in Dominators(f, g[up[x]])
    BY <1>3, <2>1, <2>4, DominatesAlongEdge
  <2>7. up[x] \in T
    BY <1>3, <2>3, <2>4, <2>5, <2>6
  <2> QED
    BY <1>2, <1>3, <2>4, <2>7
<1> QED
  BY <1>4, <1>5

\* Dominators are ancestors.
LEMMA DominatorsAreAncestors ==
    ASSUME NEW N \in Nat, NEW E, NEW up, IsDFS(N, E, up), NEW f, NEW g, IsNumbering(f, g, N, E),
           NEW n \in 0 .. N - 1, NEW a \in 0 .. N - 1, g[a] \in Dominators(f, g[n])
    PROVE  Anc(up, a, n)
<1> SUFFICES ASSUME ~Anc(up, a, n) PROVE FALSE
  OBVIOUS
<1>1. 0 \in 0 .. N - 1 /\ g[0] = Entry /\ IsGraph(f)
  BY DEF IsNumbering, IsConnected
<1>2. Anc(up, 0, n)
  BY AncSelf
<1>3. g[a] \in Dominators(f, g[0])
  BY <1>1, <1>2, DominatesUpTheTree
<1>4. g[a] = g[0]
  BY <1>1, <1>3, EntryDominates
<1>5. a = 0
  BY <1>1, <1>4 DEF IsNumbering
<1> QED
  BY <1>2, <1>5

\* No candidate for the semi-dominator is above a strict dominator.
LEMMA DominatorsAreAboveCandidates ==
    ASSUME NEW N \in Nat, NEW E, NEW up, IsDFS(N, E, up), NEW f, NEW g, IsNumbering(f, g, N, E),
           NEW n \in 0 .. N - 1, NEW a \in 0 .. N - 1, a < n, g[a] \in Dominators(f, g[n]),
           NEW c \in Candidates(N, E, n)
    PROVE  a <= c
<1> DEFINE S == {m \in n .. N - 1 : g[a] \in Dominators(f, g[m])}
<1>1. ClosedAbove(N, E, n, S)
  <2>1. ASSUME NEW x \in S, NEW p \in 0 .. N - 1, <<p, x>> \in E, p > n PROVE p \in S
    <3>1. x \in 0 .. N - 1 /\ a # x /\ g[a] \in Dominators(f, g[x])
      OBVIOUS
    <3>2. g[a] \in Dominators(f, g[p])
      BY <2>1, <3>1, DominatesAlongEdge
    <3> QED
      BY <2>1, <3>2
  <2> QED
    BY <2>1 DEF ClosedAbove
<1>2. S \in SUBSET (0 .. N - 1)
  OBVIOUS
<1>3. PICK m \in Above(N, E, n) : <<c, m>> \in E
  BY DEF Candidates
<1>4. m \in S
  <2> HIDE DEF S
  <2> QED
    BY <1>1, <1>2, AboveIsLeast
<1>5. c \in 0 .. N - 1 /\ m \in 0 .. N - 1 /\ a # m /\ g[a] \in Dominators(f, g[m])
  BY <1>4 DEF Candidates
<1>6. g[a] \in Dominators(f, g[c])
  BY <1>3, <1>5, DominatesAlongEdge
<1>7. Anc(up, a, c)
  BY <1>5, <1>6, DominatorsAreAncestors
<1> QED
  BY <1>7 DEF Anc

\* On the way from a to w no semi-dominator is above a.
Safe(N, up, sd, a, w) == a < w /\ Anc(up, a, w) /\ \A u \in a + 1 .. w : Anc(up, u, w) => sd[u] >= a

\* No edge but those from a leads from elsewhere to such numbers.
LEMMA SafeIsEnteredFromA ==
    ASSUME NEW N \in Nat, NEW E, NEW up, IsDFS(N, E, up),
           NEW sd, \A v \in 1 .. N - 1 : IsSemi(N, E, v, sd[v]),
           NEW a \in 0 .. N - 1, NEW x \in 0 .. N - 1, NEW y \in 0 .. N - 1,
           <<x, y>> \in E, x # a, Safe(N, up, sd, a, y)
    PROVE  Safe(N, up, sd, a, x)
<1>1. a < y /\ Anc(up, a, y) /\ y \in 1 .. N - 1 /\ \A u \in a + 1 .. y : Anc(up, u, y) => sd[u] >= a
  BY DEF Safe
<1>2. y \in Above(N, E, y) /\ \A p \in 0 .. N - 1 : p > y /\ <<p, y>> \in E => p \in Above(N, E, y)
  BY AboveIsLeast DEF ClosedAbove
<1>3. \A v \in 1 .. N - 1 : sd[v] \in 0 .. v - 1
  BY DEF IsSemi, Candidates
<1>4. Anc(up, y, y)
  BY AncSelf
<1>5. \A c \in Candidates(N, E, y) : a <= c
  <2>1. sd[y] >= a /\ sd[y] \in Nat
    BY <1>1, <1>3, <1>4
  <2>2. \A c \in Candidates(N, E, y) : sd[y] <= c
    BY <1>1 DEF IsSemi
  <2>3. \A c \in Candidates(N, E, y) : c \in Nat
    BY <1>1, CandidatesAreAncestors
  <2> QED
    BY <2>1, <2>2, <2>3
<1>6. CASE x < y
  <2>1. Anc(up, x, y)
    BY <1>6 DEF IsDFS
  <2>2. x \in Candidates(N, E, y)
    BY <1>2, <1>6 DEF Candidates
  <2>3. a < x
    BY <1>5, <2>2
  <2>4. Anc(up, a, x)
    BY <1>1, <1>6, <2>3, AncBetween
  <2>5. ASSUME NEW u \in a + 1 .. x, Anc(up, u, x) PROVE sd[u] >= a
    <3>1. u \in 0 .. N - 1 /\ u \in a + 1 .. y
      BY <1>6
    <3>2. Anc(up, u, y)
      BY <2>1, <2>5, <3>1, AncBetween
    <3> QED
      BY <1>1, <3>1, <3>2
  <2> QED
    BY <2>3, <2>4, <2>5 DEF Safe
<1>7. CASE x > y
  <2>1. x \in Above(N, E, y)
    BY <1>2, <1>7
  <2>2. Anc(up, a, x)
    <3> DEFINE Z == {z \in y + 1 .. x : Anc(up, z, x)}
    <3>1. x \in Z /\ Z \subseteq Nat
      <4>1. Anc(up, x, x)
        BY AncSelf
      <4> QED
        BY <1>7, <4>1
    <3>2. PICK z \in Z : \A w \in Z : z <= w
      BY <3>1, LeastNumber
    <3>3. z \in 0 .. N - 1 /\ z > y /\ z > 0 /\ z <= x /\ Anc(up, z, x)
      BY <3>2
    <3>4. up[z] \in 0 .. N - 1 /\ up[z] < z /\ Anc(up, up[z], z) /\ <<up[z], z>> \in E
      BY <3>3, AncSelf
    <3>5. Anc(up, up[z], x)
      BY <3>3, <3>4, AncBetween
    <3>6. up[z] <= y
      <4>1. up[z] \notin Z
        BY <3>2, <3>3, <3>4
      <4> QED
        BY <3>3, <3>4, <3>5, <4>1
    <3>7. CASE up[z] = y
      BY <1>1, <3>5, <3>7, AncBetween
    <3>8. CASE up[z] < y
      <4>1. z \in Above(N, E, y)
        BY <2>1, <3>3, AboveClimbs
      <4>2. up[z] \in Candidates(N, E, y)
        BY <3>4, <3>8, <4>1 DEF Candidates
      <4>3. a <= up[z]
        BY <1>5, <4>2
      <4>4. Anc(up, up[z], y)
        BY <1>7, <3>4, <3>5, <3>8, AncBetween
      <4>5. Anc(up, a, up[z])
        BY <1>1, <3>4, <3>8, <4>3, AncBetween
      <4> QED
        BY <3>4, <3>5, <4>5, AncBetween
    <3> QED
      BY <3>4, <3>6, <3>7, <3>8
  <2>3. ASSUME NEW u \in a + 1 .. x, Anc(up, u, x) PROVE sd[u] >= a
    <3>1. u \in 0 .. N - 1 /\ u \in 1 .. N - 1
      OBVIOUS
    <3>2. CASE u <= y
      <4>1. Anc(up, u, y)
        BY <1>7, <2>3, <3>1, <3>2, AncBetween
      <4> QED
        BY <1>1, <3>2, <4>1
    <3>3. CASE u > y
      <4>1. u \in Above(N, E, y)
        BY <2>1, <2>3, <3>1, <3>3, AboveClimbs
      <4>2. Above(N, E, u) \subseteq Above(N, E, y)
        BY <3>3, <4>1, AboveGoesOn
      <4>3. PICK m \in Above(N, E, u) : <<sd[u], m>> \in E
        BY <3>1 DEF IsSemi, Candidates
      <4>4. sd[u] < y => sd[u] \in Candidates(N, E, y)
        BY <1>3, <3>1, <4>2, <4>3 DEF Candidates
      <4> QED
        BY <1>1, <1>3, <1>5, <3>1, <4>4
    <3> QED
      BY <3>1, <3>2, <3>3
  <2> QED
    BY <1>1, <1>7, <2>2, <2>3 DEF Safe
<1> QED
  BY <1>6, <1>7

\* An ancestor dominates a number if, and only if, no semi-dominator in between
\* is above it: the theorem behind the construction of Lengauer and Tarjan.
LEMMA DominatesIfSafe ==
    ASSUME NEW N \in Nat, NEW E, NEW up, IsDFS(N, E, up), NEW f, NEW g, IsNumbering(f, g, N, E),
           NEW sd, \A v \in 1 .. N - 1 : IsSemi(N, E, v, sd[v]),
           NEW a \in 0 .. N - 1, NEW n \in 0 .. N - 1, a < n
    PROVE  g[a] \in Dominators(f, g[n]) <=> Safe(N, up, sd, a, n)
<1>1. ASSUME g[a] \in Dominators(f, g[n]) PROVE Safe(N, up, sd, a, n)
  <2>1. Anc(up, a, n)
    BY <1>1, DominatorsAreAncestors
  <2>2. ASSUME NEW u \in a + 1 .. n, Anc(up, u, n) PROVE sd[u] >= a
    <3>1. u \in 0 .. N - 1 /\ u \in 1 .. N - 1 /\ a < u
      OBVIOUS
    <3>2. g[a] \in Dominators(f, g[u])
      BY <1>1, <2>2, <3>1, DominatesUpTheTree
    <3>3. sd[u] \in Candidates(N, E, u) /\ sd[u] \in Nat
      <4>1. sd[u] \in Candidates(N, E, u)
        BY <3>1 DEF IsSemi
      <4> QED
        BY <3>1, <4>1, CandidatesAreAncestors
    <3>4. a <= sd[u]
      BY <3>1, <3>2, <3>3, DominatorsAreAboveCandidates
    <3> QED
      BY <3>3, <3>4
  <2> QED
    BY <2>1, <2>2 DEF Safe
<1>2. ASSUME Safe(N, up, sd, a, n) PROVE g[a] \in Dominators(f, g[n])
  <2> DEFINE S == {g[w] : w \in {w \in 0 .. N - 1 : w # a /\ ~Safe(N, up, sd, a, w)}}
  <2>1. g \in [0 .. N - 1 -> Groups] /\ IsGraph(f)
    BY DEF IsNumbering, IsConnected
  <2>2. S \subseteq Groups \ {g[a]}
    BY <2>1 DEF IsNumbering
  <2>3. Entry \in S \cup {g[a]}
    <3>1. 0 \in 0 .. N - 1 /\ g[0] = Entry /\ ~Safe(N, up, sd, a, 0)
      BY DEF IsNumbering, Safe
    <3> QED
      BY <3>1
  <2>4. ASSUME NEW b \in S, NEW c \in Successors(f, b) PROVE c \in S \cup {g[a]}
    <3>1. PICK x \in 0 .. N - 1 : b = g[x] /\ x # a /\ ~Safe(N, up, sd, a, x)
      OBVIOUS
    <3>2. c \in Groups
      BY <2>1, <2>2, GraphEdges
    <3>3. PICK y \in 0 .. N - 1 : c = g[y]
      BY <3>2 DEF IsNumbering
    <3>4. <<x, y>> \in E
      BY <3>1, <3>3 DEF IsNumbering
    <3>5. ~Safe(N, up, sd, a, y)
      BY <3>1, <3>4, SafeIsEnteredFromA
    <3> QED
      BY <3>3, <3>5
  <2>5. g[n] \notin S
    BY <1>2 DEF IsNumbering
  <2>6. ClosedAvoiding(f, {g[a]}, S)
    <3> HIDE DEF S
    <3> QED
      BY <2>3, <2>4 DEF ClosedAvoiding
  <2>7. g[n] \notin ReachableAvoiding(f, {g[a]})
    <3> HIDE DEF S
    <3> QED
      BY <2>2, <2>5, <2>6, AvoidLeast
  <2> QED
    BY <2>1, <2>7 DEF Dominators
<1> QED
  BY <1>1, <1>2
SafeDominators(g, N, up, sd, n) == {g[a] : a \in {a \in 0 .. N - 1 : Safe(N, up, sd, a, n)}}

\* The strict dominators of a number.
LEMMA StrictDominatorsAreSafe ==
    ASSUME NEW N \in Nat, NEW E, NEW up, IsDFS(N, E, up), NEW f, NEW g, IsNumbering(f, g, N, E),
           NEW sd, \A v \in 1 .. N - 1 : IsSemi(N, E, v, sd[v]), NEW n \in 0 .. N - 1
    PROVE  Dominators(f, g[n]) \ {g[n]} = SafeDominators(g, N, up, sd, n)
<1>1. ASSUME NEW b \in Dominators(f, g[n]), b # g[n]
      PROVE  \E a \in 0 .. N - 1 : b = g[a] /\ Safe(N, up, sd, a, n)
  <2>1. b \in Groups
    BY SelfDominates DEF IsNumbering
  <2>2. PICK a \in 0 .. N - 1 : b = g[a]
    BY <2>1 DEF IsNumbering
  <2>3. Anc(up, a, n) /\ a # n
    BY <1>1, <2>2, DominatorsAreAncestors
  <2>4. a < n
    BY <2>3 DEF Anc
  <2> QED
    BY <1>1, <2>2, <2>4, DominatesIfSafe
<1>2. ASSUME NEW a \in 0 .. N - 1, Safe(N, up, sd, a, n)
      PROVE  g[a] \in Dominators(f, g[n]) /\ g[a] # g[n]
  <2>1. a < n
    BY <1>2 DEF Safe
  <2> QED
    BY <1>2, <2>1, DominatesIfSafe DEF IsNumbering
<1> QED
  BY <1>1, <1>2 DEF SafeDominators

\* If no semi-dominator on the way to a number is less than its own, that is its
\* immediate dominator.
LEMMA SemiIsIdom ==
    ASSUME NEW N \in Nat, NEW E, NEW up, IsDFS(N, E, up), NEW f, NEW g, IsNumbering(f, g, N, E),
           NEW sd, \A v \in 1 .. N - 1 : IsSemi(N, E, v, sd[v]), NEW n \in 1 .. N - 1,
           \A v \in sd[n] + 1 .. n : Anc(up, v, n) => sd[n] <= sd[v]
    PROVE  IsIdom(f, g[sd[n]], g[n])
<1>1. n \in 0 .. N - 1
  OBVIOUS
<1>2. sd[n] \in Candidates(N, E, n)
  BY DEF IsSemi
<1>3. PICK t \in 0 .. N - 1 : t = sd[n] /\ t < n /\ Anc(up, t, n)
  BY <1>2, CandidatesAreAncestors
<1>4. \A v \in 1 .. N - 1 : sd[v] \in 0 .. N - 1
  BY CandidatesAreAncestors DEF IsSemi
<1>5. Safe(N, up, sd, t, n)
  <2>1. ASSUME NEW v \in t + 1 .. n, Anc(up, v, n) PROVE sd[v] >= t
    <3>1. v \in 1 .. N - 1
      BY <1>3
    <3>2. t <= sd[v]
      BY <1>3, <2>1
    <3> QED
      BY <1>4, <3>1, <3>2
  <2> QED
    BY <1>3, <2>1 DEF Safe
<1>6. g[t] \in Dominators(f, g[n])
  BY <1>1, <1>3, <1>5, DominatesIfSafe
<1>7. g[t] # g[n] /\ IsGraph(f) /\ g[n] \in Groups /\ g[t] \in Groups
  BY <1>1, <1>3 DEF IsNumbering, IsConnected
<1>8. Dominators(f, g[t]) \subseteq Dominators(f, g[n])
  BY <1>6, <1>7, DominatesTransitive
<1>9. g[n] \notin Dominators(f, g[t])
  <2>1. IsConnected(f)
    BY DEF IsNumbering
  <2> QED
    BY <1>6, <1>7, <2>1, DominatesAntisymmetric
<1>10. ASSUME NEW a \in 0 .. N - 1, Safe(N, up, sd, a, n) PROVE g[a] \in Dominators(f, g[t])
  <2>1. a < n /\ Anc(up, n, n)
    BY <1>1, <1>10, AncSelf DEF Safe
  <2>2. sd[n] >= a
    BY <1>10, <2>1 DEF Safe
  <2>3. CASE a = t
    BY <1>7, <2>3, SelfDominates
  <2>4. CASE a # t
    <3>1. a < t
      BY <1>3, <2>2, <2>4
    <3>2. Anc(up, a, n)
      BY <1>10 DEF Safe
    <3>3. Anc(up, a, t)
      BY <1>1, <1>3, <3>1, <3>2, AncBetween
    <3>4. ASSUME NEW v \in a + 1 .. t, Anc(up, v, t) PROVE sd[v] >= a
      <4>1. v \in 0 .. N - 1 /\ v \in a + 1 .. n
        BY <1>3
      <4>2. Anc(up, v, n)
        BY <1>1, <1>3, <3>4, <4>1, AncBetween
      <4> QED
        BY <1>10, <4>1, <4>2 DEF Safe
    <3>5. Safe(N, up, sd, a, t)
      BY <3>1, <3>3, <3>4 DEF Safe
    <3> QED
      BY <1>3, <3>1, <3>5, DominatesIfSafe
  <2> QED
    BY <2>3, <2>4
<1>11. Dominators(f, g[n]) \ {g[n]} \subseteq Dominators(f, g[t])
  <2>1. Dominators(f, g[n]) \ {g[n]} = SafeDominators(g, N, up, sd, n)
    BY <1>1, StrictDominatorsAreSafe
  <2> QED
    BY <1>10, <2>1 DEF SafeDominators
<1> QED
  BY <1>3, <1>7, <1>8, <1>9, <1>11 DEF IsIdom

\* u is on the way from above t to n, and no semi-dominator there is less than its own.
IsVia(N, up, sd, t, u, n) ==
    u \in t + 1 .. n - 1 /\ Anc(up, u, n) /\ \A v \in t + 1 .. n : Anc(up, v, n) => sd[u] <= sd[v]

\* Otherwise it is that of the number on the way with the least one.
LEMMA IdomOfLeast ==
    ASSUME NEW N \in Nat, NEW E, NEW up, IsDFS(N, E, up), NEW f, NEW g, IsNumbering(f, g, N, E),
           NEW sd, \A v \in 1 .. N - 1 : IsSemi(N, E, v, sd[v]), NEW n \in 1 .. N - 1,
           NEW u, IsVia(N, up, sd, sd[n], u, n), NEW x, IsIdom(f, x, g[u])
    PROVE  IsIdom(f, x, g[n])
<1>0. n \in 0 .. N - 1
  OBVIOUS
<1>9. u \in sd[n] + 1 .. n - 1 /\ Anc(up, u, n)
  BY DEF IsVia
<1>10. \A v \in sd[n] + 1 .. n : Anc(up, v, n) => sd[u] <= sd[v]
  BY DEF IsVia
<1>8. \A w \in 0 .. N - 1 :
        Dominators(f, g[w]) \ {g[w]} = SafeDominators(g, N, up, sd, w)
  BY StrictDominatorsAreSafe
<1>1. \A v \in 1 .. N - 1 : sd[v] \in 0 .. N - 1
  BY CandidatesAreAncestors DEF IsSemi
<1>2. u \in 0 .. N - 1 /\ u \in 1 .. N - 1 /\ u < n /\ sd[n] < u /\ sd[n] \in 0 .. N - 1 /\ sd[u] \in 0 .. N - 1
  <2>1. sd[n] \in 0 .. N - 1
    BY <1>1
  <2>2. u \in 1 .. N - 1 /\ sd[n] < u /\ u < n
    BY <1>9, <2>1
  <2> QED
    BY <1>1, <2>1, <2>2
<1>3. Anc(up, n, n) /\ Anc(up, u, u)
  BY <1>0, <1>2, AncSelf
<1>4. ASSUME NEW a \in 0 .. N - 1, Safe(N, up, sd, a, n) PROVE Safe(N, up, sd, a, u)
  <2>1. a < n /\ Anc(up, a, n)
    BY <1>4 DEF Safe
  <2>2. sd[n] >= a
    BY <1>2, <1>3, <1>4, <2>1 DEF Safe
  <2>3. a < u
    BY <1>2, <2>2
  <2>4. Anc(up, a, u)
    BY <1>0, <1>2, <1>9, <2>1, <2>3, AncBetween
  <2>5. ASSUME NEW v \in a + 1 .. u, Anc(up, v, u) PROVE sd[v] >= a
    <3>1. v \in 0 .. N - 1 /\ v \in a + 1 .. n
      BY <1>2
    <3>2. Anc(up, v, n)
      BY <1>0, <1>2, <1>9, <2>5, <3>1, AncBetween
    <3> QED
      BY <1>4, <3>1, <3>2 DEF Safe
  <2> QED
    BY <2>3, <2>4, <2>5 DEF Safe
<1>5. ASSUME NEW a \in 0 .. N - 1, Safe(N, up, sd, a, u) PROVE Safe(N, up, sd, a, n)
  <2>1. a < u /\ Anc(up, a, u)
    BY <1>5 DEF Safe
  <2>2. sd[u] >= a
    BY <1>2, <1>3, <1>5, <2>1 DEF Safe
  <2>3. a < n /\ Anc(up, a, n)
    BY <1>0, <1>2, <1>9, <2>1, AncBetween
  <2>4. ASSUME NEW v \in a + 1 .. n, Anc(up, v, n) PROVE sd[v] >= a
    <3>1. v \in 0 .. N - 1 /\ v \in 1 .. N - 1 /\ sd[v] \in 0 .. N - 1
      BY <1>1
    <3>2. CASE v <= u
      <4>1. Anc(up, v, u)
        BY <1>0, <1>2, <1>9, <2>4, <3>1, <3>2, AncBetween
      <4> QED
        BY <1>5, <3>1, <3>2, <4>1 DEF Safe
    <3>3. CASE v > u
      <4>1. v \in sd[n] + 1 .. n
        BY <1>2, <3>1, <3>3
      <4>2. sd[u] <= sd[v]
        BY <1>10, <2>4, <4>1
      <4> QED
        BY <1>2, <2>2, <3>1, <4>2
    <3> QED
      BY <1>2, <3>1, <3>2, <3>3
  <2> QED
    BY <2>3, <2>4 DEF Safe
<1>6. Dominators(f, g[n]) \ {g[n]} = Dominators(f, g[u]) \ {g[u]}
  <2>1. \A a \in 0 .. N - 1 : Safe(N, up, sd, a, n) <=> Safe(N, up, sd, a, u)
    BY <1>4, <1>5
  <2>2. Dominators(f, g[n]) \ {g[n]} = SafeDominators(g, N, up, sd, n)
    BY <1>0, <1>8
  <2>3. Dominators(f, g[u]) \ {g[u]} = SafeDominators(g, N, up, sd, u)
    BY <1>2, <1>8
  <2> QED
    BY <2>1, <2>2, <2>3 DEF SafeDominators
<1>7. x \in Dominators(f, x)
  BY SelfDominates DEF IsIdom
<1> QED
  BY <1>6, <1>7 DEF IsIdom

-----------------------------------------------------------------------------
(***************************************************************************)
(* The union-find of the construction.                                     *)
(***************************************************************************)
\* There is a function that is base where fo is the identity, and goes one step from
\* where fo leads to elsewhere.
IsDefined(N, fo, V, base, step) ==
    \E h \in [0 .. N - 1 -> V] :
        \A n \in 0 .. N - 1 : h[n] = IF fo[n] = n THEN base[n] ELSE step[n][h[fo[n]]]

\* A function may be defined by recursion along a map that never leads upwards.
LEMMA DownwardRecursion ==
    ASSUME NEW N \in Nat, NEW fo \in [0 .. N - 1 -> 0 .. N - 1], \A n \in 0 .. N - 1 : fo[n] <= n,
           NEW V, NEW base \in [0 .. N - 1 -> V], NEW step \in [0 .. N - 1 -> [V -> V]]
    PROVE  IsDefined(N, fo, V, base, step)
<1> DEFINE Upto(m, h) == \A n \in 0 .. N - 1 :
                           n < m => h[n] = IF fo[n] = n THEN base[n] ELSE step[n][h[fo[n]]]
           Bad == {m \in 0 .. N : ~\E h \in [0 .. N - 1 -> V] : Upto(m, h)}
<1>1. Bad = {}
  <2> SUFFICES ASSUME Bad # {} PROVE FALSE
    OBVIOUS
  <2>1. Bad \subseteq Nat
    OBVIOUS
  <2>2. PICK m \in Bad : \A d \in Bad : m <= d
    <3> HIDE DEF Bad
    <3> QED
      BY <2>1, LeastNumber
  <2>3. m # 0
    <3>1. Upto(0, base)
      OBVIOUS
    <3> QED
      BY <3>1
  <2>4. m \in Nat /\ m - 1 \in 0 .. N - 1 /\ m - 1 \in 0 .. N /\ ~(m <= m - 1)
    BY <2>2, <2>3
  <2>5. PICK h \in [0 .. N - 1 -> V] : Upto(m - 1, h)
    <3>1. m - 1 \notin Bad
      BY <2>2, <2>4
    <3> QED
      BY <2>4, <3>1
  <2>6. PICK q \in 0 .. N - 1 : q = m - 1
    BY <2>4
  <2>7. PICK value : value = IF fo[q] = q THEN base[q] ELSE step[q][h[fo[q]]]
    OBVIOUS
  <2>8. value \in V
    <3>1. base[q] \in V /\ h[fo[q]] \in V /\ step[q] \in [V -> V]
      OBVIOUS
    <3> QED
      BY <2>7, <3>1
  <2>9. PICK e \in [0 .. N - 1 -> V] : e = [h EXCEPT ![q] = value]
    BY <2>8
  <2>10. ASSUME NEW n \in 0 .. N - 1, n < m
         PROVE  e[n] = IF fo[n] = n THEN base[n] ELSE step[n][e[fo[n]]]
    <3>0. fo[n] \in 0 .. N - 1 /\ fo[n] <= n
      OBVIOUS
    <3>1. fo[n] # n => e[fo[n]] = h[fo[n]]
      <4>1. fo[n] # n => fo[n] < q
        BY <2>6, <2>10, <3>0
      <4> QED
        BY <2>9, <3>0, <4>1
    <3>2. CASE n = q
      BY <2>7, <2>9, <3>1, <3>2
    <3>3. CASE n # q
      <4>1. n < m - 1
        BY <2>6, <2>10, <3>3
      <4>2. h[n] = IF fo[n] = n THEN base[n] ELSE step[n][h[fo[n]]]
        BY <2>5, <4>1
      <4> QED
        BY <2>9, <3>1, <3>3, <4>2
    <3> QED
      BY <3>2, <3>3
  <2>11. Upto(m, e)
    BY <2>10
  <2> QED
    BY <2>11
<1>2. PICK h \in [0 .. N - 1 -> V] : Upto(N, h)
  <2>1. N \in 0 .. N
    OBVIOUS
  <2> QED
    BY <1>1, <2>1
<1> QED
  BY <1>2 DEF IsDefined

\* r is the root above n while the numbers from lk on are linked to their parents.
IsRoot(N, up, lk, r, n) ==
    /\ r \in 0 .. N - 1 /\ Anc(up, r, n) /\ r < lk
    /\ \A u \in 0 .. N - 1 : Anc(up, u, n) /\ u < lk => u <= r

\* fo leads towards the root, and mn to the least semi-dominator on the way there.
IsForest(N, up, sd, lk, fo, mn) ==
    /\ fo \in [0 .. N - 1 -> 0 .. N - 1] /\ mn \in [0 .. N - 1 -> 0 .. N - 1]
    /\ \A n \in 0 .. N - 1 : n < lk => fo[n] = n /\ mn[n] = n
    /\ \A n \in 0 .. N - 1 : n >= lk =>
        /\ fo[n] < n /\ Anc(up, fo[n], n) /\ fo[n] <= mn[n] /\ Anc(up, mn[n], n)
        /\ \A u \in 0 .. N - 1 : Anc(up, u, n) /\ fo[n] < u => u >= lk /\ sd[mn[n]] <= sd[u]

\* What find returns for n, whose root is r.
IsMin(N, up, sd, r, n, x) ==
    /\ x \in 0 .. N - 1 /\ Anc(up, x, n) /\ r <= x
    /\ \A u \in 0 .. N - 1 : Anc(up, u, n) /\ r <= u => sd[x] <= sd[u]

\* The links of a forest lead downwards.
LEMMA ForestGoesDown ==
    ASSUME NEW N \in Nat, NEW up, NEW sd, NEW lk \in Nat, NEW fo, NEW mn, IsForest(N, up, sd, lk, fo, mn)
    PROVE  /\ fo \in [0 .. N - 1 -> 0 .. N - 1] /\ mn \in [0 .. N - 1 -> 0 .. N - 1]
           /\ \A n \in 0 .. N - 1 : fo[n] <= n
<1>1. fo \in [0 .. N - 1 -> 0 .. N - 1] /\ mn \in [0 .. N - 1 -> 0 .. N - 1]
  BY DEF IsForest
<1>2. ASSUME NEW n \in 0 .. N - 1 PROVE fo[n] <= n
  <2>1. CASE n < lk
    <3>1. fo[n] = n
      BY <2>1 DEF IsForest
    <3> QED
      BY <3>1
  <2>2. CASE n >= lk
    <3>1. fo[n] < n /\ fo[n] \in 0 .. N - 1
      BY <1>1, <2>2 DEF IsForest
    <3> QED
      BY <3>1
  <2> QED
    BY <2>1, <2>2
<1> QED
  BY <1>1, <1>2

\* The root of the number fo leads to is the root.
LEMMA SameRoot ==
    ASSUME NEW N \in Nat, NEW E, NEW up, IsDFS(N, E, up), NEW sd, NEW lk \in Nat,
           NEW fo, NEW mn, IsForest(N, up, sd, lk, fo, mn), NEW n \in 0 .. N - 1, n >= lk,
           NEW r, IsRoot(N, up, lk, r, fo[n])
    PROVE  IsRoot(N, up, lk, r, n)
<1>1. fo[n] \in 0 .. N - 1 /\ fo[n] < n /\ Anc(up, fo[n], n) /\ r \in 0 .. N - 1 /\ Anc(up, r, fo[n]) /\ r < lk
  BY DEF IsForest, IsRoot
<1>2. Anc(up, r, n)
  BY <1>1, AncBetween
<1>3. ASSUME NEW u \in 0 .. N - 1, Anc(up, u, n), u < lk PROVE u <= r
  <2>1. u <= fo[n]
    <3>1. ~(fo[n] < u)
      BY <1>3 DEF IsForest
    <3> QED
      BY <1>1, <3>1
  <2>2. Anc(up, u, fo[n])
    BY <1>1, <1>3, <2>1, AncBetween
  <2> QED
    BY <1>3, <2>2 DEF IsRoot
<1> QED
  BY <1>1, <1>2, <1>3 DEF IsRoot

\* A number has one root.
LEMMA OneRoot ==
    ASSUME NEW N \in Nat, NEW up, NEW lk \in Nat, NEW n, NEW r, NEW q,
           IsRoot(N, up, lk, r, n), IsRoot(N, up, lk, q, n)
    PROVE  r = q
<1>1. r \in 0 .. N - 1 /\ q \in 0 .. N - 1 /\ r <= q /\ q <= r
  BY DEF IsRoot
<1> QED
  BY <1>1

\* A number that is not linked is a root.
LEMMA UnlinkedIsRoot ==
    ASSUME NEW N \in Nat, NEW E, NEW up, IsDFS(N, E, up), NEW lk \in Nat, NEW n \in 0 .. N - 1, n < lk
    PROVE  IsRoot(N, up, lk, n, n)
<1>1. Anc(up, n, n)
  BY AncSelf
<1> QED
  BY <1>1 DEF IsRoot, Anc

\* The recursion that looks for the root.
RootMap(N, fo, h) == h = [n \in 0 .. N - 1 |-> IF fo[n] = n THEN n ELSE h[fo[n]]]

\* It is defined.
LEMMA RootIsDefined ==
    ASSUME NEW N \in Nat, NEW up, NEW sd, NEW lk \in Nat, NEW fo, NEW mn, IsForest(N, up, sd, lk, fo, mn)
    PROVE  \E h : RootMap(N, fo, h)
<1>1. /\ fo \in [0 .. N - 1 -> 0 .. N - 1] /\ mn \in [0 .. N - 1 -> 0 .. N - 1]
      /\ \A n \in 0 .. N - 1 : fo[n] <= n
  BY ForestGoesDown
<1>2. PICK V : V = 0 .. N - 1
  OBVIOUS
<1>3. PICK base : base = [n \in 0 .. N - 1 |-> n]
  OBVIOUS
<1>4. PICK step : step = [n \in 0 .. N - 1 |-> [v \in V |-> v]]
  OBVIOUS
<1>5. base \in [0 .. N - 1 -> V] /\ step \in [0 .. N - 1 -> [V -> V]]
  BY <1>2, <1>3, <1>4
<1>6. IsDefined(N, fo, V, base, step)
  BY <1>1, <1>5, DownwardRecursion
<1>7. PICK h \in [0 .. N - 1 -> V] :
        \A n \in 0 .. N - 1 : h[n] = IF fo[n] = n THEN base[n] ELSE step[n][h[fo[n]]]
  BY <1>6 DEF IsDefined
<1>8. \A n \in 0 .. N - 1 : h[n] = IF fo[n] = n THEN n ELSE h[fo[n]]
  BY <1>1, <1>2, <1>3, <1>4, <1>7
<1>9. RootMap(N, fo, h)
  BY <1>8 DEF RootMap
<1> QED
  BY <1>9

\* It finds the root.
LEMMA RootIsFound ==
    ASSUME NEW N \in Nat, NEW E, NEW up, IsDFS(N, E, up), NEW sd, NEW lk \in Nat,
           NEW fo, NEW mn, IsForest(N, up, sd, lk, fo, mn), NEW R, RootMap(N, fo, R)
    PROVE  \A n \in 0 .. N - 1 : R[n] \in 0 .. N - 1 /\ IsRoot(N, up, lk, R[n], n)
<1>2. \A n \in 0 .. N - 1 : R[n] = IF fo[n] = n THEN n ELSE R[fo[n]]
  BY DEF RootMap
<1> DEFINE Bad == {n \in 0 .. N - 1 : ~(R[n] \in 0 .. N - 1 /\ IsRoot(N, up, lk, R[n], n))}
<1> SUFFICES ASSUME Bad # {} PROVE FALSE
  OBVIOUS
<1>3. Bad \subseteq Nat
  OBVIOUS
<1>4. PICK n \in Bad : \A d \in Bad : n <= d
  <2> HIDE DEF Bad
  <2> QED
    BY <1>3, LeastNumber
<1>5. CASE n < lk
  <2>1. R[n] = n
    BY <1>2, <1>5 DEF IsForest
  <2> QED
    BY <1>5, <2>1, UnlinkedIsRoot
<1>6. CASE n >= lk
  <2>1. fo[n] \in 0 .. N - 1 /\ fo[n] < n
    BY <1>6 DEF IsForest
  <2>2. fo[n] \notin Bad
    BY <1>4, <2>1
  <2>3. R[n] = R[fo[n]]
    BY <1>2, <2>1
  <2>4. IsRoot(N, up, lk, R[n], fo[n]) /\ R[n] \in 0 .. N - 1
    BY <2>1, <2>2, <2>3
  <2> QED
    BY <1>6, <2>4, SameRoot
<1> QED
  BY <1>5, <1>6

\* What find takes for n if it takes v for the number n is linked to.
Better(sd, mn, n, v) == IF sd[v] < sd[mn[n]] THEN v ELSE mn[n]

\* The recursion that looks for the least semi-dominator.
MinMap(N, sd, fo, mn, h) ==
    h = [n \in 0 .. N - 1 |-> IF fo[n] = n THEN mn[n] ELSE Better(sd, mn, n, h[fo[n]])]

\* It is defined.
LEMMA MinIsDefined ==
    ASSUME NEW N \in Nat, NEW up, NEW sd, NEW lk \in Nat, NEW fo, NEW mn, IsForest(N, up, sd, lk, fo, mn)
    PROVE  \E h : MinMap(N, sd, fo, mn, h)
<1>1. /\ fo \in [0 .. N - 1 -> 0 .. N - 1] /\ mn \in [0 .. N - 1 -> 0 .. N - 1]
      /\ \A n \in 0 .. N - 1 : fo[n] <= n
  BY ForestGoesDown
<1>2. PICK V : V = 0 .. N - 1
  OBVIOUS
<1>3. PICK step : step = [n \in 0 .. N - 1 |-> [v \in V |-> Better(sd, mn, n, v)]]
  OBVIOUS
<1>4. \A n \in 0 .. N - 1 : \A v \in V : Better(sd, mn, n, v) \in V
  BY <1>1, <1>2 DEF Better
<1>5. step \in [0 .. N - 1 -> [V -> V]] /\ mn \in [0 .. N - 1 -> V]
  BY <1>1, <1>2, <1>3, <1>4
<1>10. IsDefined(N, fo, V, mn, step)
  BY <1>1, <1>5, DownwardRecursion
<1>6. PICK h \in [0 .. N - 1 -> V] :
        \A n \in 0 .. N - 1 : h[n] = IF fo[n] = n THEN mn[n] ELSE step[n][h[fo[n]]]
  BY <1>10 DEF IsDefined
<1>7. \A n \in 0 .. N - 1 : h[n] = IF fo[n] = n THEN mn[n] ELSE Better(sd, mn, n, h[fo[n]])
  BY <1>1, <1>2, <1>3, <1>6
<1>8. MinMap(N, sd, fo, mn, h)
  BY <1>7 DEF MinMap
<1> QED
  BY <1>8

\* What find takes for n has the least semi-dominator if v has it above.
LEMMA BetterIsMin ==
    ASSUME NEW N \in Nat, NEW E, NEW up, IsDFS(N, E, up), NEW sd \in [0 .. N - 1 -> 0 .. N - 1], NEW lk \in Nat,
           NEW fo, NEW mn, IsForest(N, up, sd, lk, fo, mn), NEW n \in 0 .. N - 1, n >= lk,
           NEW r, IsRoot(N, up, lk, r, fo[n]), NEW y, IsMin(N, up, sd, r, fo[n], y),
           NEW x, x = Better(sd, mn, n, y)
    PROVE  IsMin(N, up, sd, r, n, x)
<1>1. PICK q \in 0 .. N - 1, b \in 0 .. N - 1 : q = fo[n] /\ b = mn[n]
  BY DEF IsForest
<1>12. q < n /\ Anc(up, q, n) /\ q <= b /\ Anc(up, b, n)
  BY <1>1 DEF IsForest
<1>13. \A u \in 0 .. N - 1 : Anc(up, u, n) /\ q < u => sd[b] <= sd[u]
  BY <1>1 DEF IsForest
<1>2. y \in 0 .. N - 1 /\ Anc(up, y, q) /\ r <= y
  BY <1>1 DEF IsMin
<1>14. \A u \in 0 .. N - 1 : Anc(up, u, q) /\ r <= u => sd[y] <= sd[u]
  BY <1>1 DEF IsMin
<1>3. r \in 0 .. N - 1 /\ r <= q
  BY <1>1 DEF IsRoot, Anc
<1>4. x = IF sd[y] < sd[b] THEN y ELSE b
  BY <1>1 DEF Better
<1>5. Anc(up, y, n)
  BY <1>12, <1>2, AncBetween
<1>10. r <= b
  BY <1>12, <1>3
<1>11. x = y \/ x = b
  BY <1>4
<1>6. x \in 0 .. N - 1 /\ Anc(up, x, n) /\ r <= x
  BY <1>12, <1>2, <1>5, <1>10, <1>11
<1>7. PICK v \in 0 .. N - 1, w \in 0 .. N - 1, z \in 0 .. N - 1 : v = sd[y] /\ w = sd[b] /\ z = sd[x]
  BY <1>2, <1>6
<1>16. x = IF v < w THEN y ELSE b
  BY <1>4, <1>7
<1>8. z <= v /\ z <= w
  <2>1. CASE v < w
    <3>1. z = v
      BY <1>7, <1>16, <2>1
    <3> QED
      BY <2>1, <3>1
  <2>2. CASE ~(v < w)
    <3>1. z = w
      BY <1>7, <1>16, <2>2
    <3> QED
      BY <2>2, <3>1
  <2> QED
    BY <2>1, <2>2
<1>9. ASSUME NEW u \in 0 .. N - 1, Anc(up, u, n), r <= u PROVE sd[x] <= sd[u]
  <2>0. PICK t \in 0 .. N - 1 : t = sd[u]
    OBVIOUS
  <2>1. CASE q < u
    <3>1. w <= t
      BY <1>7, <1>13, <1>9, <2>0, <2>1
    <3>2. z <= t
      BY <1>8, <3>1
    <3> QED
      BY <1>7, <2>0, <3>2
  <2>2. CASE u <= q
    <3>1. Anc(up, u, q)
      BY <1>12, <1>9, <2>2, AncBetween
    <3>2. v <= t
      BY <1>7, <1>14, <1>9, <2>0, <3>1
    <3>3. z <= t
      BY <1>8, <3>2
    <3> QED
      BY <1>7, <2>0, <3>3
  <2> QED
    BY <1>1, <2>1, <2>2
<1> QED
  BY <1>6, <1>9 DEF IsMin

\* The root of a number is that of what it is linked to.
LEMMA RootOfParent ==
    ASSUME NEW N \in Nat, NEW E, NEW up, IsDFS(N, E, up), NEW sd, NEW lk \in Nat,
           NEW fo, NEW mn, IsForest(N, up, sd, lk, fo, mn), NEW n \in 0 .. N - 1, n >= lk,
           NEW r, IsRoot(N, up, lk, r, n)
    PROVE  IsRoot(N, up, lk, r, fo[n])
<1>1. PICK R : RootMap(N, fo, R)
  BY RootIsDefined
<1>2. fo[n] \in 0 .. N - 1
  BY DEF IsForest
<1>3. \A m \in 0 .. N - 1 : R[m] \in 0 .. N - 1 /\ IsRoot(N, up, lk, R[m], m)
  BY <1>1, RootIsFound
<1>4. PICK q : q = R[fo[n]] /\ IsRoot(N, up, lk, q, fo[n])
  BY <1>2, <1>3
<1>5. IsRoot(N, up, lk, q, n)
  BY <1>4, SameRoot
<1>6. q = r
  BY <1>5, OneRoot
<1> QED
  BY <1>4, <1>6

\* It finds it.
LEMMA MinIsFound ==
    ASSUME NEW N \in Nat, NEW E, NEW up, IsDFS(N, E, up), NEW sd \in [0 .. N - 1 -> 0 .. N - 1], NEW lk \in Nat,
           NEW fo, NEW mn, IsForest(N, up, sd, lk, fo, mn),
           NEW M, MinMap(N, sd, fo, mn, M)
    PROVE  \A n \in 0 .. N - 1 : \A r : IsRoot(N, up, lk, r, n) => IsMin(N, up, sd, r, n, M[n])
<1>0. \A n \in 0 .. N - 1 : M[n] = IF fo[n] = n THEN mn[n] ELSE Better(sd, mn, n, M[fo[n]])
  BY DEF MinMap
<1> DEFINE Bad == {n \in 0 .. N - 1 : ~\A r : IsRoot(N, up, lk, r, n) => IsMin(N, up, sd, r, n, M[n])}
<1> SUFFICES ASSUME Bad # {} PROVE FALSE
  OBVIOUS
<1>1. Bad \subseteq Nat
  OBVIOUS
<1>2. PICK n \in Bad : \A d \in Bad : n <= d
  <2> HIDE DEF Bad
  <2> QED
    BY <1>1, LeastNumber
<1>3. n \in 0 .. N - 1
  OBVIOUS
<1>4. PICK r : IsRoot(N, up, lk, r, n) /\ ~IsMin(N, up, sd, r, n, M[n])
  OBVIOUS
<1>5. CASE n < lk
  <2>1. M[n] = n
    BY <1>0, <1>3, <1>5 DEF IsForest
  <2>2. IsRoot(N, up, lk, n, n)
    BY <1>3, <1>5, UnlinkedIsRoot
  <2>3. r = n
    BY <1>4, <2>2, OneRoot
  <2>4. Anc(up, n, n)
    BY <1>3, AncSelf
  <2>5. \A u \in 0 .. N - 1 : Anc(up, u, n) /\ n <= u => u = n
    BY <1>3 DEF Anc
  <2>6. sd[n] <= sd[n]
    BY <1>3
  <2> QED
    BY <1>3, <1>4, <2>1, <2>3, <2>4, <2>5, <2>6 DEF IsMin
<1>6. CASE n >= lk
  <2>1. PICK q \in 0 .. N - 1 : q = fo[n] /\ q < n
    BY <1>3, <1>6 DEF IsForest
  <2>2. IsRoot(N, up, lk, r, fo[n])
    BY <1>3, <1>4, <1>6, RootOfParent
  <2>3. q \notin Bad
    <3> HIDE DEF Bad
    <3> QED
      BY <1>2, <1>3, <2>1
  <2>4. PICK y : y = M[q] /\ IsMin(N, up, sd, r, fo[n], y)
    BY <2>1, <2>2, <2>3
  <2>5. M[n] = Better(sd, mn, n, y)
    BY <1>0, <1>3, <2>1, <2>4
  <2>6. IsMin(N, up, sd, r, n, M[n])
    BY <1>3, <1>6, <2>2, <2>4, <2>5, BetterIsMin
  <2> QED
    BY <1>4, <2>6
<1> QED
  BY <1>3, <1>5, <1>6

\* The numbers find visits on the way up from n.
PathMap(N, fo, h) == h = [n \in 0 .. N - 1 |-> IF fo[n] = n THEN {n} ELSE {n} \cup h[fo[n]]]

\* The recursion that collects them is defined.
LEMMA PathIsDefined ==
    ASSUME NEW N \in Nat, NEW up, NEW sd, NEW lk \in Nat, NEW fo, NEW mn, IsForest(N, up, sd, lk, fo, mn)
    PROVE  \E h : PathMap(N, fo, h)
<1>1. /\ fo \in [0 .. N - 1 -> 0 .. N - 1] /\ mn \in [0 .. N - 1 -> 0 .. N - 1]
      /\ \A n \in 0 .. N - 1 : fo[n] <= n
  BY ForestGoesDown
<1>2. PICK V : V = SUBSET (0 .. N - 1)
  OBVIOUS
<1>3. PICK base : base = [n \in 0 .. N - 1 |-> {n}]
  OBVIOUS
<1>4. PICK step : step = [n \in 0 .. N - 1 |-> [v \in V |-> {n} \cup v]]
  OBVIOUS
<1>5. base \in [0 .. N - 1 -> V] /\ step \in [0 .. N - 1 -> [V -> V]]
  BY <1>2, <1>3, <1>4
<1>6. IsDefined(N, fo, V, base, step)
  BY <1>1, <1>5, DownwardRecursion
<1>7. PICK h \in [0 .. N - 1 -> V] :
        \A n \in 0 .. N - 1 : h[n] = IF fo[n] = n THEN base[n] ELSE step[n][h[fo[n]]]
  BY <1>6 DEF IsDefined
<1>8. \A n \in 0 .. N - 1 : h[n] = IF fo[n] = n THEN {n} ELSE {n} \cup h[fo[n]]
  BY <1>1, <1>3, <1>4, <1>7
<1>9. PathMap(N, fo, h)
  BY <1>8 DEF PathMap
<1> QED
  BY <1>9

\* They have the root of n.
LEMMA PathToRoot ==
    ASSUME NEW N \in Nat, NEW E, NEW up, IsDFS(N, E, up), NEW sd, NEW lk \in Nat,
           NEW fo, NEW mn, IsForest(N, up, sd, lk, fo, mn), NEW P, PathMap(N, fo, P)
    PROVE  \A n \in 0 .. N - 1 : \A r : IsRoot(N, up, lk, r, n) =>
             \A u \in P[n] : u \in 0 .. N - 1 /\ IsRoot(N, up, lk, r, u)
<1>3. \A n \in 0 .. N - 1 : P[n] = IF fo[n] = n THEN {n} ELSE {n} \cup P[fo[n]]
  BY DEF PathMap
<1> DEFINE Bad == {n \in 0 .. N - 1 : ~\A r : IsRoot(N, up, lk, r, n) =>
                     \A u \in P[n] : u \in 0 .. N - 1 /\ IsRoot(N, up, lk, r, u)}
<1> SUFFICES ASSUME Bad # {} PROVE FALSE
  OBVIOUS
<1>4. Bad \subseteq Nat
  OBVIOUS
<1>5. PICK n \in Bad : \A d \in Bad : n <= d
  <2> HIDE DEF Bad
  <2> QED
    BY <1>4, LeastNumber
<1>6. n \in 0 .. N - 1
  OBVIOUS
<1>7. PICK r, u : IsRoot(N, up, lk, r, n) /\ u \in P[n] /\ ~(u \in 0 .. N - 1 /\ IsRoot(N, up, lk, r, u))
  OBVIOUS
<1>12. P[n] = IF fo[n] = n THEN {n} ELSE {n} \cup P[fo[n]]
  BY <1>3, <1>6
<1>13. u # n
  BY <1>6, <1>7
<1>8. u # n /\ fo[n] # n /\ u \in P[fo[n]]
  <2>1. PICK Q : Q = P[fo[n]]
    OBVIOUS
  <2>2. P[n] = IF fo[n] = n THEN {n} ELSE {n} \cup Q
    BY <1>12, <2>1
  <2>3. u \in P[n]
    BY <1>7
  <2> QED
    BY <1>13, <2>1, <2>2, <2>3
<1>9. n >= lk /\ fo[n] \in 0 .. N - 1 /\ fo[n] < n
  BY <1>6, <1>8 DEF IsForest
<1>10. IsRoot(N, up, lk, r, fo[n])
  BY <1>6, <1>7, <1>9, RootOfParent
<1>11. fo[n] \notin Bad
  BY <1>5, <1>6, <1>9
<1> QED
  BY <1>7, <1>8, <1>9, <1>10, <1>11

\* fo after path compression: the numbers of S are linked to r.
LinkedTo(N, fo, S, r) == [n \in 0 .. N - 1 |-> IF n \in S THEN r ELSE fo[n]]

\* mn after path compression.
TakenFrom(N, mn, S, M) == [n \in 0 .. N - 1 |-> IF n \in S THEN M[n] ELSE mn[n]]

\* Path compression keeps what find returns.
LEMMA CompressionKeepsForest ==
    ASSUME NEW N \in Nat, NEW E, NEW up, IsDFS(N, E, up), NEW sd \in [0 .. N - 1 -> 0 .. N - 1], NEW lk \in Nat,
           NEW fo, NEW mn, IsForest(N, up, sd, lk, fo, mn),
           NEW R, RootMap(N, fo, R), NEW M, MinMap(N, sd, fo, mn, M), NEW P, PathMap(N, fo, P),
           NEW x \in 0 .. N - 1
    PROVE  IsForest(N, up, sd, lk, LinkedTo(N, fo, P[x], R[x]), TakenFrom(N, mn, P[x], M))
<1>1. PICK r, S : r = R[x] /\ S = P[x]
  OBVIOUS
<1>2. r \in 0 .. N - 1 /\ IsRoot(N, up, lk, r, x)
  BY <1>1, RootIsFound
<1>3. \A n \in S : n \in 0 .. N - 1 /\ IsRoot(N, up, lk, r, n)
  BY <1>1, <1>2, PathToRoot
<1>4. \A n \in S : IsMin(N, up, sd, r, n, M[n])
  BY <1>3, MinIsFound
<1>5. PICK fo2, mn2 : fo2 = LinkedTo(N, fo, S, r) /\ mn2 = TakenFrom(N, mn, S, M)
  OBVIOUS
<1>6. fo \in [0 .. N - 1 -> 0 .. N - 1] /\ mn \in [0 .. N - 1 -> 0 .. N - 1]
  BY DEF IsForest
<1>7. \A n \in S : M[n] \in 0 .. N - 1 /\ Anc(up, M[n], n) /\ r <= M[n]
  BY <1>4 DEF IsMin
<1>8. fo2 \in [0 .. N - 1 -> 0 .. N - 1] /\ mn2 \in [0 .. N - 1 -> 0 .. N - 1]
  BY <1>2, <1>5, <1>6, <1>7 DEF LinkedTo, TakenFrom
<1>9. \A n \in 0 .. N - 1 : IF n \in S THEN fo2[n] = r /\ mn2[n] = M[n] ELSE fo2[n] = fo[n] /\ mn2[n] = mn[n]
  BY <1>5 DEF LinkedTo, TakenFrom
<1>10. ASSUME NEW n \in 0 .. N - 1, n < lk PROVE fo2[n] = n /\ mn2[n] = n
  <2>1. CASE n \notin S
    BY <1>9, <1>10, <2>1 DEF IsForest
  <2>2. CASE n \in S
    <3>1. IsRoot(N, up, lk, r, n) /\ IsRoot(N, up, lk, n, n)
      BY <1>3, <1>10, <2>2, UnlinkedIsRoot
    <3>2. r = n
      BY <3>1, OneRoot
    <3>3. M[n] \in 0 .. N - 1 /\ M[n] <= n /\ n <= M[n]
      BY <1>7, <2>2, <3>2 DEF Anc
    <3>4. M[n] = n
      BY <3>3
    <3> QED
      BY <1>9, <2>2, <3>2, <3>4
  <2> QED
    BY <2>1, <2>2
<1>11. ASSUME NEW n \in 0 .. N - 1, n >= lk
       PROVE  fo2[n] < n /\ Anc(up, fo2[n], n) /\ fo2[n] <= mn2[n] /\ Anc(up, mn2[n], n)
  <2>1. CASE n \notin S
    BY <1>9, <1>11, <2>1 DEF IsForest
  <2>2. CASE n \in S
    <3>1. r < lk /\ Anc(up, r, n)
      BY <1>3, <2>2 DEF IsRoot
    <3>2. r < n
      BY <1>2, <1>11, <3>1
    <3> QED
      BY <1>7, <1>9, <2>2, <3>1, <3>2
  <2> QED
    BY <2>1, <2>2
<1>12. ASSUME NEW n \in 0 .. N - 1, n >= lk, NEW u \in 0 .. N - 1, Anc(up, u, n), fo2[n] < u
       PROVE  u >= lk /\ sd[mn2[n]] <= sd[u]
  <2>1. CASE n \notin S
    BY <1>9, <1>12, <2>1 DEF IsForest
  <2>2. CASE n \in S
    <3>1. r < u
      BY <1>9, <1>12, <2>2
    <3>2. u >= lk
      <4>1. ~(u < lk)
        <5>1. u < lk => u <= r
          BY <1>3, <1>12, <2>2 DEF IsRoot
        <5> QED
          BY <1>2, <3>1, <5>1
      <4> QED
        BY <4>1
    <3>3. sd[M[n]] <= sd[u]
      <4>1. r <= u
        BY <1>2, <3>1
      <4> QED
        BY <1>4, <1>12, <2>2, <4>1 DEF IsMin
    <3> QED
      BY <1>9, <2>2, <3>2, <3>3
  <2> QED
    BY <2>1, <2>2
<1>13. IsForest(N, up, sd, lk, fo2, mn2)
  BY <1>8, <1>10, <1>11, <1>12 DEF IsForest
<1> QED
  BY <1>1, <1>5, <1>13

\* So does lowering the value of a number that is not linked.
LEMMA LoweringKeepsForest ==
    ASSUME NEW N \in Nat, NEW up, NEW sd \in [0 .. N - 1 -> 0 .. N - 1], NEW lk \in Nat,
           NEW fo, NEW mn, IsForest(N, up, sd, lk, fo, mn),
           NEW sd2 \in [0 .. N - 1 -> 0 .. N - 1], NEW x \in 0 .. N - 1, x < lk,
           \A n \in 0 .. N - 1 : n # x => sd2[n] = sd[n], sd2[x] <= sd[x]
    PROVE  IsForest(N, up, sd2, lk, fo, mn)
<1>1. fo \in [0 .. N - 1 -> 0 .. N - 1] /\ mn \in [0 .. N - 1 -> 0 .. N - 1]
  BY DEF IsForest
<1>2. \A n \in 0 .. N - 1 : sd2[n] <= sd[n]
  <2>1. ASSUME NEW n \in 0 .. N - 1 PROVE sd2[n] <= sd[n]
    <3>1. sd2[n] \in 0 .. N - 1
      OBVIOUS
    <3>2. CASE n = x
      BY <3>2
    <3>3. CASE n # x
      <4>1. sd2[n] = sd[n]
        BY <3>3
      <4> QED
        BY <3>1, <4>1
    <3> QED
      BY <3>2, <3>3
  <2> QED
    BY <2>1
<1>3. ASSUME NEW n \in 0 .. N - 1, n >= lk, NEW u \in 0 .. N - 1, Anc(up, u, n), fo[n] < u
      PROVE  u >= lk /\ sd2[mn[n]] <= sd2[u]
  <2>1. u >= lk /\ sd[mn[n]] <= sd[u]
    BY <1>3 DEF IsForest
  <2>2. u # x
    BY <2>1
  <2>3. PICK q \in 0 .. N - 1 : q = mn[n]
    BY <1>1
  <2>4. PICK v \in 0 .. N - 1, w \in 0 .. N - 1, z \in 0 .. N - 1 : v = sd2[q] /\ w = sd[q] /\ z = sd[u]
    OBVIOUS
  <2>5. v <= w
    BY <1>2, <2>4
  <2>6. w <= z
    BY <2>1, <2>3, <2>4
  <2>7. sd2[u] = z
    BY <2>2, <2>4
  <2>8. sd2[mn[n]] = v
    BY <2>3, <2>4
  <2>9. v <= z
    BY <2>4, <2>5, <2>6
  <2> QED
    BY <2>1, <2>7, <2>8, <2>9
<1>4. \A n \in 0 .. N - 1 : n < lk => fo[n] = n /\ mn[n] = n
  BY DEF IsForest
<1>5. \A n \in 0 .. N - 1 : n >= lk =>
        fo[n] < n /\ Anc(up, fo[n], n) /\ fo[n] <= mn[n] /\ Anc(up, mn[n], n)
  BY DEF IsForest
<1> QED
  BY <1>1, <1>3, <1>4, <1>5 DEF IsForest

\* So does linking the next number to its parent.
LEMMA LinkingKeepsForest ==
    ASSUME NEW N \in Nat, NEW E, NEW up, IsDFS(N, E, up), NEW sd \in [0 .. N - 1 -> 0 .. N - 1],
           NEW x \in 1 .. N - 1, NEW fo, NEW mn, IsForest(N, up, sd, x + 1, fo, mn)
    PROVE  IsForest(N, up, sd, x, [fo EXCEPT ![x] = up[x]], mn)
<1>1. PICK fo2 : fo2 = [fo EXCEPT ![x] = up[x]]
  OBVIOUS
<1>2. fo \in [0 .. N - 1 -> 0 .. N - 1] /\ mn \in [0 .. N - 1 -> 0 .. N - 1]
  BY DEF IsForest
<1>11. x \in 0 .. N - 1 /\ x > 0
  OBVIOUS
<1>3. x \in 0 .. N - 1 /\ up[x] \in 0 .. N - 1 /\ up[x] < x /\ Anc(up, up[x], x) /\ Anc(up, x, x)
  BY <1>11, AncSelf
<1>4. /\ fo2 \in [0 .. N - 1 -> 0 .. N - 1] /\ fo2[x] = up[x]
      /\ \A n \in 0 .. N - 1 : n # x => fo2[n] = fo[n]
  BY <1>1, <1>2, <1>3
<1>5. \A n \in 0 .. N - 1 : n < x + 1 => fo[n] = n /\ mn[n] = n
  BY DEF IsForest
<1>6. \A n \in 0 .. N - 1 : n >= x + 1 =>
        fo[n] < n /\ Anc(up, fo[n], n) /\ fo[n] <= mn[n] /\ Anc(up, mn[n], n)
  BY DEF IsForest
<1>7. ASSUME NEW n \in 0 .. N - 1, n < x PROVE fo2[n] = n /\ mn[n] = n
  <2>1. n < x + 1 /\ n # x
    BY <1>3, <1>7
  <2> QED
    BY <1>4, <1>5, <2>1
<1>8. ASSUME NEW n \in 0 .. N - 1, n >= x
      PROVE  fo2[n] < n /\ Anc(up, fo2[n], n) /\ fo2[n] <= mn[n] /\ Anc(up, mn[n], n)
  <2>1. CASE n = x
    <3>1. mn[x] = x
      <4>1. x < x + 1
        BY <1>3
      <4> QED
        BY <1>3, <1>5, <4>1
    <3>2. fo2[x] < x /\ Anc(up, fo2[x], x) /\ fo2[x] <= mn[x] /\ Anc(up, mn[x], x)
      <4>1. PICK q \in 0 .. N - 1 : q = up[x]
        BY <1>3
      <4>2. q < x /\ q <= x /\ Anc(up, q, x) /\ Anc(up, x, x)
        BY <1>3, <4>1
      <4>3. fo2[x] = q
        BY <1>4, <4>1
      <4> QED
        BY <3>1, <4>2, <4>3
    <3> QED
      BY <2>1, <3>2
  <2>2. CASE n # x
    <3>1. n >= x + 1
      BY <1>3, <1>8, <2>2
    <3>2. fo[n] < n /\ Anc(up, fo[n], n) /\ fo[n] <= mn[n] /\ Anc(up, mn[n], n)
      BY <1>6, <3>1
    <3>3. fo2[n] = fo[n]
      BY <1>4, <2>2
    <3> QED
      BY <3>2, <3>3
  <2> QED
    BY <2>1, <2>2
<1>9. ASSUME NEW n \in 0 .. N - 1, n >= x, NEW u \in 0 .. N - 1, Anc(up, u, n), fo2[n] < u
      PROVE  u >= x /\ sd[mn[n]] <= sd[u]
  <2>1. CASE n = x
    <3>1. mn[x] = x
      BY <1>3, <1>5
    <3>2. u <= x /\ up[x] < u
      BY <1>4, <1>9, <2>1 DEF Anc
    <3>3. ~(u < x)
      <4>1. u < x => u <= up[x]
        BY <1>3, <1>9, <2>1, AncUp
      <4> QED
        BY <1>3, <3>2, <4>1
    <3>4. u = x
      BY <3>2, <3>3
    <3>5. sd[x] \in 0 .. N - 1
      BY <1>3
    <3> QED
      BY <2>1, <3>1, <3>4, <3>5
  <2>2. CASE n # x
    <3>1. n >= x + 1
      BY <1>9, <2>2
    <3>2. u >= x + 1 /\ sd[mn[n]] <= sd[u]
      BY <1>4, <1>9, <2>2, <3>1 DEF IsForest
    <3> QED
      BY <3>2
  <2> QED
    BY <2>1, <2>2
<1>10. IsForest(N, up, sd, x, fo2, mn)
  BY <1>2, <1>4, <1>7, <1>8, <1>9 DEF IsForest
<1> QED
  BY <1>1, <1>10

-----------------------------------------------------------------------------
(***************************************************************************)
(* The depth-first walk, whose calls are st: h has the numbers of their    *)
(* groups, o are the groups in the order of their numbers, fa is the       *)
(* parent in the tree of what is not on the path of st.                    *)
(***************************************************************************)
Calls == [group : Groups, next : Nat \ {0}]
CallOf(b) == [group |-> b, next |-> 1]

\* Edge e of number p is behind the walk.
LookedAt(st, h, p, e) == \A j \in 1 .. Len(st) : h[j] = p => e < st[j].next

OnPath(st, h, n) == \E j \in 1 .. Len(st) : h[j] = n

\* Number p has an edge to number n that is behind the walk.
Passed(F, st, h, o, p, n) ==
    \E e \in 1 .. Len(F[o[p + 1]]) : F[o[p + 1]][e] = o[n + 1] /\ LookedAt(st, h, p, e)

IsPath(F, st, h, o) ==
    /\ Len(st) > 0 /\ h \in [1 .. Len(st) -> 0 .. Len(o) - 1]
    /\ h[1] = 0 /\ o[1] = Entry
    /\ \A j \in 1 .. Len(st) : st[j].group = o[h[j] + 1] /\ st[j].next <= Len(F[st[j].group]) + 1
    /\ \A j, m \in 1 .. Len(st) : j < m => h[j] < h[m]
    /\ \A j \in 1 .. Len(st) - 1 :
          /\ st[j].next <= Len(F[st[j].group])
          /\ F[st[j].group][st[j].next] = st[j + 1].group

IsOrdered(F, st, h, o) ==
    /\ \A a, b \in 1 .. Len(o) : o[a] = o[b] => a = b
    /\ \A p \in 0 .. Len(o) - 1 : \A e \in 1 .. Len(F[o[p + 1]]) :
          LookedAt(st, h, p, e) => \E n \in 0 .. Len(o) - 1 : F[o[p + 1]][e] = o[n + 1]

HasFather(F, st, h, o, fa, n) ==
    /\ fa[n] \in 0 .. n - 1 /\ o[n + 1] \in Successors(F, o[fa[n] + 1])
    /\ \A j \in 1 .. Len(st) : h[j] < n => h[j] <= fa[n]

IsAbove(st, h, fa, p, n) ==
    /\ \A m \in p + 1 .. n : ~OnPath(st, h, m) => fa[m] >= p
    /\ \A j \in 1 .. Len(st) - 1 : p < h[j + 1] /\ h[j + 1] <= n => h[j] >= p

IsPartOfTree(F, st, h, o, fa) ==
    /\ \A n \in 1 .. Len(o) - 1 : ~OnPath(st, h, n) => HasFather(F, st, h, o, fa, n)
    /\ \A p, n \in 0 .. Len(o) - 1 : p < n /\ Passed(F, st, h, o, p, n) => IsAbove(st, h, fa, p, n)

ArePrevious(N, F, st, h, o, pr) ==
    \A n, p \in 0 .. N - 1 :
        (\E e \in 1 .. Len(pr[n]) : pr[n][e] = p) <=>
            n < Len(o) /\ p < Len(o) /\ Passed(F, st, h, o, p, n)

IsSearch(F, st, h, o, fa) == IsPath(F, st, h, o) /\ IsOrdered(F, st, h, o) /\ IsPartOfTree(F, st, h, o, fa)

\* The types of the walk.
LEMMA SearchTypes ==
    ASSUME NEW F, IsGraph(F), NEW st \in Seq(Calls), NEW o \in Seq(Groups), NEW h, NEW fa, IsSearch(F, st, h, o, fa)
    PROVE  /\ Len(st) \in Nat \ {0} /\ Len(o) \in Nat \ {0}
           /\ \A j \in 1 .. Len(st) : st[j] \in Calls /\ h[j] \in 0 .. Len(o) - 1
           /\ \A n \in 0 .. Len(o) - 1 : o[n + 1] \in Groups /\ n + 1 \in 1 .. Len(o)
           /\ \A b \in Groups : Len(F[b]) \in Nat /\ F[b] \in Seq(Groups)
<1>1. Len(st) \in Nat \ {0} /\ Len(o) \in Nat
  BY LenProperties DEF IsSearch, IsPath
<1>2. h \in [1 .. Len(st) -> 0 .. Len(o) - 1]
  BY DEF IsSearch, IsPath
<1>3. \A j \in 1 .. Len(st) : st[j] \in Calls /\ h[j] \in 0 .. Len(o) - 1
  BY <1>1, <1>2, ElementOfSeq
<1>4. 1 \in 1 .. Len(st)
  BY <1>1
<1>5. h[1] \in 0 .. Len(o) - 1
  BY <1>3, <1>4
<1>6. Len(o) # 0
  BY <1>1, <1>5
<1>7. ASSUME NEW n \in 0 .. Len(o) - 1 PROVE o[n + 1] \in Groups /\ n + 1 \in 1 .. Len(o)
  <2>1. n + 1 \in 1 .. Len(o)
    BY <1>1
  <2> QED
    BY <2>1, ElementOfSeq
<1>8. ASSUME NEW b \in Groups PROVE Len(F[b]) \in Nat /\ F[b] \in Seq(Groups)
  <2>1. F[b] \in Seq(Groups)
    BY DEF IsGraph
  <2> QED
    BY <2>1, LenProperties
<1> QED
  BY <1>1, <1>3, <1>6, <1>7, <1>8

\* The walk starts at the entry.
LEMMA SearchStarts ==
    ASSUME NEW F, IsGraph(F), NEW N \in Nat \ {0}, NEW fa, NEW pr, pr = [n \in 0 .. N - 1 |-> <<>>]
    PROVE  /\ IsSearch(F, <<[group |-> Entry, next |-> 1]>>, <<0>>, <<Entry>>, fa)
           /\ ArePrevious(N, F, <<[group |-> Entry, next |-> 1]>>, <<0>>, <<Entry>>, pr)
<1>1. PICK st, h, o : st = <<[group |-> Entry, next |-> 1]>> /\ h = <<0>> /\ o = <<Entry>>
  OBVIOUS
<1>2. /\ Len(st) = 1 /\ Len(o) = 1 /\ o[1] = Entry /\ h[1] = 0
      /\ st[1].group = Entry /\ st[1].next = 1 /\ h \in [1 .. 1 -> 0 .. 0]
  BY <1>1
<1>3. F[Entry] \in Seq(Groups) /\ Len(F[Entry]) \in Nat
  BY EntryAssumption, LenProperties DEF IsGraph
<1>4. ASSUME NEW e \in Nat \ {0} PROVE ~LookedAt(st, h, 0, e)
  BY <1>2 DEF LookedAt
<1>5. \A p, n \in 0 .. 0 : ~Passed(F, st, h, o, p, n)
  <2>1. ASSUME NEW n, Passed(F, st, h, o, 0, n) PROVE FALSE
    BY <1>2, <1>3, <1>4, <2>1 DEF Passed
  <2> QED
    BY <2>1
<1>6. IsPath(F, st, h, o)
  BY <1>2, <1>3 DEF IsPath
<1>7. IsOrdered(F, st, h, o)
  BY <1>2, <1>3, <1>4 DEF IsOrdered
<1>8. IsPartOfTree(F, st, h, o, fa)
  BY <1>2, <1>5 DEF IsPartOfTree
<1>9. ArePrevious(N, F, st, h, o, pr)
  <2>1. ASSUME NEW n \in 0 .. N - 1, NEW p \in 0 .. N - 1
        PROVE  (\E e \in 1 .. Len(pr[n]) : pr[n][e] = p) <=>
                 n < Len(o) /\ p < Len(o) /\ Passed(F, st, h, o, p, n)
    <3>1. pr[n] = <<>> /\ Len(pr[n]) = 0
      OBVIOUS
    <3>2. ~(\E e \in 1 .. Len(pr[n]) : pr[n][e] = p)
      BY <3>1
    <3>3. n < Len(o) /\ p < Len(o) => n \in 0 .. 0 /\ p \in 0 .. 0
      BY <1>2
    <3> QED
      BY <1>5, <3>2, <3>3
  <2> QED
    BY <2>1 DEF ArePrevious
<1> QED
  BY <1>1, <1>6, <1>7, <1>8, <1>9 DEF IsSearch

\* The next edge of the last call leads to b, which has no number.
MeetsNew(F, st, o, b) ==
    /\ \A n \in 1 .. Len(o) : o[n] # b
    /\ st[Len(st)].next <= Len(F[st[Len(st)].group]) /\ b = F[st[Len(st)].group][st[Len(st)].next]

\* The numbers of the calls when one is made for the next number, and when the last returns.
Deeper(st, h, o) == [j \in 1 .. Len(st) + 1 |-> IF j <= Len(st) THEN h[j] ELSE Len(o)]
Shorter(st, h) == [j \in 1 .. Len(st) - 1 |-> h[j]]

WithoutLast(st) == SubSeq(st, 1, Len(st) - 1)

\* The last call is at its end, and has a caller.
Returns(F, st) == Len(st) > 1 /\ st[Len(st)].next > Len(F[st[Len(st)].group])

\* The last call enters its caller as its parent.
WithFather(fa, st, h) == [fa EXCEPT ![h[Len(st)]] = h[Len(st) - 1]]

\* The walk meets a group without a number and gives it the next one.
LEMMA SearchDescends ==
    ASSUME NEW F, IsGraph(F), NEW st \in Seq(Calls), NEW o \in Seq(Groups), NEW h, NEW fa, IsSearch(F, st, h, o, fa),
           NEW b \in Groups, MeetsNew(F, st, o, b),
           NEW st2, st2 = Append(st, CallOf(b)), NEW o2, o2 = Append(o, b),
           NEW h2, h2 = Deeper(st, h, o),
           NEW N \in Nat, NEW pr, ArePrevious(N, F, st, h, o, pr)
    PROVE  IsSearch(F, st2, h2, o2, fa) /\ ArePrevious(N, F, st2, h2, o2, pr)
<1>0. /\ \A n \in 1 .. Len(o) : o[n] # b
      /\ st[Len(st)].next <= Len(F[st[Len(st)].group]) /\ b = F[st[Len(st)].group][st[Len(st)].next]
  BY DEF MeetsNew
<1>1. PICK L, C : L = Len(st) /\ C = Len(o)
  OBVIOUS
<1>2. /\ L \in Nat \ {0} /\ C \in Nat \ {0}
      /\ \A j \in 1 .. L : st[j] \in Calls /\ h[j] \in 0 .. C - 1
      /\ \A n \in 0 .. C - 1 : o[n + 1] \in Groups /\ n + 1 \in 1 .. C
      /\ \A g \in Groups : Len(F[g]) \in Nat /\ F[g] \in Seq(Groups)
  BY <1>1, SearchTypes
<1>3. /\ Len(st2) = L + 1 /\ \A j \in 1 .. L : st2[j] = st[j] /\ h2[j] = h[j]
      /\ st2[L + 1].group = b /\ st2[L + 1].next = 1 /\ h2[L + 1] = C
      /\ h2 \in [1 .. L + 1 -> 0 .. C]
  BY <1>1, <1>2 DEF Deeper, CallOf
<1>4. /\ Len(o2) = C + 1 /\ \A n \in 1 .. C : o2[n] = o[n]
      /\ o2[C + 1] = b
  BY <1>1, <1>2
<1>5. \A n \in 0 .. C - 1 : o2[n + 1] = o[n + 1]
  BY <1>2, <1>4
<1>6. ASSUME NEW p \in 0 .. C - 1, NEW e PROVE LookedAt(st2, h2, p, e) <=> LookedAt(st, h, p, e)
  <2>1. ASSUME LookedAt(st, h, p, e), NEW j \in 1 .. Len(st2), h2[j] = p PROVE e < st2[j].next
    <3>1. j \in 1 .. L
      BY <1>2, <1>3, <2>1
    <3> QED
      BY <1>1, <1>3, <2>1, <3>1 DEF LookedAt
  <2>2. ASSUME LookedAt(st2, h2, p, e), NEW j \in 1 .. Len(st), h[j] = p PROVE e < st[j].next
    <3>1. j \in 1 .. L /\ j \in 1 .. Len(st2)
      BY <1>1, <1>2, <1>3
    <3> QED
      BY <1>3, <2>2, <3>1 DEF LookedAt
  <2> QED
    BY <2>1, <2>2 DEF LookedAt
<1>7. \A e \in Nat \ {0} : ~LookedAt(st2, h2, C, e)
  <2>1. L + 1 \in 1 .. Len(st2)
    BY <1>2, <1>3
  <2>2. ASSUME NEW e \in Nat \ {0}, LookedAt(st2, h2, C, e) PROVE FALSE
    <3>1. e < st2[L + 1].next
      BY <1>3, <2>1, <2>2 DEF LookedAt
    <3> QED
      BY <1>3, <3>1
  <2> QED
    BY <2>2
<1>8. \A n \in 0 .. C - 1 : OnPath(st2, h2, n) <=> OnPath(st, h, n)
  <2>1. ASSUME NEW n \in 0 .. C - 1, NEW j \in 1 .. Len(st), h[j] = n PROVE OnPath(st2, h2, n)
    <3>1. j \in 1 .. L /\ j \in 1 .. Len(st2)
      BY <1>1, <1>2, <1>3
    <3> QED
      BY <1>3, <2>1, <3>1 DEF OnPath
  <2>2. ASSUME NEW n \in 0 .. C - 1, NEW j \in 1 .. Len(st2), h2[j] = n PROVE OnPath(st, h, n)
    <3>1. j # L + 1
      BY <1>2, <1>3, <2>2
    <3>2. j \in 1 .. L /\ j \in 1 .. Len(st)
      BY <1>1, <1>2, <1>3, <3>1
    <3> QED
      BY <1>3, <2>2, <3>2 DEF OnPath
  <2> QED
    BY <2>1, <2>2 DEF OnPath
<1>9. ASSUME NEW p \in 0 .. C - 1, NEW n \in 0 .. C - 1 PROVE Passed(F, st2, h2, o2, p, n) <=> Passed(F, st, h, o, p, n)
  <2>1. o2[p + 1] = o[p + 1] /\ o2[n + 1] = o[n + 1]
    BY <1>5
  <2> QED
    BY <1>6, <2>1 DEF Passed
<1>10. ASSUME NEW n PROVE ~Passed(F, st2, h2, o2, C, n)
  <2>1. ASSUME NEW e \in 1 .. Len(F[b]), LookedAt(st2, h2, C, e) PROVE FALSE
    BY <1>2, <1>7, <2>1
  <2> QED
    BY <1>4, <2>1 DEF Passed
<1>11. ASSUME NEW p \in 0 .. C - 1 PROVE ~Passed(F, st2, h2, o2, p, C)
  <2>1. ASSUME NEW e \in 1 .. Len(F[o[p + 1]]), F[o[p + 1]][e] = b, LookedAt(st2, h2, p, e) PROVE FALSE
    <3>1. LookedAt(st, h, p, e)
      BY <1>6, <2>1
    <3>2. PICK n \in 0 .. C - 1 : F[o[p + 1]][e] = o[n + 1]
      BY <1>1, <3>1 DEF IsSearch, IsOrdered
    <3>3. n + 1 \in 1 .. Len(o) /\ o[n + 1] = b
      BY <1>1, <1>2, <2>1, <3>2
    <3> QED
      BY <1>0, <3>3
  <2> QED
    BY <1>4, <1>5, <2>1 DEF Passed
<1>12. IsPath(F, st2, h2, o2)
  <2>1. Len(st2) > 0 /\ h2 \in [1 .. Len(st2) -> 0 .. Len(o2) - 1]
    BY <1>2, <1>3, <1>4
  <2>2. h2[1] = 0 /\ o2[1] = Entry
    BY <1>2, <1>3, <1>4 DEF IsSearch, IsPath
  <2>3. ASSUME NEW j \in 1 .. Len(st2) PROVE st2[j].group = o2[h2[j] + 1] /\ st2[j].next <= Len(F[st2[j].group]) + 1
    <3>1. CASE j \in 1 .. L
      <4>1. st[j].group = o[h[j] + 1] /\ st[j].next <= Len(F[st[j].group]) + 1
        BY <1>1, <3>1 DEF IsSearch, IsPath
      <4>2. st2[j] = st[j] /\ h2[j] = h[j] /\ h[j] \in 0 .. C - 1
        BY <1>2, <1>3, <3>1
      <4>3. o2[h[j] + 1] = o[h[j] + 1]
        BY <1>5, <4>2
      <4>4. st2[j].group = o2[h2[j] + 1]
        BY <4>1, <4>2, <4>3
      <4>5. st2[j].next <= Len(F[st2[j].group]) + 1
        BY <4>1, <4>2
      <4> QED
        BY <4>4, <4>5
    <3>2. CASE j = L + 1
      BY <1>2, <1>3, <1>4, <3>2
    <3>3. j \in 1 .. L \/ j = L + 1
      BY <1>2, <1>3
    <3> QED
      BY <3>1, <3>2, <3>3
  <2>4. ASSUME NEW j \in 1 .. Len(st2), NEW m \in 1 .. Len(st2), j < m PROVE h2[j] < h2[m]
    <3>1. j \in 1 .. L /\ h2[j] = h[j] /\ h[j] \in 0 .. C - 1
      BY <1>2, <1>3, <2>4
    <3>2. CASE m \in 1 .. L
      BY <1>1, <1>3, <2>4, <3>1, <3>2 DEF IsSearch, IsPath
    <3>3. CASE m = L + 1
      BY <1>2, <1>3, <3>1, <3>3
    <3> QED
      BY <1>2, <1>3, <3>2, <3>3
  <2>5. ASSUME NEW j \in 1 .. Len(st2) - 1
        PROVE  st2[j].next <= Len(F[st2[j].group]) /\ F[st2[j].group][st2[j].next] = st2[j + 1].group
    <3>1. j \in 1 .. L /\ st2[j] = st[j]
      BY <1>2, <1>3
    <3>2. CASE j = L
      BY <1>0, <1>1, <1>3, <3>1, <3>2
    <3>3. CASE j # L
      <4>1. j \in 1 .. L - 1 /\ j + 1 \in 1 .. L
        BY <1>2, <3>1, <3>3
      <4>2. st2[j + 1] = st[j + 1]
        BY <1>3, <4>1
      <4> QED
        BY <1>1, <3>1, <4>1, <4>2 DEF IsSearch, IsPath
    <3> QED
      BY <3>2, <3>3
  <2> QED
    BY <2>1, <2>2, <2>3, <2>4, <2>5 DEF IsPath
<1>13. IsOrdered(F, st2, h2, o2)
  <2>1. ASSUME NEW n \in 1 .. Len(o2), NEW m \in 1 .. Len(o2), o2[n] = o2[m] PROVE n = m
    <3>1. \A x \in 1 .. C : o2[x] = o[x] /\ o[x] # b
      BY <1>0, <1>1, <1>4
    <3>2. \A x, y \in 1 .. C : o[x] = o[y] => x = y
      BY <1>1 DEF IsSearch, IsOrdered
    <3>3. n \in 1 .. C \/ n = C + 1
      BY <1>2, <1>4
    <3>4. m \in 1 .. C \/ m = C + 1
      BY <1>2, <1>4
    <3> QED
      BY <1>4, <2>1, <3>1, <3>2, <3>3, <3>4
  <2>2. ASSUME NEW p \in 0 .. Len(o2) - 1, NEW e \in 1 .. Len(F[o2[p + 1]]), LookedAt(st2, h2, p, e)
        PROVE  \E n \in 0 .. Len(o2) - 1 : F[o2[p + 1]][e] = o2[n + 1]
    <3>1. p # C
      <4>1. p = C => e \in Nat \ {0}
        BY <1>2, <1>4
      <4> QED
        BY <1>7, <2>2, <4>1
    <3>2. p \in 0 .. C - 1
      BY <1>2, <1>4, <3>1
    <3>5. e \in 1 .. Len(F[o[p + 1]]) /\ LookedAt(st, h, p, e)
      BY <1>5, <1>6, <2>2, <3>2
    <3>3. PICK n \in 0 .. C - 1 : F[o[p + 1]][e] = o[n + 1]
      BY <1>1, <3>2, <3>5 DEF IsSearch, IsOrdered
    <3>4. n \in 0 .. Len(o2) - 1 /\ o2[n + 1] = o[n + 1] /\ o2[p + 1] = o[p + 1]
      BY <1>2, <1>4, <1>5, <3>2
    <3> QED
      BY <3>3, <3>4
  <2> QED
    BY <2>1, <2>2 DEF IsOrdered
<1>14. IsPartOfTree(F, st2, h2, o2, fa)
  <2>1. ASSUME NEW n \in 1 .. Len(o2) - 1, ~OnPath(st2, h2, n) PROVE HasFather(F, st2, h2, o2, fa, n)
    <3>1. L + 1 \in 1 .. Len(st2)
      BY <1>2, <1>3
    <3>2. n # C
      BY <1>3, <2>1, <3>1 DEF OnPath
    <3>3. n \in 1 .. C - 1 /\ n \in 0 .. C - 1
      BY <1>2, <1>4, <3>2
    <3>4. HasFather(F, st, h, o, fa, n)
      BY <1>1, <1>8, <2>1, <3>3 DEF IsSearch, IsPartOfTree
    <3>5. fa[n] \in 0 .. n - 1 /\ o[n + 1] \in Successors(F, o[fa[n] + 1]) /\ \A j \in 1 .. L : h[j] < n => h[j] <= fa[n]
      BY <1>1, <3>4 DEF HasFather
    <3>6. fa[n] \in 0 .. C - 1
      BY <1>2, <3>3, <3>5
    <3>7. o2[n + 1] = o[n + 1] /\ o2[fa[n] + 1] = o[fa[n] + 1]
      BY <1>5, <3>3, <3>6
    <3>8. ASSUME NEW j \in 1 .. Len(st2), h2[j] < n PROVE h2[j] <= fa[n]
      <4>1. j # L + 1
        BY <1>2, <1>3, <3>3, <3>8
      <4>2. j \in 1 .. L
        BY <1>2, <1>3, <4>1
      <4> QED
        BY <1>3, <3>5, <3>8, <4>2
    <3> QED
      BY <3>5, <3>7, <3>8 DEF HasFather
  <2>2. ASSUME NEW p \in 0 .. Len(o2) - 1, NEW n \in 0 .. Len(o2) - 1, p < n, Passed(F, st2, h2, o2, p, n)
        PROVE  IsAbove(st2, h2, fa, p, n)
    <3>1. p \in 0 .. C - 1
      BY <1>2, <1>4, <2>2
    <3>2. n \in 0 .. C - 1
      <4>1. n # C
        BY <1>11, <2>2, <3>1
      <4> QED
        BY <1>2, <1>4, <4>1
    <3>3. IsAbove(st, h, fa, p, n)
      BY <1>1, <1>9, <2>2, <3>1, <3>2 DEF IsSearch, IsPartOfTree
    <3>4. ASSUME NEW m \in p + 1 .. n, ~OnPath(st2, h2, m) PROVE fa[m] >= p
      <4>1. m \in 0 .. C - 1
        BY <1>2, <3>1, <3>2
      <4> QED
        BY <1>8, <3>3, <3>4, <4>1 DEF IsAbove
    <3>5. ASSUME NEW j \in 1 .. Len(st2) - 1, p < h2[j + 1], h2[j + 1] <= n PROVE h2[j] >= p
      <4>1. j \in 1 .. L
        BY <1>2, <1>3
      <4>2. j # L
        BY <1>2, <1>3, <3>2, <3>5
      <4>3. j \in 1 .. L - 1 /\ j + 1 \in 1 .. L
        BY <1>2, <4>1, <4>2
      <4>4. h2[j] = h[j] /\ h2[j + 1] = h[j + 1]
        BY <1>3, <4>1, <4>3
      <4> QED
        BY <1>1, <3>3, <3>5, <4>3, <4>4 DEF IsAbove
    <3> QED
      BY <3>4, <3>5 DEF IsAbove
  <2> QED
    BY <2>1, <2>2 DEF IsPartOfTree
<1>15. ArePrevious(N, F, st2, h2, o2, pr)
  <2>1. ASSUME NEW n \in 0 .. N - 1, NEW p \in 0 .. N - 1
        PROVE  n < Len(o2) /\ p < Len(o2) /\ Passed(F, st2, h2, o2, p, n) <=>
                 n < Len(o) /\ p < Len(o) /\ Passed(F, st, h, o, p, n)
    <3>1. CASE n < C /\ p < C
      <4>1. n \in 0 .. C - 1 /\ p \in 0 .. C - 1 /\ n < C + 1 /\ p < C + 1
        BY <1>2, <3>1
      <4> QED
        BY <1>1, <1>4, <1>9, <3>1, <4>1
    <3>2. CASE ~(n < C /\ p < C)
      <4>1. n < Len(o2) /\ p < Len(o2) => p = C \/ (p \in 0 .. C - 1 /\ n = C)
        BY <1>2, <1>4, <3>2
      <4> QED
        BY <1>1, <1>10, <1>11, <3>2, <4>1
    <3> QED
      BY <3>1, <3>2
  <2> QED
    BY <2>1 DEF ArePrevious
<1> QED
  BY <1>12, <1>13, <1>14, <1>15 DEF IsSearch

\* The call for the last number of the path is over: its parent is the one before.
LEMMA SearchPops ==
    ASSUME NEW F, IsGraph(F), NEW st \in Seq(Calls), NEW o \in Seq(Groups), NEW h, NEW fa, IsSearch(F, st, h, o, fa),
           Returns(F, st), NEW st2, st2 = WithoutLast(st),
           NEW h2, h2 = Shorter(st, h),
           NEW N \in Nat, Len(o) <= N, fa \in [0 .. N - 1 -> 0 .. N - 1],
           NEW fa2, fa2 = WithFather(fa, st, h),
           NEW pr, ArePrevious(N, F, st, h, o, pr)
    PROVE  IsSearch(F, st2, h2, o, fa2) /\ ArePrevious(N, F, st2, h2, o, pr)
<1>0. Len(st) > 1 /\ st[Len(st)].next > Len(F[st[Len(st)].group])
  BY DEF Returns
<1>1. PICK L, C : L = Len(st) /\ C = Len(o)
  OBVIOUS
<1>2. /\ L \in Nat \ {0} /\ C \in Nat \ {0} /\ L > 1
      /\ \A j \in 1 .. L : st[j] \in Calls /\ h[j] \in 0 .. C - 1
      /\ \A n \in 0 .. C - 1 : o[n + 1] \in Groups /\ n + 1 \in 1 .. C
      /\ \A g \in Groups : Len(F[g]) \in Nat /\ F[g] \in Seq(Groups)
  BY <1>0, <1>1, SearchTypes
<1>3. Len(st2) = L - 1 /\ \A j \in 1 .. L - 1 : st2[j] = st[j] /\ h2[j] = h[j]
  <2>1. st2 = SubSeq(st, 1, L - 1) /\ h2 = [j \in 1 .. L - 1 |-> h[j]]
    BY <1>1 DEF WithoutLast, Shorter
  <2>2. L - 1 \in Nat /\ L \in Nat /\ 1 \in 1 .. L /\ L - 1 \in 1 .. L
    BY <1>2
  <2>3. Len(st2) = L - 1 /\ \A j \in 1 .. L - 1 : st2[j] = st[j]
    BY <1>1, <2>1, <2>2
  <2> QED
    BY <2>1, <2>3
<1>15. L \in 1 .. L /\ L - 1 \in 1 .. L
  BY <1>2
<1>4. PICK c \in 0 .. C - 1, u \in 0 .. C - 1 : c = h[L] /\ u = h[L - 1]
  BY <1>2, <1>15
<1>5. u < c /\ c > 0 /\ \A j \in 1 .. L - 1 : h[j] <= u /\ h[j] < c
  <2>1. \A j, m \in 1 .. L : j < m => h[j] < h[m]
    BY <1>1 DEF IsSearch, IsPath
  <2>2. L - 1 \in 1 .. L /\ L \in 1 .. L /\ L - 1 < L
    BY <1>2
  <2>3. u < c
    BY <1>4, <2>1, <2>2
  <2>4. ASSUME NEW j \in 1 .. L - 1 PROVE h[j] <= u /\ h[j] < c
    <3>1. j \in 1 .. L /\ h[j] \in 0 .. C - 1
      BY <1>2
    <3>2. CASE j = L - 1
      BY <1>4, <2>3, <3>2
    <3>3. CASE j # L - 1
      <4>1. j < L - 1
        BY <1>2, <3>3
      <4>2. h[j] < u
        BY <1>4, <2>1, <2>2, <3>1, <4>1
      <4> QED
        BY <1>2, <2>3, <3>1, <4>2
    <3> QED
      BY <3>2, <3>3
  <2> QED
    BY <1>2, <2>3, <2>4
<1>6. fa2[c] = u /\ \A n \in 0 .. C - 1 : n # c => fa2[n] = fa[n]
  <2>1. \A n \in 0 .. C - 1 : n \in 0 .. N - 1
    BY <1>1, <1>2
  <2>2. c \in 0 .. N - 1 /\ fa2 = [fa EXCEPT ![c] = u]
    BY <1>1, <1>4, <2>1 DEF WithFather
  <2> QED
    BY <2>1, <2>2
<1>7. ASSUME NEW p \in 0 .. C - 1, NEW e \in 1 .. Len(F[o[p + 1]])
      PROVE  LookedAt(st2, h2, p, e) <=> LookedAt(st, h, p, e)
  <2>1. ASSUME LookedAt(st, h, p, e), NEW j \in 1 .. Len(st2), h2[j] = p PROVE e < st2[j].next
    <3>1. j \in 1 .. L - 1 /\ j \in 1 .. Len(st)
      BY <1>1, <1>2, <1>3
    <3> QED
      BY <1>3, <2>1, <3>1 DEF LookedAt
  <2>2. ASSUME LookedAt(st2, h2, p, e), NEW j \in 1 .. Len(st), h[j] = p PROVE e < st[j].next
    <3>1. CASE j = L
      <4>1. st[L].group = o[p + 1]
        BY <1>1, <2>2, <3>1 DEF IsSearch, IsPath
      <4>2. st[L].next \in Nat /\ Len(F[o[p + 1]]) \in Nat
        <5>1. st[L] \in Calls /\ o[p + 1] \in Groups
          BY <1>2, <1>15
        <5> QED
          BY <1>2, <5>1 DEF Calls
      <4>3. st[L].next > Len(F[o[p + 1]])
        BY <1>0, <1>1, <4>1
      <4>4. e < st[L].next
        BY <4>2, <4>3
      <4> QED
        BY <3>1, <4>4
    <3>2. CASE j # L
      <4>1. j \in 1 .. L - 1
        BY <1>1, <1>2, <3>2
      <4>2. j \in 1 .. Len(st2)
        BY <1>3, <4>1
      <4> QED
        BY <1>3, <2>2, <4>1, <4>2 DEF LookedAt
    <3> QED
      BY <3>1, <3>2
  <2> QED
    BY <2>1, <2>2 DEF LookedAt
<1>8. \A p, n \in 0 .. C - 1 : Passed(F, st2, h2, o, p, n) <=> Passed(F, st, h, o, p, n)
  BY <1>7 DEF Passed
<1>9. ASSUME NEW n PROVE OnPath(st2, h2, n) \/ n = c <=> OnPath(st, h, n)
  <2>1. ASSUME OnPath(st2, h2, n) PROVE OnPath(st, h, n)
    <3>1. PICK j \in 1 .. L - 1 : h[j] = n
      BY <1>3, <2>1 DEF OnPath
    <3>2. j \in 1 .. Len(st)
      BY <1>1, <1>2
    <3> QED
      BY <3>1, <3>2 DEF OnPath
  <2>2. OnPath(st, h, c)
    BY <1>1, <1>4, <1>15 DEF OnPath
  <2>3. ASSUME OnPath(st, h, n), n # c PROVE OnPath(st2, h2, n)
    <3>1. PICK j \in 1 .. L : h[j] = n
      BY <1>1, <2>3 DEF OnPath
    <3>2. j \in 1 .. L - 1
      BY <1>2, <1>4, <2>3, <3>1
    <3> QED
      BY <1>3, <3>1, <3>2 DEF OnPath
  <2> QED
    BY <2>1, <2>2, <2>3
<1>10. IsPath(F, st2, h2, o)
  <2>1. Len(st2) > 0 /\ h2 \in [1 .. Len(st2) -> 0 .. Len(o) - 1]
    <3>1. h2 = [j \in 1 .. L - 1 |-> h[j]]
      BY <1>1 DEF Shorter
    <3>2. ASSUME NEW j \in 1 .. L - 1 PROVE h[j] \in 0 .. C - 1
      <4>1. j \in 1 .. L
        BY <1>2
      <4> QED
        BY <1>2, <4>1
    <3>3. h2 \in [1 .. L - 1 -> 0 .. C - 1]
      BY ONLY SMTT(30), <3>1, <3>2
    <3>4. Len(st2) = L - 1 /\ Len(o) = C /\ L - 1 > 0
      BY <1>0, <1>1, <1>3
    <3> QED
      BY <3>3, <3>4
  <2>2. h2[1] = 0 /\ o[1] = Entry
    BY <1>2, <1>3 DEF IsSearch, IsPath
  <2>3. ASSUME NEW j \in 1 .. Len(st2) PROVE st2[j].group = o[h2[j] + 1] /\ st2[j].next <= Len(F[st2[j].group]) + 1
    <3>1. j \in 1 .. L /\ j \in 1 .. L - 1 /\ st2[j] = st[j] /\ h2[j] = h[j]
      BY <1>2, <1>3
    <3> QED
      BY <1>1, <3>1 DEF IsSearch, IsPath
  <2>4. ASSUME NEW j \in 1 .. Len(st2), NEW m \in 1 .. Len(st2), j < m PROVE h2[j] < h2[m]
    <3>1. j \in 1 .. L /\ m \in 1 .. L /\ h2[j] = h[j] /\ h2[m] = h[m]
      BY <1>2, <1>3
    <3> QED
      BY <1>1, <2>4, <3>1 DEF IsSearch, IsPath
  <2>5. ASSUME NEW j \in 1 .. Len(st2) - 1
        PROVE  st2[j].next <= Len(F[st2[j].group]) /\ F[st2[j].group][st2[j].next] = st2[j + 1].group
    <3>2. j \in 1 .. L - 1 /\ j + 1 \in 1 .. L - 1
      BY <1>2, <1>3
    <3>1. st2[j] = st[j] /\ st2[j + 1] = st[j + 1]
      BY <1>3, <3>2
    <3> QED
      BY <1>1, <3>1, <3>2 DEF IsSearch, IsPath
  <2> QED
    BY <2>1, <2>2, <2>3, <2>4, <2>5 DEF IsPath
<1>11. IsOrdered(F, st2, h2, o)
  BY <1>1, <1>7 DEF IsSearch, IsOrdered
<1>12. HasFather(F, st2, h2, o, fa2, c)
  <2>1. L - 1 \in 1 .. L - 1 /\ L - 1 \in 1 .. L /\ L \in 1 .. L /\ (L - 1) + 1 = L
    BY <1>2
  <2>2. /\ st[L - 1].next <= Len(F[st[L - 1].group])
        /\ F[st[L - 1].group][st[L - 1].next] = st[L].group
    BY <1>1, <2>1 DEF IsSearch, IsPath
  <2>3. st[L - 1].group = o[u + 1] /\ st[L].group = o[c + 1]
    BY <1>1, <1>4, <2>1 DEF IsSearch, IsPath
  <2>4. st[L - 1].next \in 1 .. Len(F[o[u + 1]])
    <3>1. st[L - 1].next \in Nat \ {0} /\ Len(F[o[u + 1]]) \in Nat
      BY <1>2, <2>1 DEF Calls
    <3>2. st[L - 1].next <= Len(F[o[u + 1]])
      BY <2>2, <2>3
    <3> QED
      BY <3>1, <3>2
  <2>5. o[c + 1] \in Successors(F, o[u + 1])
    <3>1. DOMAIN F[o[u + 1]] = 1 .. Len(F[o[u + 1]])
      BY <1>2, LenProperties
    <3> QED
      BY <2>2, <2>3, <2>4, <3>1 DEF Successors
  <2>6. \A j \in 1 .. Len(st2) : h2[j] <= u
    BY <1>3, <1>5
  <2>7. u \in 0 .. c - 1
    BY <1>2, <1>5
  <2> QED
    BY <1>6, <2>5, <2>6, <2>7 DEF HasFather
<1>13. IsPartOfTree(F, st2, h2, o, fa2)
  <2>1. ASSUME NEW n \in 1 .. Len(o) - 1, ~OnPath(st2, h2, n) PROVE HasFather(F, st2, h2, o, fa2, n)
    <3>1. CASE n = c
      BY <1>12, <3>1
    <3>2. CASE n # c
      <4>1. HasFather(F, st, h, o, fa, n)
        BY <1>9, <2>1, <3>2 DEF IsSearch, IsPartOfTree
      <4>2. fa2[n] = fa[n]
        <5>1. n \in 0 .. C - 1
          BY <1>1, <1>2
        <5> QED
          BY <1>6, <3>2, <5>1
      <4>3. fa[n] \in 0 .. n - 1 /\ o[n + 1] \in Successors(F, o[fa[n] + 1])
        BY <4>1 DEF HasFather
      <4>4. ASSUME NEW j \in 1 .. Len(st2), h2[j] < n PROVE h2[j] <= fa[n]
        <5>0. j \in 1 .. L - 1
          BY <1>3
        <5>1. j \in 1 .. Len(st)
          BY <1>1, <1>2, <5>0
        <5>2. h2[j] = h[j]
          BY <1>3, <5>0
        <5>3. h[j] < n
          BY <4>4, <5>2
        <5>4. h[j] <= fa[n]
          BY <4>1, <5>1, <5>3 DEF HasFather
        <5> QED
          BY <5>2, <5>4
      <4> QED
        BY <4>2, <4>3, <4>4 DEF HasFather
    <3> QED
      BY <3>1, <3>2
  <2>2. ASSUME NEW p \in 0 .. Len(o) - 1, NEW n \in 0 .. Len(o) - 1, p < n, Passed(F, st2, h2, o, p, n)
        PROVE  IsAbove(st2, h2, fa2, p, n)
    <3>1. IsAbove(st, h, fa, p, n)
      BY <1>1, <1>8, <2>2 DEF IsSearch, IsPartOfTree
    <3>2. ASSUME NEW m \in p + 1 .. n, ~OnPath(st2, h2, m) PROVE fa2[m] >= p
      <4>1. m \in 0 .. C - 1
        BY <1>1, <1>2
      <4>2. CASE m = c
        <5>1. L - 1 \in 1 .. Len(st) - 1 /\ (L - 1) + 1 = L
          BY <1>1, <1>2
        <5>2. p < h[L] /\ h[L] <= n
          <6>1. p < m /\ m <= n
            OBVIOUS
          <6> QED
            BY <1>4, <4>2, <6>1
        <5>3. h[L - 1] >= p
          BY <3>1, <5>1, <5>2 DEF IsAbove
        <5> QED
          BY <1>4, <1>6, <4>2, <5>3
      <4>3. CASE m # c
        <5>1. ~OnPath(st, h, m)
          BY <1>9, <3>2, <4>3
        <5> QED
          BY <1>6, <3>1, <4>1, <4>3, <5>1 DEF IsAbove
      <4> QED
        BY <4>2, <4>3
    <3>3. ASSUME NEW j \in 1 .. Len(st2) - 1, p < h2[j + 1], h2[j + 1] <= n PROVE h2[j] >= p
      <4>1. j \in 1 .. L - 1 /\ j + 1 \in 1 .. L - 1 /\ j \in 1 .. Len(st) - 1
        BY <1>1, <1>2, <1>3
      <4>2. h2[j] = h[j] /\ h2[j + 1] = h[j + 1]
        BY <1>3, <4>1
      <4> QED
        BY <3>1, <3>3, <4>1, <4>2 DEF IsAbove
    <3> QED
      BY <3>2, <3>3 DEF IsAbove
  <2> QED
    BY <2>1, <2>2 DEF IsPartOfTree
<1>14. ArePrevious(N, F, st2, h2, o, pr)
  <2>1. ASSUME NEW n \in 0 .. N - 1, NEW p \in 0 .. N - 1
        PROVE  n < Len(o) /\ p < Len(o) /\ Passed(F, st2, h2, o, p, n) <=>
                 n < Len(o) /\ p < Len(o) /\ Passed(F, st, h, o, p, n)
    <3>1. n < C /\ p < C => n \in 0 .. C - 1 /\ p \in 0 .. C - 1
      BY <1>2
    <3> QED
      BY <1>1, <1>8, <3>1
  <2> QED
    BY <2>1 DEF ArePrevious
<1> QED
  BY <1>10, <1>11, <1>13, <1>14 DEF IsSearch

\* The last call looks at its next edge.
Advanced(st) == [st EXCEPT ![Len(st)].next = @ + 1]

\* q is entered as a predecessor of c.
Entered(pr, c, q) == [pr EXCEPT ![c] = Append(@, q)]

\* The next edge of the last call leads to number c.
Meets(F, st, o, c) ==
    /\ c \in 0 .. Len(o) - 1 /\ st[Len(st)].next <= Len(F[st[Len(st)].group])
    /\ F[st[Len(st)].group][st[Len(st)].next] = o[c + 1]

\* The walk passes an edge of the last number of the path to number c.
LEMMA SearchSees ==
    ASSUME NEW F, IsGraph(F), NEW st \in Seq(Calls), NEW o \in Seq(Groups), NEW h, NEW fa, IsSearch(F, st, h, o, fa),
           NEW c, Meets(F, st, o, c), NEW st2, st2 = Advanced(st),
           NEW N \in Nat, Len(o) <= N,
           NEW pr \in [0 .. N - 1 -> Seq(0 .. N - 1)], ArePrevious(N, F, st, h, o, pr),
           NEW u, u = h[Len(st)], NEW pr2, pr2 = Entered(pr, c, u)
    PROVE  IsSearch(F, st2, h, o, fa) /\ ArePrevious(N, F, st2, h, o, pr2)
<1>0. /\ c \in 0 .. Len(o) - 1 /\ st[Len(st)].next <= Len(F[st[Len(st)].group])
      /\ F[st[Len(st)].group][st[Len(st)].next] = o[c + 1] /\ pr2 = Entered(pr, c, h[Len(st)])
  BY DEF Meets
<1> USE <1>0
<1>1. PICK L, C : L = Len(st) /\ C = Len(o)
  OBVIOUS
<1>2. /\ L \in Nat \ {0} /\ C \in Nat \ {0}
      /\ \A j \in 1 .. L : st[j] \in Calls /\ h[j] \in 0 .. C - 1
      /\ \A n \in 0 .. C - 1 : o[n + 1] \in Groups /\ n + 1 \in 1 .. C
      /\ \A g \in Groups : Len(F[g]) \in Nat /\ F[g] \in Seq(Groups)
  BY <1>1, SearchTypes
<1>15. L \in Nat /\ L > 0 /\ C \in Nat /\ C > 0
  BY <1>2
<1>3. L \in 1 .. L
  BY <1>15
<1>16. PICK q \in 0 .. C - 1 : q = h[L]
  BY <1>2, <1>3
<1>17. PICK x : x = st[L].next
  OBVIOUS
<1>4. q = h[L] /\ x = st[L].next
  BY <1>16, <1>17
<1>5. /\ st[L].group = o[q + 1] /\ x \in 1 .. Len(F[o[q + 1]]) /\ F[o[q + 1]][x] = o[c + 1]
      /\ Len(F[o[q + 1]]) \in Nat
  <2>1. st[L].group = o[q + 1]
    BY <1>1, <1>3, <1>4 DEF IsSearch, IsPath
  <2>2. x \in Nat \ {0}
    BY <1>2, <1>3, <1>4 DEF Calls
  <2>3. PICK l \in Nat : l = Len(F[o[q + 1]])
    BY <1>2
  <2>4. x <= l /\ F[o[q + 1]][x] = o[c + 1]
    BY <1>1, <1>4, <2>1, <2>3
  <2>5. x \in 1 .. l
    BY <2>2, <2>4
  <2> QED
    BY <2>1, <2>3, <2>4, <2>5
<1>6. /\ Len(st2) = L /\ \A j \in 1 .. L : st2[j].group = st[j].group /\ (j # L => st2[j] = st[j])
      /\ st2[L].next = x + 1
  <2>1. st2 = [st EXCEPT ![L] = [st[L] EXCEPT !.next = st[L].next + 1]]
    BY <1>1 DEF Advanced
  <2>2. st[L] \in Calls
    BY <1>2, <1>3
  <2>3. PICK y : y = [st[L] EXCEPT !.next = st[L].next + 1]
    OBVIOUS
  <2>4. y.group = st[L].group /\ y.next = x + 1
    BY <1>4, <2>2, <2>3 DEF Calls
  <2>5. DOMAIN st = 1 .. L
    BY <1>1, LenProperties
  <2>7. st2 = [st EXCEPT ![L] = y]
    BY <2>1, <2>3
  <2>8. DOMAIN st2 = 1 .. L /\ st2[L] = y /\ \A j \in 1 .. L : j # L => st2[j] = st[j]
    BY <1>3, <2>5, <2>7
  <2>9. st2 \in Seq(Calls)
    <3>1. y \in Calls
      <4>1. st[L].group \in Groups /\ x \in Nat \ {0}
        BY <1>4, <2>2 DEF Calls
      <4>2. y = [group |-> st[L].group, next |-> x + 1]
        BY <1>4, <2>2, <2>3 DEF Calls
      <4>3. x + 1 \in Nat \ {0}
        BY <4>1
      <4> QED
        BY <4>1, <4>2, <4>3 DEF Calls
    <3> QED
      BY <1>1, <1>3, <2>7, <3>1, ExceptSeq
  <2>6. Len(st2) = L /\ st2[L] = y /\ \A j \in 1 .. L : j # L => st2[j] = st[j]
    <3>1. Len(st2) \in Nat /\ DOMAIN st2 = 1 .. Len(st2)
      BY <2>9, LenProperties
    <3>2. Len(st2) = L
      BY <1>15, <2>8, <3>1
    <3> QED
      BY <2>8, <3>2
  <2> QED
    BY <2>4, <2>6
<1>7. \A j \in 1 .. L : j < L => h[j] < q
  BY <1>1, <1>3, <1>4 DEF IsSearch, IsPath
<1>8. ASSUME NEW p \in 0 .. C - 1, NEW e \in Nat
      PROVE  LookedAt(st2, h, p, e) <=> LookedAt(st, h, p, e) \/ (p = q /\ e = x)
  <2>0. x \in Nat
    BY <1>5
  <2>1. CASE p # q
    <3>1. \A j \in 1 .. L : h[j] = p => j # L
      BY <1>4, <2>1
    <3>2. \A j \in 1 .. L : h[j] = p => st2[j].next = st[j].next
      BY <1>6, <3>1
    <3> QED
      BY <1>1, <1>6, <2>1, <3>2 DEF LookedAt
  <2>2. CASE p = q
    <3>1. \A j \in 1 .. L : h[j] = p <=> j = L
      <4>1. ASSUME NEW j \in 1 .. L, j # L PROVE h[j] # p
        <5>1. j < L
          BY <1>15, <4>1
        <5>2. PICK y \in 0 .. C - 1 : y = h[j]
          BY <1>2
        <5>3. y < q
          BY <1>7, <5>1, <5>2
        <5> QED
          BY <1>15, <2>2, <5>2, <5>3
      <4> QED
        BY <1>4, <2>2, <4>1
    <3>2. LookedAt(st, h, p, e) <=> e < x
      BY <1>1, <1>3, <1>4, <3>1 DEF LookedAt
    <3>3. LookedAt(st2, h, p, e) <=> e < x + 1
      BY <1>3, <1>6, <3>1 DEF LookedAt
    <3> QED
      BY <2>0, <2>2, <3>2, <3>3
  <2> QED
    BY <2>1, <2>2
<1>9. ASSUME NEW p \in 0 .. C - 1, NEW n \in 0 .. C - 1
      PROVE  Passed(F, st2, h, o, p, n) <=> Passed(F, st, h, o, p, n) \/ (p = q /\ n = c)
  <2>0. Len(F[o[p + 1]]) \in Nat
    BY <1>2
  <2>1. ASSUME Passed(F, st, h, o, p, n) PROVE Passed(F, st2, h, o, p, n)
    <3>1. PICK e \in 1 .. Len(F[o[p + 1]]) : F[o[p + 1]][e] = o[n + 1] /\ LookedAt(st, h, p, e)
      BY <2>1 DEF Passed
    <3>3. e \in Nat
      BY <2>0
    <3>2. LookedAt(st2, h, p, e)
      BY <1>8, <3>1, <3>3
    <3> QED
      BY <3>1, <3>2 DEF Passed
  <2>2. ASSUME p = q, n = c PROVE Passed(F, st2, h, o, p, n)
    <3>2. x \in Nat
      BY <1>5
    <3>1. LookedAt(st2, h, q, x)
      BY <1>8, <3>2
    <3> QED
      BY <1>5, <2>2, <3>1 DEF Passed
  <2>3. ASSUME Passed(F, st2, h, o, p, n) PROVE Passed(F, st, h, o, p, n) \/ (p = q /\ n = c)
    <3>1. PICK e \in 1 .. Len(F[o[p + 1]]) : F[o[p + 1]][e] = o[n + 1] /\ LookedAt(st2, h, p, e)
      BY <2>3 DEF Passed
    <3>4. e \in Nat
      BY <2>0
    <3>2. LookedAt(st, h, p, e) \/ (p = q /\ e = x)
      BY <1>8, <3>1, <3>4
    <3>3. CASE p = q /\ e = x
      <4>1. o[n + 1] = o[c + 1]
        BY <1>5, <3>1, <3>3
      <4>2. n + 1 \in 1 .. Len(o) /\ c + 1 \in 1 .. Len(o)
        BY <1>1, <1>2
      <4>3. n + 1 = c + 1
        BY <4>1, <4>2 DEF IsSearch, IsOrdered
      <4> QED
        BY <3>3, <4>3
    <3> QED
      BY <3>1, <3>2, <3>3 DEF Passed
  <2> QED
    BY <2>1, <2>2, <2>3
<1>10. \A n : OnPath(st2, h, n) <=> OnPath(st, h, n)
  BY <1>1, <1>6 DEF OnPath
<1>11. IsPath(F, st2, h, o)
  <2>1. Len(st2) > 0 /\ h \in [1 .. Len(st2) -> 0 .. Len(o) - 1] /\ h[1] = 0 /\ o[1] = Entry
    BY <1>1, <1>2, <1>6 DEF IsSearch, IsPath
  <2>2. ASSUME NEW j \in 1 .. Len(st2) PROVE st2[j].group = o[h[j] + 1] /\ st2[j].next <= Len(F[st2[j].group]) + 1
    <3>1. j \in 1 .. L /\ st2[j].group = st[j].group
      BY <1>6
    <3>2. st[j].group = o[h[j] + 1] /\ st[j].next <= Len(F[st[j].group]) + 1
      BY <1>1, <3>1 DEF IsSearch, IsPath
    <3>3. CASE j = L
      <4>1. st2[j].next = x + 1 /\ st2[j].group = o[q + 1]
        BY <1>5, <1>6, <3>1, <3>3
      <4>3. PICK y \in Nat : y = Len(F[o[q + 1]])
        BY <1>5
      <4>4. x \in 1 .. y
        BY <1>5, <4>3
      <4>5. x + 1 <= y + 1
        BY <4>4
      <4>2. x + 1 <= Len(F[o[q + 1]]) + 1
        BY <4>3, <4>5
      <4> QED
        BY <3>1, <3>2, <4>1, <4>2
    <3>4. CASE j # L
      <4>1. st2[j] = st[j]
        BY <1>6, <3>1, <3>4
      <4> QED
        BY <3>2, <4>1
    <3> QED
      BY <3>3, <3>4
  <2>3. \A j, m \in 1 .. Len(st2) : j < m => h[j] < h[m]
    BY <1>1, <1>6 DEF IsSearch, IsPath
  <2>4. ASSUME NEW j \in 1 .. Len(st2) - 1
        PROVE  st2[j].next <= Len(F[st2[j].group]) /\ F[st2[j].group][st2[j].next] = st2[j + 1].group
    <3>1. j \in 1 .. L /\ j # L /\ j + 1 \in 1 .. L /\ j \in 1 .. Len(st) - 1
      BY SMTT(30), <1>1, <1>2, <1>6
    <3>2. st2[j] = st[j] /\ st2[j + 1].group = st[j + 1].group
      BY <1>6, <3>1
    <3> QED
      BY <3>1, <3>2 DEF IsSearch, IsPath
  <2> QED
    BY <2>1, <2>2, <2>3, <2>4 DEF IsPath
<1>12. IsOrdered(F, st2, h, o)
  <2>1. \A a, b \in 1 .. Len(o) : o[a] = o[b] => a = b
    BY DEF IsSearch, IsOrdered
  <2>2. ASSUME NEW p \in 0 .. Len(o) - 1, NEW e \in 1 .. Len(F[o[p + 1]]), LookedAt(st2, h, p, e)
        PROVE  \E n \in 0 .. Len(o) - 1 : F[o[p + 1]][e] = o[n + 1]
    <3>1. p \in 0 .. C - 1 /\ e \in Nat
      BY <1>1, <1>2
    <3>2. LookedAt(st, h, p, e) \/ (p = q /\ e = x)
      BY <1>8, <2>2, <3>1
    <3>3. CASE p = q /\ e = x
      BY <1>5, <3>3
    <3>4. CASE LookedAt(st, h, p, e)
      BY <3>4 DEF IsSearch, IsOrdered
    <3> QED
      BY <3>2, <3>3, <3>4
  <2> QED
    BY <2>1, <2>2 DEF IsOrdered
<1>13. IsPartOfTree(F, st2, h, o, fa)
  <2>1. ASSUME NEW n \in 1 .. Len(o) - 1, ~OnPath(st2, h, n) PROVE HasFather(F, st2, h, o, fa, n)
    <3>1. HasFather(F, st, h, o, fa, n)
      BY <1>10, <2>1 DEF IsSearch, IsPartOfTree
    <3> QED
      BY <1>1, <1>6, <3>1 DEF HasFather
  <2>2. ASSUME NEW p \in 0 .. Len(o) - 1, NEW n \in 0 .. Len(o) - 1, p < n, Passed(F, st2, h, o, p, n)
        PROVE  IsAbove(st2, h, fa, p, n)
    <3>1. Passed(F, st, h, o, p, n) \/ (p = q /\ n = c)
      BY <1>1, <1>9, <2>2
    <3>2. IsAbove(st, h, fa, p, n)
      <4>1. CASE Passed(F, st, h, o, p, n)
        BY <2>2, <4>1 DEF IsSearch, IsPartOfTree
      <4>2. CASE p = q
        <5>1. \A j \in 1 .. L : h[j] <= p
          <6>1. ASSUME NEW j \in 1 .. L PROVE h[j] <= p
            <7>1. j = L \/ j < L
              BY <1>15
            <7>2. PICK y \in 0 .. C - 1 : y = h[j]
              BY <1>2
            <7>3. y = q \/ y < q
              BY <1>4, <1>7, <7>1, <7>2
            <7>4. y <= p
              BY <1>15, <4>2, <7>3
            <7> QED
              BY <7>2, <7>4
          <6> QED
            BY <6>1
        <5>2. ASSUME NEW m \in p + 1 .. n, ~OnPath(st, h, m) PROVE fa[m] >= p
          <6>1. m \in 1 .. Len(o) - 1 /\ p < m
            BY <1>1, <1>15
          <6>2. HasFather(F, st, h, o, fa, m)
            BY <5>2, <6>1 DEF IsSearch, IsPartOfTree
          <6>3. p <= fa[m]
            BY <1>1, <1>3, <1>4, <4>2, <6>1, <6>2 DEF HasFather
          <6> QED
            BY <6>3
        <5>3. ASSUME NEW j \in 1 .. Len(st) - 1, p < h[j + 1] PROVE FALSE
          <6>1. j + 1 \in 1 .. L
            BY <1>1, <1>15
          <6>2. PICK y \in 0 .. C - 1 : y = h[j + 1]
            BY <1>2, <6>1
          <6>3. y <= p
            BY <5>1, <6>1, <6>2
          <6>4. p < y
            BY <5>3, <6>2
          <6> QED
            BY <1>1, <1>15, <6>3, <6>4
        <5> QED
          BY <5>2, <5>3 DEF IsAbove
      <4> QED
        BY <3>1, <4>1, <4>2
    <3> QED
      BY <1>1, <1>6, <1>10, <3>2 DEF IsAbove
  <2> QED
    BY <2>1, <2>2 DEF IsPartOfTree
<1>14. ArePrevious(N, F, st2, h, o, pr2)
  <2>1. ASSUME NEW n \in 0 .. N - 1, NEW p \in 0 .. N - 1
        PROVE  (\E e \in 1 .. Len(pr2[n]) : pr2[n][e] = p) <=>
                 n < Len(o) /\ p < Len(o) /\ Passed(F, st2, h, o, p, n)
    <3>1. (\E e \in 1 .. Len(pr[n]) : pr[n][e] = p) <=> n < C /\ p < C /\ Passed(F, st, h, o, p, n)
      BY <1>1 DEF ArePrevious
    <3>2. (\E e \in 1 .. Len(pr2[n]) : pr2[n][e] = p) <=>
             (\E e \in 1 .. Len(pr[n]) : pr[n][e] = p) \/ (p = q /\ n = c)
      <4>1. CASE n = c
        <5>1. PICK s \in Seq(0 .. N - 1) : s = pr[c]
          BY <4>1
        <5>2. Len(s) \in Nat
          BY LenProperties
        <5>3. pr2[n] = Append(s, q)
          BY <1>1, <1>4, <4>1, <5>1 DEF Entered
        <5>4. /\ Len(pr2[n]) = Len(s) + 1 /\ pr2[n][Len(s) + 1] = q
              /\ \A e \in 1 .. Len(s) : pr2[n][e] = s[e]
          BY <5>2, <5>3
        <5>5. (\E e \in 1 .. Len(s) + 1 : pr2[n][e] = p) <=> (\E e \in 1 .. Len(s) : pr2[n][e] = p) \/ pr2[n][Len(s) + 1] = p
          <6>0. PICK l \in Nat : l = Len(s)
            BY <5>2
          <6>1. \A e \in 1 .. l + 1 : e \in 1 .. l \/ e = l + 1
            OBVIOUS
          <6>2. l + 1 \in 1 .. l + 1 /\ \A e \in 1 .. l : e \in 1 .. l + 1
            OBVIOUS
          <6> QED
            BY <6>0, <6>1, <6>2
        <5>6. (\E e \in 1 .. Len(s) : pr2[n][e] = p) <=> (\E e \in 1 .. Len(s) : s[e] = p)
          BY <5>4
        <5> QED
          BY <4>1, <5>1, <5>4, <5>5, <5>6
      <4>2. CASE n # c
        BY <4>2 DEF Entered
      <4> QED
        BY <4>1, <4>2
    <3>3. n < C /\ p < C => n \in 0 .. C - 1 /\ p \in 0 .. C - 1
      <4>1. n \in Nat /\ p \in Nat /\ C \in Nat
        BY <1>15
      <4> QED
        BY ONLY <4>1
    <3>4. p = q /\ n = c => n < C /\ p < C
      BY <1>1, <1>2
    <3> QED
      BY <1>1, <1>9, <3>1, <3>2, <3>3, <3>4
  <2> QED
    BY <2>1 DEF ArePrevious
<1> QED
  BY <1>11, <1>12, <1>13, <1>14 DEF IsSearch

\* The groups in the order of their numbers, and the edges between the numbers.
InOrder(N, o) == [n \in 0 .. N - 1 |-> o[n + 1]]
EdgesOf(N, F, o) == {e \in (0 .. N - 1) \X (0 .. N - 1) : o[e[2] + 1] \in Successors(F, o[e[1] + 1])}

\* There are no more numbers than groups.
LEMMA NumbersFit ==
    ASSUME IsFiniteSet(Groups), NEW o \in Seq(Groups), \A a, b \in 1 .. Len(o) : o[a] = o[b] => a = b
    PROVE  /\ Cardinality(Groups) \in Nat /\ Len(o) \in Nat /\ Len(o) <= Cardinality(Groups)
           /\ (\A x \in Groups : \E a \in 1 .. Len(o) : o[a] = x) => Len(o) = Cardinality(Groups)
           /\ (\E x \in Groups : \A a \in 1 .. Len(o) : o[a] # x) => Len(o) < Cardinality(Groups)
<1>1. PICK C \in Nat : C = Len(o)
  BY LenProperties
<1>2. o \in [1 .. C -> Groups]
  BY <1>1, LenProperties
<1>3. o \in Injection(1 .. C, Groups)
  BY <1>1, <1>2 DEF Injection, IsInjective
<1>4. IsFiniteSet(1 .. C) /\ Cardinality(1 .. C) = C
  <2>1. 1 \in Int /\ C \in Int
    OBVIOUS
  <2>2. Cardinality(1 .. C) = IF 1 > C THEN 0 ELSE C - 1 + 1
    BY <2>1, FS_Interval
  <2> QED
    BY <2>1, <2>2, FS_Interval
<1>5. Cardinality(Groups) \in Nat
  BY FS_CardinalityType
<1>6. C <= Cardinality(Groups) /\ (C = Cardinality(Groups) <=> o \in Surjection(1 .. C, Groups))
  BY <1>3, <1>4, FS_Injection
<1>7. (\A x \in Groups : \E a \in 1 .. C : o[a] = x) <=> o \in Surjection(1 .. C, Groups)
  BY <1>2 DEF Surjection
<1> QED
  BY <1>1, <1>5, <1>6, <1>7

\* pr holds the predecessors of every number.
ArePredecessors(N, E, pr) ==
    \A n, p \in 0 .. N - 1 : (\E e \in 1 .. Len(pr[n]) : pr[n][e] = p) <=> <<p, n>> \in E

\* The walk is over when the call for the entry is: the numbers are a numbering of
\* the groups, and the parents a depth-first tree.
LEMMA SearchEnds ==
    ASSUME IsFiniteSet(Groups), NEW N, N = Cardinality(Groups),
           NEW F, IsConnected(F), NEW st \in Seq(Calls), NEW o \in Seq(Groups), NEW h, NEW fa, IsSearch(F, st, h, o, fa),
           fa \in [0 .. N - 1 -> 0 .. N - 1],
           Len(st) = 1, st[1].next > Len(F[st[1].group]),
           NEW pr, ArePrevious(N, F, st, h, o, pr)
    PROVE  /\ Len(o) = N
           /\ IsNumbering(F, InOrder(N, o), N, EdgesOf(N, F, o))
           /\ IsDFS(N, EdgesOf(N, F, o), fa)
           /\ ArePredecessors(N, EdgesOf(N, F, o), pr)
<1>1. IsGraph(F) /\ Reachable(F) = Groups
  BY DEF IsConnected
<1>2. PICK C \in Nat : C = Len(o) /\ C > 0
  BY <1>1, SearchTypes
<1>3. /\ \A n \in 0 .. C - 1 : o[n + 1] \in Groups /\ n + 1 \in 1 .. C
      /\ \A g \in Groups : Len(F[g]) \in Nat /\ F[g] \in Seq(Groups)
      /\ st[1] \in Calls
  <2>1. 1 \in 1 .. Len(st)
    OBVIOUS
  <2> QED
    BY <1>1, <1>2, <2>1, SearchTypes
<1>4. h[1] = 0 /\ o[1] = Entry /\ st[1].group = o[1] /\ \A j \in 1 .. Len(st) : j = 1
  BY DEF IsSearch, IsPath
<1>5. ASSUME NEW p \in 0 .. C - 1, NEW e \in 1 .. Len(F[o[p + 1]]) PROVE LookedAt(st, h, p, e)
  <2>1. CASE p = 0
    <3>1. o[p + 1] = o[1] /\ o[1] \in Groups
      BY <1>3, <2>1
    <3>2. st[1].next \in Nat /\ Len(F[o[1]]) \in Nat /\ e \in 1 .. Len(F[o[1]])
      BY <1>3, <3>1 DEF Calls
    <3>3. e < st[1].next
      BY <1>4, <3>2
    <3> QED
      BY <1>4, <3>3 DEF LookedAt
  <2>2. CASE p # 0
    BY <1>4, <2>2 DEF LookedAt
  <2> QED
    BY <2>1, <2>2
<1>6. \A p \in 0 .. C - 1 : \A e \in 1 .. Len(F[o[p + 1]]) : \E n \in 0 .. C - 1 : F[o[p + 1]][e] = o[n + 1]
  BY <1>2, <1>5 DEF IsSearch, IsOrdered
<1>7. \A x \in Groups : \E n \in 0 .. C - 1 : o[n + 1] = x
  <2> DEFINE S == {o[n + 1] : n \in 0 .. C - 1}
  <2>1. S \subseteq Groups
    BY <1>3
  <2>2. Entry \in S
    <3>1. 0 \in 0 .. C - 1 /\ o[0 + 1] = Entry
      BY <1>2, <1>4
    <3> QED
      BY <3>1
  <2>3. ASSUME NEW b \in S, NEW y \in Successors(F, b) PROVE y \in S
    <3>1. PICK p \in 0 .. C - 1 : b = o[p + 1]
      OBVIOUS
    <3>2. PICK e \in DOMAIN F[b] : y = F[b][e]
      BY DEF Successors
    <3>3. e \in 1 .. Len(F[o[p + 1]])
      BY <1>3, <3>1, <3>2, LenProperties
    <3> QED
      BY <1>6, <3>1, <3>2, <3>3
  <2>4. ClosedAvoiding(F, {}, S)
    BY <2>2, <2>3 DEF ClosedAvoiding
  <2>5. Groups \subseteq S
    BY <1>1, <2>1, <2>4, AvoidLeast DEF Reachable
  <2> QED
    BY <2>5
<1>8. \A a, b \in 1 .. C : o[a] = o[b] => a = b
  BY <1>2 DEF IsSearch, IsOrdered
<1>9. N = C
  <2>1. \A x \in Groups : \E a \in 1 .. Len(o) : o[a] = x
    BY <1>2, <1>3, <1>7
  <2> QED
    BY <1>2, <1>8, <2>1, NumbersFit
<1>10. PICK E : E = EdgesOf(N, F, o)
  OBVIOUS
<1>11. /\ E \subseteq (0 .. C - 1) \X (0 .. C - 1)
       /\ \A p, n \in 0 .. C - 1 : <<p, n>> \in E <=> o[n + 1] \in Successors(F, o[p + 1])
  BY <1>9, <1>10 DEF EdgesOf
<1>12. \A p, n \in 0 .. C - 1 : <<p, n>> \in E <=> Passed(F, st, h, o, p, n)
  <2>1. ASSUME NEW p \in 0 .. C - 1, NEW n \in 0 .. C - 1
        PROVE  o[n + 1] \in Successors(F, o[p + 1]) <=> Passed(F, st, h, o, p, n)
    <3>1. DOMAIN F[o[p + 1]] = 1 .. Len(F[o[p + 1]])
      BY <1>3, LenProperties
    <3> QED
      BY <1>5, <3>1 DEF Passed, Successors
  <2> QED
    BY <1>11, <2>1
<1>13. \A n \in Nat : OnPath(st, h, n) => n = 0
  BY <1>4 DEF OnPath
<1>14. IsNumbering(F, InOrder(N, o), N, E)
  <2>1. PICK g : g = InOrder(N, o)
    OBVIOUS
  <2>2. g \in [0 .. N - 1 -> Groups] /\ \A n \in 0 .. N - 1 : g[n] = o[n + 1]
    BY <1>3, <1>9, <2>1 DEF InOrder
  <2>3. ASSUME NEW a \in 0 .. N - 1, NEW b \in 0 .. N - 1, g[a] = g[b] PROVE a = b
    <3>1. o[a + 1] = o[b + 1] /\ a + 1 \in 1 .. C /\ b + 1 \in 1 .. C
      BY <1>3, <1>9, <2>2, <2>3
    <3>2. a + 1 = b + 1
      BY <1>8, <3>1
    <3> QED
      BY <3>2
  <2>4. \A x \in Groups : \E n \in 0 .. N - 1 : g[n] = x
    BY <1>7, <1>9, <2>2
  <2>5. N > 0 /\ g[0] = Entry
    BY <1>2, <1>4, <1>9, <2>2
  <2>6. \A p, n \in 0 .. N - 1 : <<p, n>> \in E <=> g[n] \in Successors(F, g[p])
    BY <1>9, <1>11, <2>2
  <2> QED
    BY <2>1, <2>2, <2>3, <2>4, <2>5, <2>6 DEF IsNumbering
<1>15. IsDFS(N, E, fa)
  <2>1. ASSUME NEW n \in 1 .. N - 1 PROVE fa[n] < n /\ <<fa[n], n>> \in E
    <3>1. ~OnPath(st, h, n) /\ n \in 1 .. Len(o) - 1
      BY <1>2, <1>9, <1>13
    <3>2. fa[n] \in 0 .. n - 1 /\ o[n + 1] \in Successors(F, o[fa[n] + 1])
      BY <3>1 DEF IsSearch, IsPartOfTree, HasFather
    <3>3. fa[n] \in 0 .. C - 1 /\ n \in 0 .. C - 1 /\ fa[n] < n
      BY <1>2, <1>9, <3>2
    <3> QED
      BY <1>11, <3>2, <3>3
  <2>2. ASSUME NEW p \in 0 .. N - 1, NEW n \in 0 .. N - 1, <<p, n>> \in E, p < n PROVE Anc(fa, p, n)
    <3>1. Passed(F, st, h, o, p, n)
      BY <1>9, <1>12, <2>2
    <3>2. IsAbove(st, h, fa, p, n)
      BY <1>2, <1>9, <2>2, <3>1 DEF IsSearch, IsPartOfTree
    <3>3. ASSUME NEW m \in p + 1 .. n PROVE fa[m] >= p
      <4>1. m \in Nat /\ m # 0
        OBVIOUS
      <4>2. ~OnPath(st, h, m)
        BY <1>13, <4>1
      <4> QED
        BY <3>2, <4>2 DEF IsAbove
    <3> QED
      BY <2>2, <3>3 DEF Anc
  <2> QED
    BY <1>9, <1>11, <2>1, <2>2 DEF IsDFS
<1>16. \A n, p \in 0 .. N - 1 : (\E e \in 1 .. Len(pr[n]) : pr[n][e] = p) <=> <<p, n>> \in E
  <2>1. \A n \in 0 .. N - 1 : n < Len(o)
    BY <1>2, <1>9
  <2>2. \A n, p \in 0 .. N - 1 : (\E e \in 1 .. Len(pr[n]) : pr[n][e] = p) <=> Passed(F, st, h, o, p, n)
    BY <2>1 DEF ArePrevious
  <2> QED
    BY <1>9, <1>12, <2>2
<1> QED
  BY <1>2, <1>9, <1>10, <1>14, <1>15, <1>16 DEF ArePredecessors

-----------------------------------------------------------------------------
(***************************************************************************)
(* The loop over the numbers from the last to 1.                           *)
(***************************************************************************)
\* What is known of the semi-dominator of n once some predecessors are evaluated.
IsPartial(N, E, sd, n) == sd[n] = n \/ sd[n] \in Candidates(N, E, n)

\* Predecessor p of n is accounted for.
IsCounted(N, up, sd, n, p) ==
    /\ p < n => sd[n] <= p
    /\ \A u \in n + 1 .. N - 1 : Anc(up, u, p) => sd[n] <= sd[u]

\* The semi-dominator of n is lowered to v.
Lowered(sd, n, v) == [sd EXCEPT ![n] = IF v < @ THEN v ELSE @]

\* The semi-dominators above n are known; below n none has been looked for.
AreSemis(N, E, sd, n) == \A m \in n + 1 .. N - 1 : IsSemi(N, E, m, sd[m])
AreUntouched(sd, n) == \A m \in 0 .. n - 1 : sd[m] = m

\* Only the semi-dominator of n differs, and is not greater.
IsLowered(N, sd, sd2, n) ==
    /\ sd2 \in [0 .. N - 1 -> 0 .. N - 1] /\ \A m \in 0 .. N - 1 : m # n => sd2[m] = sd[m]
    /\ sd2[n] <= sd[n]

\* Evaluating a predecessor.
LEMMA PredecessorCounts ==
    ASSUME NEW N \in Nat, NEW E, NEW up, IsDFS(N, E, up), NEW sd \in [0 .. N - 1 -> 0 .. N - 1],
           NEW n \in 1 .. N - 1, AreSemis(N, E, sd, n), AreUntouched(sd, n),
           IsPartial(N, E, sd, n), NEW p \in 0 .. N - 1, <<p, n>> \in E,
           NEW lk \in Nat, lk = n + 1, NEW r, IsRoot(N, up, lk, r, p), NEW x, IsMin(N, up, sd, r, p, x),
           NEW sd2, sd2 = Lowered(sd, n, sd[x])
    PROVE  /\ IsLowered(N, sd, sd2, n)
           /\ IsPartial(N, E, sd2, n) /\ IsCounted(N, up, sd2, n, p)
<1>0. /\ \A m \in n + 1 .. N - 1 : IsSemi(N, E, m, sd[m])
      /\ \A m \in 0 .. n - 1 : sd[m] = m
  BY DEF AreSemis, AreUntouched
<1>00. IsRoot(N, up, n + 1, r, p)
  OBVIOUS
<1>1. x \in 0 .. N - 1 /\ n \in 0 .. N - 1 /\ r \in 0 .. N - 1 /\ r < n + 1 /\ Anc(up, r, p) /\ Anc(up, x, p) /\ r <= x
  BY <1>00 DEF IsMin, IsRoot
<1>2. PICK v \in 0 .. N - 1, w \in 0 .. N - 1 : v = sd[x] /\ w = sd[n]
  BY <1>1
<1>3. PICK z \in 0 .. N - 1 : z = IF v < w THEN v ELSE w
  OBVIOUS
<1>10. sd2 = [sd EXCEPT ![n] = z]
  BY <1>1, <1>2, <1>3 DEF Lowered
<1>4. z <= v /\ z <= w
  BY <1>3
<1>5. /\ sd2 \in [0 .. N - 1 -> 0 .. N - 1] /\ sd2[n] = z
      /\ \A m \in 0 .. N - 1 : m # n => sd2[m] = sd[m]
  BY <1>1, <1>10
<1>6. w = n \/ w \in Candidates(N, E, n)
  BY <1>2 DEF IsPartial
<1>7. w <= n
  BY <1>6 DEF Candidates
<1>8. CASE p <= n
  <2>1. IsRoot(N, up, n + 1, p, p)
    <3>1. p < n + 1
      BY <1>8
    <3> QED
      BY <3>1, UnlinkedIsRoot
  <2>2. r = p
    BY <1>00, <2>1, OneRoot
  <2>3. x <= p
    BY <1>1 DEF Anc
  <2>4. x = p
    BY <1>1, <2>2, <2>3
  <2>5. CASE p = n
    <3>1. v = w /\ z = w
      BY <1>2, <1>3, <2>4, <2>5
    <3>2. IsPartial(N, E, sd2, n)
      BY <1>5, <1>6, <3>1 DEF IsPartial
    <3>3. \A u \in n + 1 .. N - 1 : ~Anc(up, u, p)
      BY <2>5 DEF Anc
    <3>4. IsCounted(N, up, sd2, n, p)
      BY <2>5, <3>3 DEF IsCounted
    <3> QED
      BY <1>2, <1>4, <1>5, <3>2, <3>4 DEF IsLowered
  <2>6. CASE p < n
    <3>1. v = p
      <4>1. p \in 0 .. n - 1
        BY <2>6
      <4> QED
        BY <1>0, <1>2, <2>4, <4>1
    <3>2. p \in Candidates(N, E, n)
      <4>1. p \in 0 .. n - 1
        BY <2>6
      <4> QED
        BY <1>1, <4>1, CandidatesFromAbove
    <3>3. IsPartial(N, E, sd2, n)
      BY <1>3, <1>5, <1>6, <3>1, <3>2 DEF IsPartial
    <3>4. \A u \in n + 1 .. N - 1 : ~Anc(up, u, p)
      BY <2>6 DEF Anc
    <3>5. IsCounted(N, up, sd2, n, p)
      BY <1>4, <1>5, <3>1, <3>4 DEF IsCounted
    <3> QED
      BY <1>2, <1>4, <1>5, <3>3, <3>5 DEF IsLowered
  <2>7. p = n \/ p < n
    BY <1>8
  <2> QED
    BY <2>5, <2>6, <2>7
<1>9. CASE p > n
  <2>1. IsCounted(N, up, sd2, n, p)
    <3>1. ASSUME NEW u \in n + 1 .. N - 1, Anc(up, u, p) PROVE sd2[n] <= sd2[u]
      <4>1. u \in 0 .. N - 1 /\ r <= u /\ u # n
        <5>1. u \in 0 .. N - 1 /\ n < u
          OBVIOUS
        <5>2. r \in 0 .. N - 1 /\ r < n + 1
          BY <1>1
        <5>3. r <= u
          BY <5>1, <5>2
        <5> QED
          BY <5>1, <5>3
      <4>2. PICK y \in 0 .. N - 1 : y = sd[u]
        BY <4>1
      <4>3. v <= y
        BY <1>2, <3>1, <4>1, <4>2 DEF IsMin
      <4>4. z <= y
        BY <1>4, <4>3
      <4> QED
        BY <1>5, <4>1, <4>2, <4>4
    <3> QED
      BY <1>9, <3>1 DEF IsCounted
  <2>2. IsPartial(N, E, sd2, n)
    <3>1. CASE ~(v < w)
      BY <1>3, <1>5, <1>6, <3>1 DEF IsPartial
    <3>2. CASE v < w
      <4>1. z = v /\ v < n /\ v \in 0 .. n - 1
        <5>1. z = v
          BY <1>3, <3>2
        <5>2. v < n
          BY <1>7, <3>2
        <5> QED
          BY <5>1, <5>2
      <4>2. CASE x > n
        <5>1. x \in n + 1 .. N - 1 /\ p \in n + 1 .. N - 1
          BY <1>1, <1>9, <4>2
        <5>2. v \in Candidates(N, E, x)
          BY <1>0, <1>2, <5>1 DEF IsSemi
        <5>3. v \in Candidates(N, E, n)
          BY <1>1, <4>1, <5>1, <5>2, CandidatesFromAbove
        <5> QED
          BY <1>5, <4>1, <5>3 DEF IsPartial
      <4>3. CASE x <= n
        <5>1. x <= r /\ x = r
          <6>1. x < n + 1
            BY <1>1, <4>3
          <6>2. x <= r
            BY <1>1, <6>1 DEF IsRoot
          <6> QED
            BY <1>1, <6>2
        <5>2. x # n
          <6>1. x = n => v = w
            BY <1>2
          <6> QED
            BY <3>2, <6>1
        <5>3. x < n /\ x \in 0 .. n - 1 /\ v = x
          <6>1. x < n /\ x \in 0 .. n - 1
            BY <1>1, <4>3, <5>2
          <6> QED
            BY <1>0, <1>2, <6>1
        <5>4. x < p
          BY <1>1, <1>9, <5>3
        <5>5. PICK c \in x + 1 .. p : up[c] = x /\ Anc(up, c, p)
          BY <1>1, <5>4, ChildToward
        <5>6. c \in 0 .. N - 1 /\ c > 0 /\ c > x
          BY <1>1
        <5>7. c > n
          <6>1. ~(c < n + 1)
            <7>1. c < n + 1 => c <= r
              BY <5>5, <5>6 DEF IsRoot
            <7> QED
              BY <1>1, <5>1, <5>6, <7>1
          <6> QED
            BY <5>6, <6>1
        <5>8. <<x, c>> \in E
          BY <5>5, <5>6, AncSelf
        <5>9. p \in Above(N, E, n)
          BY <1>1, <1>9, AboveIsLeast DEF ClosedAbove
        <5>10. c \in Above(N, E, n)
          BY <1>1, <5>5, <5>6, <5>7, <5>9, AboveClimbs
        <5>11. x \in Candidates(N, E, n)
          BY <5>3, <5>8, <5>10 DEF Candidates
        <5> QED
          BY <1>5, <4>1, <5>3, <5>11 DEF IsPartial
      <4> QED
        BY <1>1, <4>2, <4>3
    <3> QED
      BY <3>1, <3>2
  <2> QED
    BY <1>2, <1>4, <1>5, <2>1, <2>2 DEF IsLowered
<1>11. p <= n \/ p > n
  OBVIOUS
<1> QED
  BY <1>8, <1>9, <1>11

\* What is counted stays so when the semi-dominator is lowered further.
LEMMA StaysCounted ==
    ASSUME NEW N \in Nat, NEW up, NEW sd \in [0 .. N - 1 -> 0 .. N - 1], NEW sd2 \in [0 .. N - 1 -> 0 .. N - 1],
           NEW n \in 1 .. N - 1, \A m \in 0 .. N - 1 : m # n => sd2[m] = sd[m], sd2[n] <= sd[n],
           NEW p \in 0 .. N - 1, IsCounted(N, up, sd, n, p)
    PROVE  IsCounted(N, up, sd2, n, p)
<1>1. PICK v \in 0 .. N - 1, w \in 0 .. N - 1 : v = sd2[n] /\ w = sd[n] /\ v <= w
  OBVIOUS
<1>2. p < n => v <= p
  BY <1>1 DEF IsCounted
<1>3. ASSUME NEW u \in n + 1 .. N - 1, Anc(up, u, p) PROVE sd2[n] <= sd2[u]
  <2>1. u \in 0 .. N - 1 /\ u # n
    OBVIOUS
  <2>2. PICK y \in 0 .. N - 1 : y = sd[u]
    BY <2>1
  <2>3. w <= y
    BY <1>1, <1>3, <2>2 DEF IsCounted
  <2>4. sd2[u] = y
    BY <2>1, <2>2
  <2> QED
    BY <1>1, <2>3, <2>4
<1> QED
  BY <1>1, <1>2, <1>3 DEF IsCounted

\* When all predecessors are counted the semi-dominator is known.
LEMMA SemiIsKnown ==
    ASSUME NEW N \in Nat, NEW E, NEW up, IsDFS(N, E, up), NEW sd \in [0 .. N - 1 -> 0 .. N - 1],
           NEW n \in 1 .. N - 1, \A m \in n + 1 .. N - 1 : IsSemi(N, E, m, sd[m]),
           IsPartial(N, E, sd, n), \A p \in 0 .. N - 1 : <<p, n>> \in E => IsCounted(N, up, sd, n, p)
    PROVE  IsSemi(N, E, n, sd[n])
<1>1. n \in 0 .. N - 1
  OBVIOUS
<1>2. PICK w \in 0 .. N - 1 : w = sd[n]
  BY <1>1
<1>3. ASSUME NEW c \in Candidates(N, E, n) PROVE w <= c
  <2>1. c \in 0 .. n - 1 /\ c \in 0 .. N - 1 /\ c < n
    BY DEF Candidates
  <2>2. CASE <<c, n>> \in E
    BY <1>2, <2>1, <2>2 DEF IsCounted
  <2>3. CASE <<c, n>> \notin E
    <3>1. PICK u \in n + 1 .. N - 1, v \in n + 1 .. N - 1 :
            <<v, n>> \in E /\ Anc(up, u, v) /\ c \in Candidates(N, E, u)
      BY <1>1, <2>1, <2>3, CandidatesFromAbove
    <3>2. v \in 0 .. N - 1 /\ u \in 0 .. N - 1
      BY <1>1
    <3>3. PICK y \in 0 .. N - 1 : y = sd[u]
      BY <3>2
    <3>4. w <= y
      BY <1>2, <3>1, <3>2, <3>3 DEF IsCounted
    <3>5. y <= c
      BY <3>1, <3>3 DEF IsSemi
    <3> QED
      BY <2>1, <3>4, <3>5
  <2> QED
    BY <2>2, <2>3
<1>4. up[n] \in Candidates(N, E, n)
  BY CandidatesAreAncestors
<1>5. w # n
  <2>1. w <= up[n]
    BY <1>3, <1>4
  <2>2. up[n] \in 0 .. n - 1
    BY <1>4 DEF Candidates
  <2> QED
    BY <2>1, <2>2
<1> QED
  BY <1>2, <1>3, <1>5 DEF IsSemi, IsPartial

\* On the way from above w to its semi-dominator no semi-dominator is less than that of u.
IsLeastOnWay(N, up, sd, u, w) == \A v \in 0 .. N - 1 : Anc(up, v, w) /\ sd[w] < v => sd[u] <= sd[v]

\* d is what build_immediate_dominators takes for w at first: the semi-dominator if
\* that is the immediate dominator, else a number on the way with the same one.
IsProvisional(N, up, sd, lk, d, w) ==
    /\ \A v \in 0 .. N - 1 : Anc(up, v, w) /\ sd[w] < v => v >= lk
    /\ \/ d = sd[w] /\ IsLeastOnWay(N, up, sd, w, w)
       \/ /\ d \in sd[w] + 1 .. w - 1 /\ Anc(up, d, w) /\ sd[d] < sd[w]
          /\ IsLeastOnWay(N, up, sd, d, w)

\* w waits in the bucket of s for the child of s on the way to it.
IsWaiting(N, up, sd, lk, top, s, w) ==
    /\ w \in 0 .. N - 1 /\ w >= lk /\ sd[w] = s
    /\ \E c \in 1 .. top : Anc(up, c, w) /\ up[c] = s

\* Evaluating a number of the bucket of n's parent.
LEMMA BucketIsProvisional ==
    ASSUME NEW N \in Nat, NEW E, NEW up, IsDFS(N, E, up), NEW sd \in [0 .. N - 1 -> 0 .. N - 1],
           NEW n \in 1 .. N - 1, \A m \in 0 .. n - 1 : sd[m] = m,
           NEW w, IsWaiting(N, up, sd, n, n, up[n], w),
           NEW r, IsRoot(N, up, n, r, w), NEW x, IsMin(N, up, sd, r, w, x)
    PROVE  IsProvisional(N, up, sd, n, IF sd[x] = sd[w] THEN up[n] ELSE x, w)
<1>1. n \in 0 .. N - 1 /\ n > 0
  OBVIOUS
<1>2. PICK s \in 0 .. N - 1 : s = up[n] /\ s < n /\ Anc(up, s, n)
  BY <1>1, AncSelf
<1>3. w \in 0 .. N - 1 /\ w >= n /\ sd[w] = s
  BY <1>2 DEF IsWaiting
<1>4. Anc(up, n, w)
  <2>1. PICK c \in 1 .. n : Anc(up, c, w) /\ up[c] = s
    BY <1>2 DEF IsWaiting
  <2>2. c \in 0 .. N - 1 /\ c > 0
    OBVIOUS
  <2>3. up[c] < c
    BY <2>2, AncSelf
  <2>4. CASE c = n
    BY <2>1, <2>4
  <2>5. CASE c < n
    <3>1. n \in c + 1 .. w
      BY <1>3, <2>2, <2>5
    <3>2. up[n] >= c
      BY <2>1, <3>1 DEF Anc
    <3> QED
      BY <1>2, <2>1, <2>2, <2>3, <3>2
  <2>6. c = n \/ c < n
    OBVIOUS
  <2> QED
    BY <2>4, <2>5, <2>6
<1>5. Anc(up, s, w)
  BY <1>1, <1>2, <1>3, <1>4, AncBetween
<1>6. r \in 0 .. N - 1 /\ Anc(up, r, w) /\ r < n
  BY DEF IsRoot
<1>7. r = s
  <2>1. s <= r
    BY <1>2, <1>5 DEF IsRoot
  <2>2. Anc(up, r, n)
    BY <1>1, <1>3, <1>6, AncBetween
  <2>3. r <= s
    BY <1>1, <1>2, <1>6, <2>2, AncUp
  <2> QED
    BY <1>2, <1>6, <2>1, <2>3
<1>8. ASSUME NEW v \in 0 .. N - 1, Anc(up, v, w), s < v PROVE v >= n
  <2>1. v < n => v <= r
    BY <1>8 DEF IsRoot
  <2> QED
    BY <1>1, <1>2, <1>7, <1>8, <2>1
<1>9. sd[s] = s
  <2>1. s \in 0 .. n - 1
    BY <1>2
  <2> QED
    BY <2>1
<1>10. x \in 0 .. N - 1 /\ Anc(up, x, w) /\ s <= x
  BY <1>7 DEF IsMin
<1>11. PICK t \in 0 .. N - 1 : t = sd[x]
  BY <1>10
<1>12. \A v \in 0 .. N - 1 : Anc(up, v, w) /\ s <= v => t <= sd[v]
  BY <1>7, <1>11 DEF IsMin
<1>13. t <= s
  <2>1. s <= s
    BY <1>2
  <2> QED
    BY <1>5, <1>9, <1>12, <2>1
<1>14. \A v \in 0 .. N - 1 : Anc(up, v, w) /\ s < v => t <= sd[v]
  <2>1. \A v \in 0 .. N - 1 : s < v => s <= v
    BY <1>2
  <2> QED
    BY <1>12, <2>1
<1>15. CASE t = s
  <2>1. IsLeastOnWay(N, up, sd, w, w)
    BY <1>3, <1>14, <1>15 DEF IsLeastOnWay
  <2> QED
    BY <1>2, <1>3, <1>8, <1>11, <1>15, <2>1 DEF IsProvisional
<1>16. CASE t # s
  <2>1. t < s
    BY <1>2, <1>13, <1>16
  <2>2. x # s
    BY <1>9, <1>11, <1>16
  <2>3. x # w
    BY <1>3, <1>11, <1>16
  <2>4. x <= w
    BY <1>10 DEF Anc
  <2>8. x \in Int /\ s \in Int /\ w \in Int /\ s <= x
    BY <1>2, <1>3, <1>10
  <2>5. x \in s + 1 .. w - 1
    BY <2>2, <2>3, <2>4, <2>8
  <2>6. IsLeastOnWay(N, up, sd, x, w)
    BY <1>3, <1>11, <1>14 DEF IsLeastOnWay
  <2>7. sd[x] < sd[w] /\ sd[x] # sd[w]
    BY <1>3, <1>11, <1>16, <2>1
  <2> QED
    BY <1>3, <1>8, <1>10, <2>5, <2>6, <2>7 DEF IsProvisional
<1> QED
  BY <1>15, <1>16

\* What is provisional or waits stays so when the values of smaller numbers change.
LEMMA StaysProvisional ==
    ASSUME NEW N \in Nat, NEW E, NEW up, IsDFS(N, E, up), NEW sd \in [0 .. N - 1 -> 0 .. N - 1],
           NEW sd2 \in [0 .. N - 1 -> 0 .. N - 1], NEW lk \in Nat, NEW lk2 \in Nat, lk2 <= lk,
           \A n \in 0 .. N - 1 : n >= lk => sd2[n] = sd[n],
           NEW w \in 0 .. N - 1, w >= lk, NEW d, IsProvisional(N, up, sd, lk, d, w)
    PROVE  IsProvisional(N, up, sd2, lk2, d, w)
<1>1. PICK t \in 0 .. N - 1 : t = sd[w] /\ t = sd2[w]
  OBVIOUS
<1>2. \A v \in 0 .. N - 1 : Anc(up, v, w) /\ t < v => v >= lk /\ v >= lk2 /\ sd2[v] = sd[v]
  <2>1. \A v \in 0 .. N - 1 : Anc(up, v, w) /\ t < v => v >= lk
    BY <1>1 DEF IsProvisional
  <2>2. \A v \in 0 .. N - 1 : v >= lk => v >= lk2
    OBVIOUS
  <2> QED
    BY <2>1, <2>2
<1>3. CASE d = t /\ IsLeastOnWay(N, up, sd, w, w)
  <2>1. IsLeastOnWay(N, up, sd2, w, w)
    BY <1>1, <1>2, <1>3 DEF IsLeastOnWay
  <2> QED
    BY <1>1, <1>2, <1>3, <2>1 DEF IsProvisional
<1>4. CASE d \in t + 1 .. w - 1 /\ Anc(up, d, w) /\ sd[d] < t /\ IsLeastOnWay(N, up, sd, d, w)
  <2>1. d \in 0 .. N - 1 /\ t < d
    BY <1>4
  <2>2. sd2[d] = sd[d]
    BY <1>2, <1>4, <2>1
  <2>3. IsLeastOnWay(N, up, sd2, d, w)
    BY <1>1, <1>2, <1>4, <2>2 DEF IsLeastOnWay
  <2> QED
    BY <1>1, <1>2, <1>4, <2>2, <2>3 DEF IsProvisional
<1> QED
  BY <1>1, <1>3, <1>4 DEF IsProvisional

\* The numbers below n have their immediate dominators.
AreSettled(f, g, id, n) == \A v \in Nat : 0 < v /\ v < n => IsIdom(f, g[id[v]], g[v]) /\ id[v] \in 0 .. v - 1

\* What replaces the provisional immediate dominator of n.
Followed(id, sd, n) == IF id[n] # sd[n] THEN id[id[n]] ELSE id[n]

\* From the provisional immediate dominator to the immediate dominator.
LEMMA ProvisionalIsFixed ==
    ASSUME NEW N \in Nat, NEW E, NEW up, IsDFS(N, E, up), NEW f, NEW g, IsNumbering(f, g, N, E),
           NEW sd \in [0 .. N - 1 -> 0 .. N - 1], AreSemis(N, E, sd, 0),
           NEW idom \in [0 .. N - 1 -> 0 .. N - 1],
           NEW n \in 1 .. N - 1, IsProvisional(N, up, sd, 1, idom[n], n),
           AreSettled(f, g, idom, n),
           NEW z, z = Followed(idom, sd, n)
    PROVE  z \in 0 .. n - 1 /\ IsIdom(f, g[z], g[n])
<1>0. \A v \in 1 .. N - 1 : IsSemi(N, E, v, sd[v])
  <2>1. 0 + 1 = 1
    OBVIOUS
  <2> QED
    BY <2>1 DEF AreSemis
<1>1. n \in 0 .. N - 1
  OBVIOUS
<1>2. PICK t \in 0 .. N - 1 : t = sd[n] /\ t < n
  <2>1. sd[n] \in 0 .. n - 1
    BY <1>0 DEF IsSemi, Candidates
  <2> QED
    BY <2>1
<1>3. PICK d \in 0 .. N - 1 : d = idom[n]
  BY <1>1
<1>4. CASE d = t
  <2>1. IsLeastOnWay(N, up, sd, n, n)
    BY <1>2, <1>3, <1>4 DEF IsProvisional
  <2>2. \A v \in sd[n] + 1 .. n : Anc(up, v, n) => sd[n] <= sd[v]
    <3>1. ASSUME NEW v \in t + 1 .. n PROVE v \in 0 .. N - 1 /\ t < v
      <4>1. t \in Int /\ n \in Int /\ v \in Int /\ 0 <= t /\ t + 1 <= v /\ v <= n /\ n <= N - 1
        BY <1>1, <1>2
      <4> QED
        BY <4>1
    <3> QED
      BY <1>2, <2>1, <3>1 DEF IsLeastOnWay
  <2>3. IsIdom(f, g[sd[n]], g[n])
    BY <1>0, <2>2, SemiIsIdom
  <2> QED
    BY <1>2, <1>3, <1>4, <2>3 DEF Followed
<1>5. CASE d # t
  <2>1. d \in t + 1 .. n - 1 /\ Anc(up, d, n) /\ IsLeastOnWay(N, up, sd, d, n)
    BY <1>2, <1>3, <1>5 DEF IsProvisional
  <2>2. d \in 1 .. n - 1 /\ d < n
    BY <1>2, <2>1
  <2>3. PICK e \in 0 .. N - 1 : e = idom[d] /\ e < d /\ IsIdom(f, g[e], g[d])
    <3>1. d \in Nat /\ 0 < d
      BY <2>2
    <3>2. IsIdom(f, g[idom[d]], g[d]) /\ idom[d] \in 0 .. d - 1
      BY <2>2, <3>1 DEF AreSettled
    <3>3. idom[d] \in 0 .. N - 1 /\ idom[d] < d
      BY <3>2
    <3> QED
      BY <3>2, <3>3
  <2>4. \A v \in sd[n] + 1 .. n : Anc(up, v, n) => sd[d] <= sd[v]
    <3>1. ASSUME NEW v \in t + 1 .. n PROVE v \in 0 .. N - 1 /\ t < v
      <4>1. t \in Int /\ n \in Int /\ v \in Int /\ 0 <= t /\ t + 1 <= v /\ v <= n /\ n <= N - 1
        BY <1>1, <1>2
      <4> QED
        BY <4>1
    <3> QED
      BY <1>2, <2>1, <3>1 DEF IsLeastOnWay
  <2>5. d \in sd[n] + 1 .. n - 1
    BY <1>2, <2>1
  <2>6. PICK x : x = g[e]
    OBVIOUS
  <2>9. IsIdom(f, x, g[d])
    BY <2>3, <2>6
  <2>10. Anc(up, d, n)
    BY <2>1
  <2>7. IsIdom(f, x, g[n])
    <3>1. IsVia(N, up, sd, sd[n], d, n)
      BY <2>4, <2>5, <2>10 DEF IsVia
    <3> QED
      BY <1>0, <2>9, <3>1, IdomOfLeast
  <2>8. e < n
    BY <2>2, <2>3
  <2> QED
    BY <1>2, <1>3, <1>5, <2>3, <2>6, <2>7, <2>8 DEF Followed
<1> QED
  BY <1>4, <1>5 DEF Followed

-----------------------------------------------------------------------------
(***************************************************************************)
(* The levels of the tree.                                                 *)
(***************************************************************************)
\* The recursion that lists the children of n.
IsListing(par, n, h) ==
    h = [c \in 0 .. Len(par) |->
           IF c = 0 THEN <<>> ELSE IF par[c] = n THEN Append(h[c - 1], c) ELSE h[c - 1]]

Has(q, n) == \E e \in 1 .. Len(q) : q[e] = n

\* An element is added.
LEMMA AppendHas ==
    ASSUME NEW S, NEW q \in Seq(S), NEW x \in S
    PROVE  Append(q, x) \in Seq(S) /\ \A n : Has(Append(q, x), n) <=> Has(q, n) \/ n = x
<1>1. PICK l \in Nat : l = Len(q)
  BY LenProperties
<1>2. PICK r : r = Append(q, x)
  OBVIOUS
<1>3. /\ r \in Seq(S) /\ Len(r) = l + 1 /\ r[l + 1] = x
      /\ \A e \in 1 .. l : r[e] = q[e]
  BY <1>1, <1>2, AppendProperties
<1>4. ASSUME NEW n PROVE Has(r, n) <=> Has(q, n) \/ n = x
  <2>1. ASSUME NEW e \in 1 .. l + 1, r[e] = n PROVE Has(q, n) \/ n = x
    <3>1. e \in 1 .. l \/ e = l + 1
      OBVIOUS
    <3> QED
      BY <1>1, <1>3, <2>1, <3>1 DEF Has
  <2>2. l + 1 \in 1 .. l + 1 /\ \A e \in 1 .. l : e \in 1 .. l + 1
    OBVIOUS
  <2>3. Has(q, n) => Has(r, n)
    BY <1>1, <1>3, <2>2 DEF Has
  <2>4. n = x => Has(r, n)
    BY <1>3, <2>2 DEF Has
  <2> QED
    BY <1>3, <2>1, <2>3, <2>4 DEF Has
<1> QED
  BY <1>2, <1>3, <1>4

\* The recursion is defined.
LEMMA ListingExists ==
    ASSUME NEW par, Len(par) \in Nat, NEW n
    PROVE  \E h : IsListing(par, n, h)
<1>1. PICK L \in Nat : L = Len(par)
  OBVIOUS
<1>2. PICK N \in Nat : N = L + 1
  OBVIOUS
<1>3. PICK V : V = Seq(1 .. L)
  OBVIOUS
<1>4. PICK fo : fo = [c \in 0 .. N - 1 |-> IF c = 0 THEN 0 ELSE c - 1]
  OBVIOUS
<1>5. PICK base : base = [c \in 0 .. N - 1 |-> <<>>]
  OBVIOUS
<1>6. PICK step : step = [c \in 0 .. N - 1 |-> [v \in V |-> IF c # 0 /\ par[c] = n THEN Append(v, c) ELSE v]]
  OBVIOUS
<1>7. \A c \in 0 .. N - 1 : fo[c] \in 0 .. N - 1 /\ fo[c] <= c /\ (fo[c] = c <=> c = 0) /\ (c # 0 => fo[c] = c - 1)
  BY <1>4
<1>8. fo \in [0 .. N - 1 -> 0 .. N - 1]
  BY <1>4, <1>7
<1>9. base \in [0 .. N - 1 -> V]
  <2>1. <<>> \in V
    BY <1>3, EmptySeq
  <2> QED
    BY <1>5, <2>1
<1>10. \A c \in 0 .. N - 1 : \A v \in V : (IF c # 0 /\ par[c] = n THEN Append(v, c) ELSE v) \in V
  <2>1. ASSUME NEW c \in 0 .. N - 1, NEW v \in V, c # 0 PROVE Append(v, c) \in V
    <3>1. c \in 1 .. L
      BY <1>2, <2>1
    <3> QED
      BY <1>3, <3>1, AppendProperties
  <2> QED
    BY <2>1
<1>11. step \in [0 .. N - 1 -> [V -> V]]
  BY <1>6, <1>10
<1>12. IsDefined(N, fo, V, base, step)
  BY <1>7, <1>8, <1>9, <1>11, DownwardRecursion
<1>13. PICK h \in [0 .. N - 1 -> V] :
         \A c \in 0 .. N - 1 : h[c] = IF fo[c] = c THEN base[c] ELSE step[c][h[fo[c]]]
  BY <1>12 DEF IsDefined
<1>14. ASSUME NEW c \in 0 .. N - 1
       PROVE  h[c] = IF c = 0 THEN <<>> ELSE IF par[c] = n THEN Append(h[c - 1], c) ELSE h[c - 1]
  <2>1. CASE c = 0
    BY <1>5, <1>7, <1>13, <2>1
  <2>2. CASE c # 0
    <3>1. fo[c] = c - 1 /\ fo[c] # c /\ c - 1 \in 0 .. N - 1
      BY <1>7, <2>2
    <3>2. PICK v \in V : v = h[c - 1]
      BY <3>1
    <3>3. h[c] = step[c][v]
      BY <1>13, <3>1, <3>2
    <3>4. step[c][v] = IF par[c] = n THEN Append(v, c) ELSE v
      BY <1>6, <2>2
    <3> QED
      BY <2>2, <3>2, <3>3, <3>4
  <2> QED
    BY <2>1, <2>2
<1>15. 0 .. N - 1 = 0 .. Len(par)
  BY <1>1, <1>2
<1>16. h = [c \in 0 .. N - 1 |-> IF c = 0 THEN <<>> ELSE IF par[c] = n THEN Append(h[c - 1], c) ELSE h[c - 1]]
  BY <1>14
<1> QED
  BY <1>15, <1>16 DEF IsListing

\* The list has the children.
LEMMA ListingIs ==
    ASSUME NEW par, NEW L \in Nat, L = Len(par), NEW n, NEW h, IsListing(par, n, h)
    PROVE  h[L] \in Seq(1 .. L) /\ \A x \in 1 .. L : Has(h[L], x) <=> par[x] = n
<1> DEFINE Good(c) == h[c] \in Seq(1 .. L) /\ \A x \in 1 .. L : Has(h[c], x) <=> x <= c /\ par[x] = n
           Bad == {c \in 0 .. L : ~Good(c)}
<1>1. \A c \in 0 .. L : h[c] = IF c = 0 THEN <<>> ELSE IF par[c] = n THEN Append(h[c - 1], c) ELSE h[c - 1]
  BY DEF IsListing
<1>2. Bad = {}
  <2> SUFFICES ASSUME Bad # {} PROVE FALSE
    OBVIOUS
  <2>1. Bad \subseteq Nat
    OBVIOUS
  <2>2. PICK c \in Bad : \A d \in Bad : c <= d
    <3> HIDE DEF Bad
    <3> QED
      BY <2>1, LeastNumber
  <2>3. c \in 0 .. L /\ ~Good(c)
    OBVIOUS
  <2>4. CASE c = 0
    <3>1. h[c] = <<>>
      BY <1>1, <2>3, <2>4
    <3>2. h[c] \in Seq(1 .. L) /\ Len(h[c]) = 0
      BY <3>1, EmptySeq
    <3>3. \A x \in 1 .. L : ~Has(h[c], x)
      BY <3>2 DEF Has
    <3>4. \A x \in 1 .. L : ~(x <= c)
      BY <2>4
    <3> QED
      BY <2>3, <3>2, <3>3, <3>4
  <2>5. CASE c # 0
    <3>1. c - 1 \in 0 .. L /\ ~(c <= c - 1) /\ c \in 1 .. L
      BY <2>3, <2>5
    <3>2. Good(c - 1)
      <4>1. c - 1 \notin Bad
        BY <2>2, <3>1
      <4> QED
        BY <3>1, <4>1
    <3>3. PICK q \in Seq(1 .. L) : q = h[c - 1]
      BY <3>2
    <3>4. \A x \in 1 .. L : Has(q, x) <=> x <= c - 1 /\ par[x] = n
      BY <3>2, <3>3
    <3>5. h[c] = IF par[c] = n THEN Append(q, c) ELSE q
      BY <1>1, <2>3, <2>5, <3>3
    <3>6. \A x \in 1 .. L : x <= c <=> x <= c - 1 \/ x = c
      BY <3>1
    <3>7. CASE par[c] = n
      <4>1. h[c] \in Seq(1 .. L) /\ \A x : Has(h[c], x) <=> Has(q, x) \/ x = c
        BY <3>1, <3>5, <3>7, AppendHas
      <4>2. \A x \in 1 .. L : Has(h[c], x) <=> x <= c /\ par[x] = n
        BY <3>4, <3>6, <3>7, <4>1
      <4> QED
        BY <2>3, <4>1, <4>2
    <3>8. CASE par[c] # n
      <4>1. h[c] = q
        BY <3>5, <3>8
      <4>2. \A x \in 1 .. L : Has(h[c], x) <=> x <= c /\ par[x] = n
        BY <3>4, <3>6, <3>8, <4>1
      <4> QED
        BY <2>3, <4>1, <4>2
    <3> QED
      BY <3>7, <3>8
  <2> QED
    BY <2>4, <2>5
<1>3. Good(L)
  <2>1. L \in 0 .. L
    OBVIOUS
  <2> QED
    BY <1>2, <2>1
<1>4. \A x \in 1 .. L : x <= L
  OBVIOUS
<1> QED
  BY <1>3, <1>4

\* The numbers of P have been taken from the queue q.
IsLevelled(N, par, dp, q, lv, P) ==
    /\ 0 \in P \/ Has(q, 0)
    /\ \A n \in 1 .. N - 1 : par[n] \in P => n \in P \/ Has(q, n)
    /\ \A n \in 0 .. N - 1 : n \in P \/ Has(q, n) => lv[n] = dp[n]

\* dp is the depth in the tree par.
AreDepths(N, par, dp) ==
    dp[0] = 0 /\ \A n \in 1 .. N - 1 : par[n] \in 0 .. n - 1 /\ dp[n] = dp[par[n]] + 1

\* What is in the queue after its first element is replaced by others at the end.
LEMMA QueueMoves ==
    ASSUME NEW S, NEW q \in Seq(S), q # <<>>, NEW r \in Seq(S)
    PROVE  /\ Head(q) \in S /\ Tail(q) \o r \in Seq(S) /\ Has(q, Head(q))
           /\ \A n : Has(q, n) => n = Head(q) \/ Has(Tail(q) \o r, n)
           /\ \A n : Has(r, n) => Has(Tail(q) \o r, n)
           /\ \A n : Has(Tail(q) \o r, n) => Has(q, n) \/ Has(r, n)
<1>1. PICK l \in Nat, m \in Nat : l = Len(q) /\ m = Len(r)
  BY LenProperties
<1>2. l > 0
  BY <1>1, EmptySeq
<1>3. PICK t : t = Tail(q)
  OBVIOUS
<1>4. /\ Head(q) = q[1] /\ t \in Seq(S) /\ Len(t) = l - 1
      /\ \A e \in 1 .. l - 1 : t[e] = q[e + 1]
  BY <1>1, <1>3, HeadTailProperties
<1>5. q[1] \in S
  BY <1>1, <1>2, ElementOfSeq
<1>6. PICK z : z = t \o r
  OBVIOUS
<1>7. /\ z \in Seq(S) /\ Len(z) = l - 1 + m
      /\ \A e \in 1 .. l - 1 + m : z[e] = IF e <= l - 1 THEN t[e] ELSE r[e - (l - 1)]
  <2>1. /\ z \in Seq(S) /\ Len(z) = Len(t) + Len(r)
        /\ \A e \in 1 .. Len(t) + Len(r) : z[e] = IF e <= Len(t) THEN t[e] ELSE r[e - Len(t)]
    BY <1>4, <1>6, ConcatProperties
  <2>2. Len(t) = l - 1 /\ Len(r) = m
    BY <1>1, <1>4
  <2> QED
    BY <2>1, <2>2
<1>8. ASSUME NEW n, Has(q, n) PROVE n = q[1] \/ Has(z, n)
  <2>1. PICK e \in 1 .. l : q[e] = n
    BY <1>1, <1>8 DEF Has
  <2>2. CASE e = 1
    BY <2>1, <2>2
  <2>3. CASE e # 1
    <3>1. e - 1 \in 1 .. l - 1 /\ e - 1 + 1 = e /\ e - 1 \in 1 .. l - 1 + m /\ e - 1 <= l - 1
      BY <2>3
    <3>2. z[e - 1] = n
      BY <1>4, <1>7, <2>1, <3>1
    <3> QED
      BY <1>7, <3>1, <3>2 DEF Has
  <2> QED
    BY <2>2, <2>3
<1>9. ASSUME NEW n, Has(r, n) PROVE Has(z, n)
  <2>1. PICK e \in 1 .. m : r[e] = n
    BY <1>1, <1>9 DEF Has
  <2>2. l - 1 + e \in 1 .. l - 1 + m /\ ~(l - 1 + e <= l - 1) /\ l - 1 + e - (l - 1) = e
    BY <1>2
  <2>3. z[l - 1 + e] = n
    BY <1>7, <2>1, <2>2
  <2> QED
    BY <1>7, <2>2, <2>3 DEF Has
<1>10. ASSUME NEW n, Has(z, n) PROVE Has(q, n) \/ Has(r, n)
  <2>1. PICK e \in 1 .. l - 1 + m : z[e] = n
    BY <1>7, <1>10 DEF Has
  <2>2. CASE e <= l - 1
    <3>1. e \in 1 .. l - 1 /\ e + 1 \in 1 .. l
      BY <2>2
    <3>2. q[e + 1] = n
      BY <1>4, <1>7, <2>1, <2>2, <3>1
    <3> QED
      BY <1>1, <3>1, <3>2 DEF Has
  <2>3. CASE ~(e <= l - 1)
    <3>1. e - (l - 1) \in 1 .. m
      BY <2>3
    <3>2. r[e - (l - 1)] = n
      BY <1>7, <2>1, <2>3
    <3> QED
      BY <1>1, <3>1, <3>2 DEF Has
  <2> QED
    BY <2>2, <2>3
<1>11. Has(q, q[1])
  BY <1>1, <1>2 DEF Has
<1> QED
  BY <1>3, <1>4, <1>5, <1>6, <1>7, <1>8, <1>9, <1>10, <1>11

\* The children of the first number of the queue get their level and are queued.
LEMMA LevelStep ==
    ASSUME NEW N \in Nat, NEW par, NEW dp, AreDepths(N, par, dp), NEW P,
           NEW q \in Seq(0 .. N - 1), q # <<>>, NEW lv, IsLevelled(N, par, dp, q, lv, P),
           NEW c \in Seq(0 .. N - 1), ~Has(c, 0), \A n \in 1 .. N - 1 : Has(c, n) <=> par[n] = Head(q),
           NEW lv2, \A n \in 0 .. N - 1 : lv2[n] = IF Has(c, n) THEN lv[Head(q)] + 1 ELSE lv[n],
           NEW q2, q2 = Tail(q) \o c
    PROVE  IsLevelled(N, par, dp, q2, lv2, P \cup {Head(q)})
<1>1. PICK a \in 0 .. N - 1 : a = Head(q)
  BY QueueMoves
<1>2. /\ Has(q, a)
      /\ \A n : Has(q, n) => n = a \/ Has(q2, n)
      /\ \A n : Has(c, n) => Has(q2, n)
      /\ \A n : Has(q2, n) => Has(q, n) \/ Has(c, n)
  BY <1>1, QueueMoves
<1>3. lv[a] = dp[a]
  BY <1>2 DEF IsLevelled
<1>4. 0 \in P \cup {a} \/ Has(q2, 0)
  BY <1>2 DEF IsLevelled
<1>5. \A n \in 1 .. N - 1 : par[n] \in P \cup {a} => n \in P \cup {a} \/ Has(q2, n)
  BY <1>1, <1>2 DEF IsLevelled
<1>6. ASSUME NEW n \in 0 .. N - 1, n \in P \cup {a} \/ Has(q2, n) PROVE lv2[n] = dp[n]
  <2>1. CASE Has(c, n)
    <3>1. n # 0
      BY <2>1
    <3>2. n \in 1 .. N - 1
      BY <3>1
    <3>3. par[n] = a
      BY <1>1, <2>1, <3>2
    <3>4. dp[n] = dp[a] + 1
      BY <3>2, <3>3 DEF AreDepths
    <3> QED
      BY <1>1, <1>3, <2>1, <3>4
  <2>2. CASE ~Has(c, n)
    <3>1. n \in P \/ Has(q, n)
      BY <1>2, <1>6, <2>2
    <3>2. lv[n] = dp[n]
      BY <3>1 DEF IsLevelled
    <3> QED
      BY <2>2, <3>2
  <2> QED
    BY <2>1, <2>2
<1> QED
  BY <1>1, <1>4, <1>5, <1>6 DEF IsLevelled

\* When the queue is empty all levels are known.
LEMMA LevelsAreKnown ==
    ASSUME NEW N \in Nat, NEW par, NEW dp, AreDepths(N, par, dp), NEW P, NEW lv, NEW q, Len(q) = 0,
           IsLevelled(N, par, dp, q, lv, P)
    PROVE  \A n \in 0 .. N - 1 : lv[n] = dp[n]
<1> DEFINE Bad == (0 .. N - 1) \ P
<1>1. \A n : ~Has(q, n)
  BY DEF Has
<1>2. Bad = {}
  <2> SUFFICES ASSUME Bad # {} PROVE FALSE
    OBVIOUS
  <2>1. Bad \subseteq Nat
    OBVIOUS
  <2>2. PICK n \in Bad : \A m \in Bad : n <= m
    <3> HIDE DEF Bad
    <3> QED
      BY <2>1, LeastNumber
  <2>3. n \in 0 .. N - 1 /\ n \notin P
    OBVIOUS
  <2>4. n # 0
    BY <1>1, <2>3 DEF IsLevelled
  <2>5. n \in 1 .. N - 1
    BY <2>3, <2>4
  <2>6. par[n] \in 0 .. n - 1
    BY <2>5 DEF AreDepths
  <2>7. par[n] \in 0 .. N - 1 /\ ~(n <= par[n])
    BY <2>5, <2>6
  <2>8. par[n] \in P
    BY <2>2, <2>7
  <2> QED
    BY <1>1, <2>3, <2>5, <2>8 DEF IsLevelled
<1> QED
  BY <1>2 DEF IsLevelled

-----------------------------------------------------------------------------
(***************************************************************************)
(* The steps of the loop.                                                  *)
(***************************************************************************)
\* The semi-dominators from lk on are known, those numbers are linked, and each has its
\* provisional immediate dominator or waits in a bucket for a number up to top.
IsKnown(N, E, up, sd, lk, top, fo, mn, bk, id) ==
    /\ \A n \in 0 .. N - 1 : n >= lk => IsSemi(N, E, n, sd[n])
    /\ \A n \in 0 .. N - 1 : n < top => sd[n] = n
    /\ IsForest(N, up, sd, lk, fo, mn)
    /\ \A n \in 0 .. N - 1 : n >= lk => IsProvisional(N, up, sd, lk, id[n], n) \/ Has(bk[sd[n]], n)
    /\ \A s \in 0 .. N - 1 : \A w : Has(bk[s], w) => IsWaiting(N, up, sd, lk, top, s, w)

\* The same while the predecessors of n are looked at.
IsEvaluating(N, E, up, sd, n, fo, mn, bk, id) == IsKnown(N, E, up, sd, n + 1, n, fo, mn, bk, id)

StillCounted(N, up, sd, sd2, n) ==
    \A q \in 0 .. N - 1 : IsCounted(N, up, sd, n, q) => IsCounted(N, up, sd2, n, q)
AreCounted(N, E, up, sd, n) == \A p \in 0 .. N - 1 : <<p, n>> \in E => IsCounted(N, up, sd, n, p)

\* find(y) returns x, and leaves fo2 and mn2.
IsFound(N, sd, fo, mn, y, x, fo2, mn2) ==
    \E R, M, P : /\ RootMap(N, fo, R) /\ MinMap(N, sd, fo, mn, M) /\ PathMap(N, fo, P)
                 /\ x = M[y] /\ fo2 = LinkedTo(N, fo, P[y], R[y]) /\ mn2 = TakenFrom(N, mn, P[y], M)

\* A number waits still when smaller values change and more numbers are linked.
LEMMA StaysWaiting ==
    ASSUME NEW N \in Nat, NEW up, NEW sd, NEW sd2, NEW lk \in Nat, NEW lk2 \in Nat, lk2 <= lk,
           \A n \in 0 .. N - 1 : n >= lk => sd2[n] = sd[n],
           NEW top, NEW s, NEW w, IsWaiting(N, up, sd, lk, top, s, w)
    PROVE  IsWaiting(N, up, sd2, lk2, top, s, w)
<1>1. w \in 0 .. N - 1 /\ w >= lk /\ sd[w] = s
  BY DEF IsWaiting
<1>2. w >= lk2 /\ sd2[w] = s
  BY <1>1
<1> QED
  BY <1>1, <1>2 DEF IsWaiting

\* Before the loop.
LEMMA KnownStarts ==
    ASSUME NEW N \in Nat, NEW E, NEW up, NEW sd, AreUntouched(sd, N),
           NEW fo, fo = [n \in 0 .. N - 1 |-> n], NEW bk, bk = [n \in 0 .. N - 1 |-> <<>>], NEW id,
           NEW top \in Nat, top <= N
    PROVE  IsKnown(N, E, up, sd, N, top, fo, fo, bk, id)
<1>1. \A n \in 0 .. N - 1 : ~(n >= N) /\ sd[n] = n /\ fo[n] \in 0 .. N - 1 /\ fo[n] = n /\ bk[n] = <<>>
  BY DEF AreUntouched
<1>2. fo \in [0 .. N - 1 -> 0 .. N - 1]
  BY <1>1
<1>3. IsForest(N, up, sd, N, fo, fo)
  BY <1>1, <1>2 DEF IsForest
<1>4. \A s \in 0 .. N - 1 : \A w : ~Has(bk[s], w)
  <2>1. Len(<<>>) = 0
    OBVIOUS
  <2> QED
    BY <1>1, <2>1 DEF Has
<1> QED
  BY <1>1, <1>3, <1>4 DEF IsKnown

\* Evaluating a predecessor.
LEMMA KnownEvaluates ==
    ASSUME NEW N \in Nat, NEW E, NEW up, IsDFS(N, E, up), NEW sd \in [0 .. N - 1 -> 0 .. N - 1],
           NEW fo, NEW mn, NEW bk, NEW id, NEW n \in 1 .. N - 1, IsEvaluating(N, E, up, sd, n, fo, mn, bk, id),
           IsPartial(N, E, sd, n), NEW p \in 0 .. N - 1, <<p, n>> \in E,
           NEW x, NEW fo2, NEW mn2, IsFound(N, sd, fo, mn, p, x, fo2, mn2),
           NEW v, v = sd[x], NEW sd2, sd2 = Lowered(sd, n, v)
    PROVE  /\ IsEvaluating(N, E, up, sd2, n, fo2, mn2, bk, id)
           /\ sd2 \in [0 .. N - 1 -> 0 .. N - 1]
           /\ IsPartial(N, E, sd2, n) /\ IsCounted(N, up, sd2, n, p)
           /\ StillCounted(N, up, sd, sd2, n)
<1> USE DEF IsEvaluating, StillCounted
<1>20. PICK R, M, P : /\ RootMap(N, fo, R) /\ MinMap(N, sd, fo, mn, M) /\ PathMap(N, fo, P)
                      /\ x = M[p] /\ fo2 = LinkedTo(N, fo, P[p], R[p]) /\ mn2 = TakenFrom(N, mn, P[p], M)
  BY DEF IsFound
<1>1. /\ \A m \in 0 .. N - 1 : m >= n + 1 => IsSemi(N, E, m, sd[m])
      /\ \A m \in 0 .. N - 1 : m < n => sd[m] = m
      /\ IsForest(N, up, sd, n + 1, fo, mn)
      /\ \A m \in 0 .. N - 1 : m >= n + 1 => IsProvisional(N, up, sd, n + 1, id[m], m) \/ Has(bk[sd[m]], m)
      /\ \A s \in 0 .. N - 1 : \A w : Has(bk[s], w) => IsWaiting(N, up, sd, n + 1, n, s, w)
  BY DEF IsKnown
<1>2. n + 1 \in Nat
  OBVIOUS
<1>3. IsRoot(N, up, n + 1, R[p], p)
  BY <1>20, <1>1, <1>2, RootIsFound
<1>4. IsMin(N, up, sd, R[p], p, x)
  BY <1>20, <1>1, <1>2, <1>3, MinIsFound
<1>5. AreSemis(N, E, sd, n) /\ AreUntouched(sd, n)
  <2>1. \A m \in n + 1 .. N - 1 : m \in 0 .. N - 1 /\ m >= n + 1
    OBVIOUS
  <2>2. \A m \in 0 .. n - 1 : m \in 0 .. N - 1 /\ m < n
    OBVIOUS
  <2> QED
    BY <1>1, <2>1, <2>2 DEF AreSemis, AreUntouched
<1>0. IsLowered(N, sd, sd2, n) /\ IsPartial(N, E, sd2, n) /\ IsCounted(N, up, sd2, n, p)
  <2>1. PICK lk \in Nat : lk = n + 1
    OBVIOUS
  <2>2. IsRoot(N, up, lk, R[p], p)
    BY <1>3, <2>1
  <2> QED
    BY <1>20, <1>4, <1>5, <2>1, <2>2, PredecessorCounts
<1>6. /\ sd2 \in [0 .. N - 1 -> 0 .. N - 1] /\ \A m \in 0 .. N - 1 : m # n => sd2[m] = sd[m]
      /\ sd2[n] <= sd[n]
      /\ IsPartial(N, E, sd2, n) /\ IsCounted(N, up, sd2, n, p)
  BY <1>0 DEF IsLowered
<1>7. \A q \in 0 .. N - 1 : IsCounted(N, up, sd, n, q) => IsCounted(N, up, sd2, n, q)
  BY <1>6, StaysCounted
<1>8. IsForest(N, up, sd, n + 1, LinkedTo(N, fo, P[p], R[p]), TakenFrom(N, mn, P[p], M))
  BY <1>20, <1>1, <1>2, CompressionKeepsForest
<1>9. IsForest(N, up, sd2, n + 1, LinkedTo(N, fo, P[p], R[p]), TakenFrom(N, mn, P[p], M))
  <2>1. n \in 0 .. N - 1 /\ n < n + 1
    OBVIOUS
  <2> QED
    BY <1>2, <1>6, <1>8, <2>1, LoweringKeepsForest
<1>10. /\ \A m \in 0 .. N - 1 : m >= n + 1 => sd2[m] = sd[m]
       /\ \A m \in 0 .. N - 1 : m < n => sd2[m] = sd[m]
  <2>1. \A m \in 0 .. N - 1 : (m >= n + 1 => m # n) /\ (m < n => m # n)
    OBVIOUS
  <2> QED
    BY <1>6, <2>1
<1>11. \A m \in 0 .. N - 1 : m >= n + 1 => IsSemi(N, E, m, sd2[m])
  BY <1>1, <1>10
<1>12. \A m \in 0 .. N - 1 : m < n => sd2[m] = m
  BY <1>1, <1>10
<1>13. ASSUME NEW m \in 0 .. N - 1, m >= n + 1
       PROVE  IsProvisional(N, up, sd2, n + 1, id[m], m) \/ Has(bk[sd2[m]], m)
  <2>1. CASE IsProvisional(N, up, sd, n + 1, id[m], m)
    <3>1. n + 1 <= n + 1
      OBVIOUS
    <3>2. IsProvisional(N, up, sd2, n + 1, id[m], m)
      BY <1>2, <1>6, <1>10, <1>13, <2>1, <3>1, StaysProvisional
    <3> QED
      BY <3>2
  <2>2. CASE Has(bk[sd[m]], m)
    BY <1>10, <1>13, <2>2
  <2> QED
    BY <1>1, <1>13, <2>1, <2>2
<1>14. ASSUME NEW s \in 0 .. N - 1, NEW w, Has(bk[s], w) PROVE IsWaiting(N, up, sd2, n + 1, n, s, w)
  <2>1. IsWaiting(N, up, sd, n + 1, n, s, w)
    BY <1>1, <1>14
  <2>2. n + 1 <= n + 1
    OBVIOUS
  <2> QED
    BY <1>2, <1>10, <2>1, <2>2, StaysWaiting
<1>15. IsKnown(N, E, up, sd2, n + 1, n, fo2, mn2, bk, id)
  BY <1>20, <1>9, <1>11, <1>12, <1>13, <1>14 DEF IsKnown
<1> QED
  BY <1>6, <1>7, <1>15

\* n is linked to its parent.
Linked(fo, up, n) == [fo EXCEPT ![n] = up[n]]

\* n is put into bucket s.
Filed(bk, s, n) == [bk EXCEPT ![s] = Append(@, n)]

\* The semi-dominator of n is known: n is linked and waits in the bucket.
LEMMA KnownLinks ==
    ASSUME NEW N \in Nat, NEW E, NEW up, IsDFS(N, E, up), NEW sd \in [0 .. N - 1 -> 0 .. N - 1],
           NEW fo, NEW mn, NEW bk \in [0 .. N - 1 -> Seq(0 .. N - 1)], NEW id,
           NEW n \in 1 .. N - 1, IsEvaluating(N, E, up, sd, n, fo, mn, bk, id),
           IsPartial(N, E, sd, n), AreCounted(N, E, up, sd, n),
           NEW fo2, fo2 = Linked(fo, up, n), NEW b2, b2 = Filed(bk, sd[n], n)
    PROVE  /\ IsKnown(N, E, up, sd, n, n, fo2, mn, b2, id)
           /\ b2 \in [0 .. N - 1 -> Seq(0 .. N - 1)]
<1> USE DEF IsEvaluating, AreCounted, Linked
<1>1. /\ \A m \in 0 .. N - 1 : m >= n + 1 => IsSemi(N, E, m, sd[m])
      /\ \A m \in 0 .. N - 1 : m < n => sd[m] = m
      /\ IsForest(N, up, sd, n + 1, fo, mn)
      /\ \A m \in 0 .. N - 1 : m >= n + 1 => IsProvisional(N, up, sd, n + 1, id[m], m) \/ Has(bk[sd[m]], m)
      /\ \A s \in 0 .. N - 1 : \A w : Has(bk[s], w) => IsWaiting(N, up, sd, n + 1, n, s, w)
  BY DEF IsKnown
<1>2. n + 1 \in Nat /\ n \in Nat /\ n <= n + 1 /\ n \in 0 .. N - 1
  OBVIOUS
<1>3. b2 = Filed(bk, sd[n], n)
  OBVIOUS
<1>4. sd[n] \in 0 .. N - 1
  BY <1>2
<1>5. b2[sd[n]] = Append(bk[sd[n]], n) /\ \A s \in 0 .. N - 1 : s # sd[n] => b2[s] = bk[s]
  BY <1>3, <1>4 DEF Filed
<1>6. bk[sd[n]] \in Seq(0 .. N - 1)
  BY <1>4
<1>7. Append(bk[sd[n]], n) \in Seq(0 .. N - 1) /\ \A w : Has(Append(bk[sd[n]], n), w) <=> Has(bk[sd[n]], w) \/ w = n
  <2>1. PICK q \in Seq(0 .. N - 1) : q = bk[sd[n]]
    BY <1>6
  <2>2. Append(q, n) \in Seq(0 .. N - 1) /\ \A w : Has(Append(q, n), w) <=> Has(q, w) \/ w = n
    BY <1>2, AppendHas
  <2> QED
    BY <2>1, <2>2
<1>8. b2 \in [0 .. N - 1 -> Seq(0 .. N - 1)]
  BY <1>3, <1>7 DEF Filed
<1>9. \A s \in 0 .. N - 1 : \A w : Has(b2[s], w) <=> Has(bk[s], w) \/ (s = sd[n] /\ w = n)
  BY <1>5, <1>7
<1>10. IsSemi(N, E, n, sd[n])
  <2>1. \A m \in n + 1 .. N - 1 : m \in 0 .. N - 1 /\ m >= n + 1
    OBVIOUS
  <2>2. \A m \in n + 1 .. N - 1 : IsSemi(N, E, m, sd[m])
    BY <1>1, <2>1
  <2> QED
    BY <2>2, SemiIsKnown
<1>11. \A m \in 0 .. N - 1 : m >= n <=> m >= n + 1 \/ m = n
  OBVIOUS
<1>12. \A m \in 0 .. N - 1 : m >= n => IsSemi(N, E, m, sd[m])
  BY <1>1, <1>10, <1>11
<1>13. IsForest(N, up, sd, n, [fo EXCEPT ![n] = up[n]], mn)
  BY <1>1, LinkingKeepsForest
<1>14. ASSUME NEW m \in 0 .. N - 1, m >= n
       PROVE  IsProvisional(N, up, sd, n, id[m], m) \/ Has(b2[sd[m]], m)
  <2>1. CASE m = n
    BY <1>4, <1>9, <2>1
  <2>2. CASE m >= n + 1 /\ IsProvisional(N, up, sd, n + 1, id[m], m)
    <3>1. \A x \in 0 .. N - 1 : x >= n + 1 => sd[x] = sd[x]
      OBVIOUS
    <3>2. IsProvisional(N, up, sd, n, id[m], m)
      BY <1>2, <2>2, <3>1, StaysProvisional
    <3> QED
      BY <3>2
  <2>3. CASE Has(bk[sd[m]], m)
    BY <1>9, <2>3
  <2> QED
    BY <1>1, <1>11, <1>14, <2>1, <2>2, <2>3
<1>15. ASSUME NEW s \in 0 .. N - 1, NEW w, Has(b2[s], w) PROVE IsWaiting(N, up, sd, n, n, s, w)
  <2>1. CASE Has(bk[s], w)
    <3>1. IsWaiting(N, up, sd, n + 1, n, s, w)
      BY <1>1, <2>1
    <3>2. \A x \in 0 .. N - 1 : x >= n + 1 => sd[x] = sd[x]
      OBVIOUS
    <3> QED
      BY <1>2, <3>1, <3>2, StaysWaiting
  <2>2. CASE s = sd[n] /\ w = n
    <3>1. sd[n] \in Candidates(N, E, n)
      BY <1>10 DEF IsSemi
    <3>2. sd[n] < n /\ Anc(up, sd[n], n)
      BY <3>1, CandidatesAreAncestors
    <3>3. PICK c \in sd[n] + 1 .. n : up[c] = sd[n] /\ Anc(up, c, n)
      BY <1>2, <1>4, <3>2, ChildToward
    <3>4. c \in 1 .. n
      BY <1>4, <3>3
    <3>5. n >= n
      OBVIOUS
    <3> QED
      BY <1>2, <2>2, <3>3, <3>4, <3>5 DEF IsWaiting
  <2> QED
    BY <1>9, <1>15, <2>1, <2>2
<1>16. IsKnown(N, E, up, sd, n, n, [fo EXCEPT ![n] = up[n]], mn, b2, id)
  BY <1>1, <1>12, <1>13, <1>14, <1>15 DEF IsKnown
<1> QED
  BY <1>3, <1>8, <1>16

\* w has its provisional immediate dominator; the numbers that have one keep one.
HasProvisional(N, up, sd, lk, id, w) == IsProvisional(N, up, sd, lk, id[w], w)
StillProvisional(N, up, sd, lk, id, id2) ==
    \A v \in 0 .. N - 1 : HasProvisional(N, up, sd, lk, id, v) => HasProvisional(N, up, sd, lk, id2, v)

\* w is in the bucket of the parent of n.
IsFiled(bk, up, n, w) == Has(bk[up[n]], w)

\* What is taken for w while its bucket is looked at.
Taken(id, sd, up, n, w, x) == [id EXCEPT ![w] = IF sd[x] = sd[w] THEN up[n] ELSE x]

\* A number of the bucket of the parent of n gets its provisional immediate dominator.
LEMMA KnownTakes ==
    ASSUME NEW N \in Nat, NEW E, NEW up, IsDFS(N, E, up), NEW sd \in [0 .. N - 1 -> 0 .. N - 1],
           NEW fo, NEW mn, NEW bk, NEW id \in [0 .. N - 1 -> 0 .. N - 1],
           NEW n \in 1 .. N - 1, IsKnown(N, E, up, sd, n, n, fo, mn, bk, id), NEW w, IsFiled(bk, up, n, w),
           NEW x, NEW fo2, NEW mn2, IsFound(N, sd, fo, mn, w, x, fo2, mn2),
           NEW id2, id2 = Taken(id, sd, up, n, w, x)
    PROVE  /\ IsKnown(N, E, up, sd, n, n, fo2, mn2, bk, id2)
           /\ w \in 0 .. N - 1 /\ id2 \in [0 .. N - 1 -> 0 .. N - 1]
           /\ HasProvisional(N, up, sd, n, id2, w) /\ StillProvisional(N, up, sd, n, id, id2)
<1> USE DEF HasProvisional, StillProvisional, IsFiled
<1>20. PICK R, M, P : /\ RootMap(N, fo, R) /\ MinMap(N, sd, fo, mn, M) /\ PathMap(N, fo, P)
                      /\ x = M[w] /\ fo2 = LinkedTo(N, fo, P[w], R[w]) /\ mn2 = TakenFrom(N, mn, P[w], M)
  BY DEF IsFound
<1>1. /\ \A m \in 0 .. N - 1 : m >= n => IsSemi(N, E, m, sd[m])
      /\ \A m \in 0 .. N - 1 : m < n => sd[m] = m
      /\ IsForest(N, up, sd, n, fo, mn)
      /\ \A m \in 0 .. N - 1 : m >= n => IsProvisional(N, up, sd, n, id[m], m) \/ Has(bk[sd[m]], m)
      /\ \A s \in 0 .. N - 1 : \A v : Has(bk[s], v) => IsWaiting(N, up, sd, n, n, s, v)
  BY DEF IsKnown
<1>2. n \in Nat /\ n \in 0 .. N - 1 /\ n > 0
  OBVIOUS
<1>3. up[n] \in 0 .. N - 1
  BY <1>2, AncSelf
<1>4. IsWaiting(N, up, sd, n, n, up[n], w)
  BY <1>1, <1>3
<1>5. w \in 0 .. N - 1
  BY <1>4 DEF IsWaiting
<1>6. IsRoot(N, up, n, R[w], w)
  BY <1>20, <1>1, <1>2, <1>5, RootIsFound
<1>7. IsMin(N, up, sd, R[w], w, x)
  BY <1>20, <1>1, <1>2, <1>5, <1>6, MinIsFound
<1>8. x \in 0 .. N - 1
  BY <1>7 DEF IsMin
<1>9. \A m \in 0 .. n - 1 : sd[m] = m
  <2>1. \A m \in 0 .. n - 1 : m \in 0 .. N - 1 /\ m < n
    BY <1>2
  <2> QED
    BY <1>1, <2>1
<1>10. IsProvisional(N, up, sd, n, IF sd[x] = sd[w] THEN up[n] ELSE x, w)
  BY <1>4, <1>6, <1>7, <1>9, BucketIsProvisional
<1>11. PICK d : d = IF sd[x] = sd[w] THEN up[n] ELSE x
  OBVIOUS
<1>12. d \in 0 .. N - 1
  BY <1>3, <1>8, <1>11
<1>13. id2 = [id EXCEPT ![w] = d]
  BY <1>11 DEF Taken
<1>14. /\ id2 \in [0 .. N - 1 -> 0 .. N - 1] /\ id2[w] = d
       /\ \A v \in 0 .. N - 1 : v # w => id2[v] = id[v]
  BY <1>5, <1>12, <1>13
<1>15. IsProvisional(N, up, sd, n, id2[w], w)
  BY <1>10, <1>11, <1>14
<1>16. \A v \in 0 .. N - 1 : IsProvisional(N, up, sd, n, id[v], v) => IsProvisional(N, up, sd, n, id2[v], v)
  BY <1>14, <1>15
<1>17. IsForest(N, up, sd, n, LinkedTo(N, fo, P[w], R[w]), TakenFrom(N, mn, P[w], M))
  BY <1>20, <1>1, <1>2, <1>5, CompressionKeepsForest
<1>18. \A m \in 0 .. N - 1 : m >= n => IsProvisional(N, up, sd, n, id2[m], m) \/ Has(bk[sd[m]], m)
  BY <1>1, <1>16
<1>19. IsKnown(N, E, up, sd, n, n, fo2, mn2, bk, id2)
  BY <1>20, <1>1, <1>17, <1>18 DEF IsKnown
<1> QED
  BY <1>5, <1>14, <1>15, <1>16, <1>19

\* All of the bucket of the parent of n has been looked at.
AllTaken(N, up, sd, n, bk, id) ==
    \A w \in 0 .. N - 1 : IsFiled(bk, up, n, w) => HasProvisional(N, up, sd, n, id, w)

\* That bucket is emptied.
Cleared(bk, up, n) == [bk EXCEPT ![up[n]] = <<>>]

\* The numbers from n on have their provisional immediate dominators.
AreProvisional(N, up, sd, id, n) == \A v \in n .. N - 1 : IsProvisional(N, up, sd, 1, id[v], v)

\* The bucket of the parent of n has been looked at and is emptied.
LEMMA KnownClears ==
    ASSUME NEW N \in Nat, NEW E, NEW up, IsDFS(N, E, up), NEW sd \in [0 .. N - 1 -> 0 .. N - 1],
           NEW fo, NEW mn, NEW bk \in [0 .. N - 1 -> Seq(0 .. N - 1)], NEW id,
           NEW n \in 1 .. N - 1, IsKnown(N, E, up, sd, n, n, fo, mn, bk, id),
           AllTaken(N, up, sd, n, bk, id),
           NEW bk2, bk2 = Cleared(bk, up, n), NEW top, top = n - 1
    PROVE  /\ IsKnown(N, E, up, sd, n, top, fo, mn, bk2, id)
           /\ bk2 \in [0 .. N - 1 -> Seq(0 .. N - 1)]
           /\ n = 1 => AreSemis(N, E, sd, 0) /\ AreProvisional(N, up, sd, id, 1)
<1> USE DEF AllTaken, Cleared, AreSemis, AreProvisional, IsFiled, HasProvisional
<1>1. /\ \A m \in 0 .. N - 1 : m >= n => IsSemi(N, E, m, sd[m])
      /\ \A m \in 0 .. N - 1 : m < n => sd[m] = m
      /\ IsForest(N, up, sd, n, fo, mn)
      /\ \A m \in 0 .. N - 1 : m >= n => IsProvisional(N, up, sd, n, id[m], m) \/ Has(bk[sd[m]], m)
      /\ \A s \in 0 .. N - 1 : \A v : Has(bk[s], v) => IsWaiting(N, up, sd, n, n, s, v)
  BY DEF IsKnown
<1>2. n \in 0 .. N - 1 /\ n > 0
  OBVIOUS
<1>3. up[n] \in 0 .. N - 1
  BY <1>2, AncSelf
<1>4. <<>> \in Seq(0 .. N - 1) /\ Len(<<>>) = 0
  BY EmptySeq
<1>5. \A w : ~Has(<<>>, w)
  BY <1>4 DEF Has
<1>6. /\ bk2 \in [0 .. N - 1 -> Seq(0 .. N - 1)] /\ bk2[up[n]] = <<>>
      /\ \A s \in 0 .. N - 1 : s # up[n] => bk2[s] = bk[s]
  BY <1>3, <1>4
<1>7. \A m \in 0 .. N - 1 : m < n - 1 => sd[m] = m
  <2>1. \A m \in 0 .. N - 1 : m < n - 1 => m < n
    OBVIOUS
  <2> QED
    BY <1>1, <2>1
<1>8. ASSUME NEW m \in 0 .. N - 1, m >= n
      PROVE  IsProvisional(N, up, sd, n, id[m], m) \/ Has(bk2[sd[m]], m)
  <2>1. sd[m] \in 0 .. N - 1
    OBVIOUS
  <2>2. CASE sd[m] = up[n]
    BY <1>1, <1>8, <2>2
  <2>3. CASE sd[m] # up[n]
    BY <1>1, <1>6, <1>8, <2>1, <2>3
  <2> QED
    BY <2>2, <2>3
<1>9. ASSUME NEW s \in 0 .. N - 1, NEW w, Has(bk2[s], w)
      PROVE  /\ IsWaiting(N, up, sd, n, n - 1, s, w)
             /\ n # 1
  <2>1. s # up[n] /\ Has(bk[s], w)
    BY <1>5, <1>6, <1>9
  <2>2. IsWaiting(N, up, sd, n, n, s, w)
    BY <1>1, <2>1
  <2>3. PICK c \in 1 .. n : Anc(up, c, w) /\ up[c] = s
    BY <2>2 DEF IsWaiting
  <2>4. c # n
    BY <2>1, <2>3
  <2>5. c \in 1 .. n - 1 /\ n # 1
    BY <2>3, <2>4
  <2> QED
    BY <2>2, <2>3, <2>5 DEF IsWaiting
<1>10. IsKnown(N, E, up, sd, n, n - 1, fo, mn, bk2, id)
  BY <1>1, <1>7, <1>8, <1>9 DEF IsKnown
<1>11. ASSUME n = 1, NEW v \in 1 .. N - 1
       PROVE  IsSemi(N, E, v, sd[v]) /\ IsProvisional(N, up, sd, 1, id[v], v)
  <2>1. v \in 0 .. N - 1 /\ v >= n
    BY <1>11
  <2>2. sd[v] \in 0 .. N - 1
    BY <2>1
  <2>3. ~Has(bk2[sd[v]], v)
    BY <1>9, <1>11, <2>2
  <2>4. IsProvisional(N, up, sd, n, id[v], v)
    BY <1>8, <2>1, <2>3
  <2> QED
    BY <1>1, <1>11, <2>1, <2>4
<1>12. 0 + 1 = 1
  OBVIOUS
<1>13. n = 1 => AreSemis(N, E, sd, 0) /\ AreProvisional(N, up, sd, id, 1)
  BY <1>11, <1>12
<1> QED
  BY <1>6, <1>10, <1>13

-----------------------------------------------------------------------------
(***************************************************************************)
(* After the loop.                                                         *)
(***************************************************************************)
\* The provisional immediate dominator of n is replaced.
Fixed(id, sd, n) == [id EXCEPT ![n] = IF @ # sd[n] THEN id[@] ELSE @]

\* The last pass.
LEMMA KnownFixes ==
    ASSUME NEW N \in Nat, NEW E, NEW up, IsDFS(N, E, up), NEW f, NEW g, IsNumbering(f, g, N, E),
           NEW sd \in [0 .. N - 1 -> 0 .. N - 1], AreSemis(N, E, sd, 0),
           NEW id \in [0 .. N - 1 -> 0 .. N - 1], NEW n \in 1 .. N - 1,
           AreProvisional(N, up, sd, id, n), AreSettled(f, g, id, n),
           NEW id2, id2 = Fixed(id, sd, n)
    PROVE  /\ id2 \in [0 .. N - 1 -> 0 .. N - 1]
           /\ AreProvisional(N, up, sd, id2, n + 1) /\ AreSettled(f, g, id2, n + 1)
<1>2. n \in n .. N - 1 /\ n \in 0 .. N - 1
  OBVIOUS
<1>3. IsProvisional(N, up, sd, 1, id[n], n)
  BY <1>2 DEF AreProvisional
<1>4. PICK d : d = Followed(id, sd, n)
  OBVIOUS
<1>5. d \in 0 .. n - 1 /\ IsIdom(f, g[d], g[n])
  <2>1. IsIdom(f, g[d], g[n])
    BY <1>3, <1>4, ProvisionalIsFixed
  <2>2. d \in 0 .. n - 1
    BY <1>3, <1>4, ProvisionalIsFixed
  <2> QED
    BY <2>1, <2>2
<1>6. d \in 0 .. N - 1
  BY <1>5
<1>7. id2 = [id EXCEPT ![n] = d]
  BY <1>2, <1>4 DEF Fixed, Followed
<1>8. /\ id2 \in [0 .. N - 1 -> 0 .. N - 1] /\ id2[n] = d
      /\ \A v \in 0 .. N - 1 : v # n => id2[v] = id[v]
  BY <1>2, <1>6, <1>7
<1>9. AreProvisional(N, up, sd, id2, n + 1)
  <2>1. \A v \in n + 1 .. N - 1 : v \in n .. N - 1 /\ v \in 0 .. N - 1 /\ v # n
    OBVIOUS
  <2> QED
    BY <1>8, <2>1 DEF AreProvisional
<1>10. ASSUME NEW v \in Nat, 0 < v, v < n + 1 PROVE IsIdom(f, g[id2[v]], g[v]) /\ id2[v] \in 0 .. v - 1
  <2>1. CASE v = n
    BY <1>5, <1>8, <2>1
  <2>2. CASE v # n
    <3>1. v < n /\ v \in 0 .. N - 1
      BY <1>10, <2>2
    <3>2. IsIdom(f, g[id[v]], g[v]) /\ id[v] \in 0 .. v - 1
      BY <1>10, <3>1 DEF AreSettled
    <3> QED
      BY <1>8, <2>2, <3>1, <3>2
  <2> QED
    BY <2>1, <2>2
<1> QED
  BY <1>8, <1>9, <1>10 DEF AreSettled

\* The depths of the groups are those in the tree.
LEMMA DepthsOfTree ==
    ASSUME IsFiniteSet(Groups), NEW N \in Nat, NEW E, NEW f, NEW g, IsNumbering(f, g, N, E),
           NEW par, AreSettled(f, g, par, N),
           NEW dp, dp = [n \in 0 .. N - 1 |-> Depth(f, g[n])]
    PROVE  AreDepths(N, par, dp) /\ dp \in [0 .. N - 1 -> Nat]
<1>1. /\ IsConnected(f) /\ g \in [0 .. N - 1 -> Groups] /\ N > 0 /\ g[0] = Entry
  BY DEF IsNumbering
<1>2. \A n \in 0 .. N - 1 : g[n] \in Groups
  BY <1>1
<1>3. \A n \in 0 .. N - 1 : Depth(f, g[n]) \in Nat
  BY <1>1, <1>2, DepthIsNumber
<1>4. 0 \in 0 .. N - 1
  BY <1>1
<1>5. Depth(f, Entry) = 0
  BY <1>1, <1>2, <1>4, DepthIsNumber
<1>6. dp[0] = 0
  BY <1>1, <1>4, <1>5
<1>7. ASSUME NEW n \in 1 .. N - 1 PROVE par[n] \in 0 .. n - 1 /\ dp[n] = dp[par[n]] + 1
  <2>0. n \in Nat /\ 0 < n /\ n < N
    OBVIOUS
  <2>1. IsIdom(f, g[par[n]], g[n]) /\ par[n] \in 0 .. n - 1
    BY <2>0 DEF AreSettled
  <2>2. n \in 0 .. N - 1 /\ par[n] \in 0 .. N - 1
    BY <2>1
  <2>3. Depth(f, g[n]) = Depth(f, g[par[n]]) + 1
    BY <1>1, <1>2, <2>1, <2>2, IdomDepth
  <2> QED
    BY <2>1, <2>2, <2>3
<1> QED
  BY <1>3, <1>6, <1>7 DEF AreDepths

-----------------------------------------------------------------------------
(***************************************************************************)
(* The numbers whose calls have returned.                                  *)
(***************************************************************************)
HasReturned(st, h, o, n) == n < Len(o) /\ ~OnPath(st, h, n)

\* The same calls have returned, or that for c as well.
KeepReturned(st2, h2, o2, st, h, o) == \A n \in Nat : HasReturned(st2, h2, o2, n) <=> HasReturned(st, h, o, n)
AlsoReturned(st2, h2, st, h, o, c) == \A n \in Nat : HasReturned(st2, h2, o, n) <=> HasReturned(st, h, o, n) \/ n = c

\* No call returns when the walk meets a group.
LEMMA NoneReturns ==
    ASSUME NEW F, IsGraph(F), NEW st \in Seq(Calls), NEW o \in Seq(Groups), NEW h, NEW fa, IsSearch(F, st, h, o, fa),
           NEW c, NEW st2, st2 = Append(st, c), NEW b, NEW o2, o2 = Append(o, b),
           NEW h2, h2 = Deeper(st, h, o)
    PROVE  KeepReturned(st2, h2, o2, st, h, o)
<1> USE DEF Deeper
<1>1. PICK l \in Nat \ {0}, m \in Nat \ {0} : l = Len(st) /\ m = Len(o)
  BY SearchTypes
<1>2. Len(st2) = l + 1 /\ Len(o2) = m + 1
  BY <1>1
<1>3. h2[l + 1] = m /\ \A j \in 1 .. l : h2[j] = h[j]
  BY <1>1
<1>4. \A j \in 1 .. l : h[j] \in 0 .. m - 1
  BY <1>1, SearchTypes
<1>5. ASSUME NEW n \in Nat PROVE OnPath(st2, h2, n) <=> OnPath(st, h, n) \/ n = m
  <2>1. \A j \in 1 .. l + 1 : j \in 1 .. l \/ j = l + 1
    OBVIOUS
  <2>2. l + 1 \in 1 .. l + 1 /\ \A j \in 1 .. l : j \in 1 .. l + 1
    OBVIOUS
  <2> QED
    BY <1>1, <1>2, <1>3, <2>1, <2>2 DEF OnPath
<1>6. \A n \in Nat : n < m + 1 /\ n # m <=> n < m
  OBVIOUS
<1> QED
  BY <1>1, <1>2, <1>5, <1>6 DEF HasReturned, KeepReturned

\* The last call returns.
LEMMA LastReturns ==
    ASSUME NEW F, IsGraph(F), NEW st \in Seq(Calls), NEW o \in Seq(Groups), NEW h, NEW fa, IsSearch(F, st, h, o, fa),
           Len(st) > 1, NEW st2, st2 = SubSeq(st, 1, Len(st) - 1), NEW h2, h2 = Shorter(st, h)
    PROVE  /\ AlsoReturned(st2, h2, st, h, o, h[Len(st)])
           /\ h[Len(st)] # 0
<1> USE DEF Shorter
<1>1. PICK l \in Nat \ {0}, m \in Nat \ {0} : l = Len(st) /\ m = Len(o)
  BY SearchTypes
<1>2. l - 1 \in Nat /\ 1 \in 1 .. l /\ l \in 1 .. l /\ 1 < l
  BY <1>1
<1>3. Len(st2) = l - 1
  BY <1>1, <1>2, SubSeqProperties
<1>4. \A j \in 1 .. l - 1 : h2[j] = h[j]
  BY <1>1
<1>5. \A j \in 1 .. l : h[j] \in 0 .. m - 1
  BY <1>1, SearchTypes
<1>6. h[1] = 0 /\ \A a, b \in 1 .. l : a < b => h[a] < h[b]
  BY <1>1 DEF IsSearch, IsPath
<1>7. PICK z \in 0 .. m - 1 : z = h[l]
  BY <1>2, <1>5
<1>8. z # 0
  <2>1. h[1] < h[l]
    BY <1>2, <1>6
  <2> QED
    BY <1>6, <1>7, <2>1
<1>9. \A j \in 1 .. l - 1 : h[j] # z
  <2> SUFFICES ASSUME NEW j \in 1 .. l - 1 PROVE h[j] # z
    OBVIOUS
  <2>1. j \in 1 .. l /\ j < l
    OBVIOUS
  <2>2. h[j] < z
    BY <1>2, <1>6, <1>7, <2>1
  <2> QED
    BY <1>5, <2>1, <2>2
<1>10. ASSUME NEW n \in Nat PROVE OnPath(st, h, n) <=> OnPath(st2, h2, n) \/ n = z
  <2>1. \A j \in 1 .. l : j \in 1 .. l - 1 \/ j = l
    OBVIOUS
  <2>2. \A j \in 1 .. l - 1 : j \in 1 .. l
    OBVIOUS
  <2> QED
    BY <1>1, <1>2, <1>3, <1>4, <1>7, <2>1, <2>2 DEF OnPath
<1>11. ~OnPath(st2, h2, z)
  BY <1>3, <1>4, <1>9 DEF OnPath
<1>12. z < m
  OBVIOUS
<1> QED
  BY <1>1, <1>7, <1>8, <1>10, <1>11, <1>12 DEF HasReturned, AlsoReturned

\* A call that looks at its next edge stays a call, and no call returns.
LEMMA AdvancedTypes ==
    ASSUME NEW st \in Seq(Calls), Len(st) > 0
    PROVE  /\ Advanced(st) \in Seq(Calls)
           /\ \A h, o : KeepReturned(Advanced(st), h, o, st, h, o)
<1>1. PICK l \in Nat : l = Len(st)
  BY LenProperties
<1>2. l \in 1 .. l /\ DOMAIN st = 1 .. l
  BY <1>1, LenProperties
<1>3. st[l] \in Calls
  BY <1>1, <1>2, ElementOfSeq
<1>4. [st[l] EXCEPT !.next = @ + 1] \in Calls
  <2>1. st[l].next + 1 \in Nat \ {0}
    BY <1>3 DEF Calls
  <2> QED
    BY <1>3, <2>1 DEF Calls
<1>5. Advanced(st) = [st EXCEPT ![l] = [st[l] EXCEPT !.next = @ + 1]]
  BY <1>1 DEF Advanced
<1>6. Advanced(st) \in Seq(Calls) /\ Len(Advanced(st)) = l
  BY <1>1, <1>2, <1>4, <1>5, ExceptSeq
<1>7. \A h, o, n : OnPath(Advanced(st), h, n) <=> OnPath(st, h, n)
  BY <1>1, <1>6 DEF OnPath
<1> QED
  BY <1>6, <1>7 DEF HasReturned, KeepReturned
=============================================================================
