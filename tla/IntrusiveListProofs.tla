------------------------ MODULE IntrusiveListProofs ------------------------
(***************************************************************************)
(* Proofs about IntrusiveList, for any finite sets of lists and nodes: the *)
(* links are consistent after every call, the lists act as the sequences   *)
(* of ListContents, and a loop that erases where it stands misses nothing. *)
(***************************************************************************)
EXTENDS IntrusiveList, SequenceTheorems, FiniteSetTheorems, WellFoundedInduction, TLAPS

-----------------------------------------------------------------------------
(***************************************************************************)
(* The inductive invariant.                                                *)
(***************************************************************************)
\* Links lead to nodes, to dummies or nowhere, and size_ is a size_t.
TypeOK ==
    /\ next \in [Links -> Links \cup {Null}]
    /\ prev \in [Links -> Links \cup {Null}]
    /\ parent \in [Nodes -> Lists \cup {Null}]
    /\ pair \in [Lists -> Pairs]
    /\ size \in [Lists -> 0 .. SizeMod - 1]
    /\ dropped \subseteq Nodes
    /\ loop.list \in Lists \cup {Null}

Places(s) == 1 .. Len(s)
IsListed(c, n) == \E l \in Lists : \E i \in Places(c[l]) : c[l][i] = n

\* The links are those of the sequences c.
IsContents(c) ==
    /\ \A l, m \in Lists : pair[l] = pair[m] => l = m
    /\ c \in [Lists -> Seq(Nodes)]
    /\ \A l, m \in Lists : \A i \in Places(c[l]), j \in Places(c[m]) : c[l][i] = c[m][j] => l = m /\ i = j
    /\ \A l \in Lists : \A j \in 0 .. Len(c[l]) :
        /\ next[Stop(l, c[l], j)] = Stop(l, c[l], j + 1)
        /\ prev[Stop(l, c[l], j + 1)] = Stop(l, c[l], j)
    /\ \A n \in Nodes : ~IsListed(c, n) => next[n] = Null /\ prev[n] = Null

\* Who knows what about whom: a listed node has a list as parent, and its own
\* unless a move left it stale; the lists know their size unless a stale parent_
\* has been followed.
Owners(c) ==
    /\ \A n \in Nodes : IsListed(c, n) => n \notin dropped /\ parent[n] \in Lists
    /\ \A n \in Nodes : ~IsListed(c, n) /\ n \notin dropped => parent[n] = Null
    /\ \A l \in Lists : \A i \in Places(c[l]) : c[l][i] \notin stale => parent[c[l][i]] = l
    /\ ~misled => \A l \in Lists : size[l] = Len(c[l])

\* The loop is past the last node and has been at all it had to meet.
AtEnd ==
    /\ loop.node = Tail_(loop.list)
    /\ ToSet(loop.before) \subseteq ToSet(loop.visited)

\* The loop will go on at place q of s: what it has not met of the nodes of the
\* beginning is still in s from q on, in the order of the beginning.
GoesOnAt(s, q) ==
    /\ loop.next = Stop(loop.list, s, q)
    /\ \A i \in Places(s) : i >= q => s[i] \notin ToSet(loop.visited)
    /\ \A p \in Places(loop.before) :
        loop.before[p] \notin ToSet(loop.visited) =>
            /\ \E i \in Places(s) : i >= q /\ s[i] = loop.before[p]
            /\ \A r \in Places(loop.before) : p < r =>
                /\ loop.before[r] \notin ToSet(loop.visited)
                /\ \A i, j \in Places(s) : s[i] = loop.before[p] /\ s[j] = loop.before[r] => i < j

AtNode(s) ==
    /\ loop.node \in Nodes
    /\ loop.node \in ToSet(loop.visited)
    /\ \E q \in 1 .. Len(s) + 1 : GoesOnAt(s, q)

LoopIsOnTrack(c) ==
    Looping =>
        /\ loop.before \in Seq(Nodes) /\ loop.visited \in Seq(Nodes)
        /\ \A p, r \in Places(loop.before) : loop.before[p] = loop.before[r] => p = r
        /\ SameOrder(loop.visited, loop.before)
        /\ AtEnd \/ AtNode(c[loop.list])

\* What holds of the sequences the lists stand for.
Inv(c) == IsContents(c) /\ Owners(c) /\ LoopIsOnTrack(c)

\* The sequences with a node more, and with one less.
PutIn(c, l, k, n) == [c EXCEPT ![l] = InsertAt(c[l], k, n)]
TakenOut(c, l, k) == [c EXCEPT ![l] = RemoveAt(c[l], k)]

\* What all the loops would visit.
All == [l \in Lists |-> Contents(l)]

IInv == TypeOK /\ Inv(All)

-----------------------------------------------------------------------------
(***************************************************************************)
(* Lemmas about numbers and sequences.                                     *)
(***************************************************************************)
\* A set of numbers that is not empty has a least one: induction, for facts that
\* are not the values of an operator.
LEMMA LeastNumber ==
    ASSUME NEW T, T \subseteq Nat, T # {}
    PROVE  \E m \in T : \A k \in T : m <= k
<1> DEFINE R == {p \in Nat \X Nat : p[1] < p[2]}
<1>1. IsWellFoundedOn(R, Nat)
  BY NatLessThanWellFounded DEF OpToRel
<1>2. \E x \in T : \A y \in T : ~(<<y, x>> \in R)
  <2> HIDE DEF R
  <2> QED
    BY <1>1, WFMin
<1>3. PICK x \in T : \A y \in T : ~(<<y, x>> \in R)
  BY <1>2
<1>4. ASSUME NEW y \in T PROVE x <= y
  <2>1. x \in Nat /\ y \in Nat /\ ~(y < x)
    BY <1>3
  <2> QED
    BY <2>1
<1> QED
  BY <1>3, <1>4

\* A function on 1 .. n is a sequence.
LEMMA FunctionIsSequence ==
    ASSUME NEW S, NEW n \in Nat, NEW f \in [1 .. n -> S]
    PROVE  f \in Seq(S) /\ Len(f) = n /\ DOMAIN f = 1 .. n
  BY SeqDef

\* t is s with n more at place k; t is s without its node at place k.
IsLonger(t, s, k, n) ==
    /\ t \in Seq(Nodes) /\ Len(t) = Len(s) + 1
    /\ \A j \in 1 .. Len(s) + 1 : t[j] = IF j < k THEN s[j] ELSE IF j = k THEN n ELSE s[j - 1]

IsShorter(t, s, k) ==
    /\ t \in Seq(Nodes) /\ Len(t) = Len(s) - 1
    /\ \A j \in 1 .. Len(s) - 1 : t[j] = IF j < k THEN s[j] ELSE s[j + 1]

\* A node put into a sequence at place k.
LEMMA InsertAtParts ==
    ASSUME NEW s \in Seq(Nodes), NEW k \in 1 .. Len(s) + 1, NEW n \in Nodes,
           NEW t, t = InsertAt(s, k, n)
    PROVE  IsLonger(t, s, k, n)
<1>1. PICK L : L = Len(s)
  OBVIOUS
<1>2. L \in Nat /\ k \in Nat \ {0} /\ k <= L + 1 /\ \A j \in 1 .. L : s[j] \in Nodes
  BY <1>1, LenProperties, ElementOfSeq
<1>3. PICK a : a = SubSeq(s, 1, k - 1)
  OBVIOUS
<1>4. PICK b : b = SubSeq(s, k, L)
  OBVIOUS
<1>5. a \in Seq(Nodes) /\ Len(a) = k - 1 /\ \A j \in 1 .. k - 1 : a[j] = s[j]
  <2>1. k - 1 \in Int /\ 1 \in Int /\ \A i \in 1 .. k - 1 : s[i] \in Nodes
    BY <1>2
  <2>2. /\ a \in Seq(Nodes) /\ Len(a) = (IF 1 <= k - 1 THEN k - 1 - 1 + 1 ELSE 0)
        /\ \A j \in 1 .. k - 1 - 1 + 1 : a[j] = s[1 + j - 1]
    BY <1>3, <2>1, SubSeqProperties
  <2> QED
    BY <1>2, <2>2
<1>6. b \in Seq(Nodes) /\ Len(b) = L + 1 - k /\ \A j \in 1 .. L + 1 - k : b[j] = s[k + j - 1]
  <2>1. k \in Int /\ L \in Int /\ \A i \in k .. L : s[i] \in Nodes
    BY <1>2
  <2>2. /\ b \in Seq(Nodes) /\ Len(b) = (IF k <= L THEN L - k + 1 ELSE 0)
        /\ \A j \in 1 .. L - k + 1 : b[j] = s[k + j - 1]
    BY <1>4, <2>1, SubSeqProperties
  <2> QED
    BY <1>2, <2>2
<1>7. PICK e : e = <<n>>
  OBVIOUS
<1>8. e \in Seq(Nodes) /\ Len(e) = 1 /\ e[1] = n
  BY <1>7
<1>9. PICK f : f = a \o e
  OBVIOUS
<1>10. f \in Seq(Nodes) /\ Len(f) = k /\ \A j \in 1 .. k : f[j] = IF j < k THEN s[j] ELSE n
  <2>1. /\ f \in Seq(Nodes) /\ Len(f) = Len(a) + Len(e)
        /\ \A j \in 1 .. Len(a) + Len(e) : f[j] = IF j <= Len(a) THEN a[j] ELSE e[j - Len(a)]
    BY <1>5, <1>8, <1>9, ConcatProperties
  <2>2. Len(f) = k
    BY <1>2, <1>5, <1>8, <2>1
  <2>3. ASSUME NEW j \in 1 .. k PROVE f[j] = IF j < k THEN s[j] ELSE n
    <3>1. j \in 1 .. Len(a) + Len(e) /\ (j <= Len(a) <=> j < k) /\ (~(j < k) => j - Len(a) = 1) /\ (j < k => j \in 1 .. k - 1)
      BY <1>2, <1>5, <1>8
    <3> QED
      BY <1>5, <1>8, <2>1, <3>1
  <2> QED
    BY <2>1, <2>2, <2>3
<1>11. PICK r : r = f \o b
  OBVIOUS
<1>12. /\ r \in Seq(Nodes) /\ Len(r) = Len(f) + Len(b)
       /\ \A j \in 1 .. Len(f) + Len(b) : r[j] = IF j <= Len(f) THEN f[j] ELSE b[j - Len(f)]
  BY <1>6, <1>10, <1>11, ConcatProperties
<1>13. Len(r) = L + 1
  BY <1>2, <1>6, <1>10, <1>12
<1>14. ASSUME NEW j \in 1 .. L + 1 PROVE r[j] = IF j < k THEN s[j] ELSE IF j = k THEN n ELSE s[j - 1]
  <2>1. j \in 1 .. Len(f) + Len(b)
    BY <1>2, <1>6, <1>10
  <2>2. CASE j <= k
    BY <1>2, <1>10, <1>12, <2>1, <2>2
  <2>3. CASE j > k
    <3>1. j - k \in 1 .. L + 1 - k /\ k + (j - k) - 1 = j - 1 /\ ~(j <= Len(f)) /\ ~(j < k) /\ j # k
      BY <1>2, <1>10, <2>3
    <3>2. b[j - k] = s[j - 1]
      BY <1>6, <3>1
    <3> QED
      BY <1>10, <1>12, <2>1, <3>1, <3>2
  <2> QED
    BY <1>2, <2>2, <2>3
<1>15. t = r
  BY <1>1, <1>3, <1>4, <1>7, <1>9, <1>11 DEF InsertAt
<1> QED
  BY <1>1, <1>12, <1>13, <1>14, <1>15 DEF IsLonger

\* A sequence without its node at place k.
LEMMA RemoveAtParts ==
    ASSUME NEW s \in Seq(Nodes), NEW k \in 1 .. Len(s),
           NEW t, t = RemoveAt(s, k)
    PROVE  IsShorter(t, s, k)
<1>1. PICK L : L = Len(s)
  OBVIOUS
<1>2. L \in Nat /\ k \in Nat \ {0} /\ k <= L /\ \A j \in 1 .. L : s[j] \in Nodes
  BY <1>1, LenProperties, ElementOfSeq
<1>3. PICK a : a = SubSeq(s, 1, k - 1)
  OBVIOUS
<1>4. PICK b : b = SubSeq(s, k + 1, L)
  OBVIOUS
<1>5. a \in Seq(Nodes) /\ Len(a) = k - 1 /\ \A j \in 1 .. k - 1 : a[j] = s[j]
  <2>1. k - 1 \in Int /\ 1 \in Int /\ \A i \in 1 .. k - 1 : s[i] \in Nodes
    BY <1>2
  <2>2. /\ a \in Seq(Nodes) /\ Len(a) = (IF 1 <= k - 1 THEN k - 1 - 1 + 1 ELSE 0)
        /\ \A j \in 1 .. k - 1 - 1 + 1 : a[j] = s[1 + j - 1]
    BY <1>3, <2>1, SubSeqProperties
  <2> QED
    BY <1>2, <2>2
<1>6. b \in Seq(Nodes) /\ Len(b) = L - k /\ \A j \in 1 .. L - k : b[j] = s[k + j]
  <2>1. k + 1 \in Int /\ L \in Int /\ \A i \in k + 1 .. L : s[i] \in Nodes
    BY <1>2
  <2>2. /\ b \in Seq(Nodes) /\ Len(b) = (IF k + 1 <= L THEN L - (k + 1) + 1 ELSE 0)
        /\ \A j \in 1 .. L - (k + 1) + 1 : b[j] = s[k + 1 + j - 1]
    BY <1>4, <2>1, SubSeqProperties
  <2> QED
    BY <1>2, <2>2
<1>7. t = a \o b
  BY <1>1, <1>3, <1>4 DEF RemoveAt
<1>8. /\ t \in Seq(Nodes) /\ Len(t) = Len(a) + Len(b)
      /\ \A j \in 1 .. Len(a) + Len(b) : t[j] = IF j <= Len(a) THEN a[j] ELSE b[j - Len(a)]
  BY <1>5, <1>6, <1>7, ConcatProperties
<1>9. Len(t) = L - 1
  BY <1>2, <1>5, <1>6, <1>8
<1>10. ASSUME NEW j \in 1 .. L - 1 PROVE t[j] = IF j < k THEN s[j] ELSE s[j + 1]
  <2>1. j \in 1 .. Len(a) + Len(b)
    BY <1>2, <1>5, <1>6
  <2>2. CASE j < k
    <3>1. j <= Len(a) /\ j \in 1 .. k - 1
      BY <1>2, <1>5, <2>2
    <3>2. a[j] = s[j]
      BY <1>5, <3>1
    <3>3. t[j] = a[j]
      BY <1>8, <2>1, <3>1
    <3> QED
      BY <2>2, <3>2, <3>3
  <2>3. CASE ~(j < k)
    <3>1. j - Len(a) \in 1 .. L - k /\ k + (j - Len(a)) = j + 1 /\ ~(j <= Len(a))
      BY <1>2, <1>5, <2>3
    <3>2. b[j - Len(a)] = s[j + 1]
      BY <1>6, <3>1
    <3>3. t[j] = b[j - Len(a)]
      BY <1>8, <2>1, <3>1
    <3> QED
      BY <2>3, <3>2, <3>3
  <2> QED
    BY <2>2, <2>3
<1> QED
  BY <1>1, <1>8, <1>9, <1>10 DEF IsShorter

-----------------------------------------------------------------------------
(***************************************************************************)
(* Lemmas about the links of consistent lists.                             *)
(***************************************************************************)
\* Dummies are all different, and are neither nodes nor null.
LEMMA Dummy ==
    /\ \A p, q \in Pairs : HeadOf(p) = HeadOf(q) => p = q
    /\ \A p, q \in Pairs : TailOf(p) = TailOf(q) => p = q
    /\ \A p, q \in Pairs : HeadOf(p) # TailOf(q)
    /\ \A p \in Pairs : HeadOf(p) \in Links \ Nodes /\ TailOf(p) \in Links \ Nodes
    /\ \A p \in Pairs : HeadOf(p) \in Dummies /\ TailOf(p) \in Dummies
    /\ Nodes \subseteq Links /\ Null \notin Links
<1>1. \A p, q \in Pairs : HeadOf(p).head = p /\ TailOf(q).tail = q
  BY DEF HeadOf, TailOf
<1>2. \A p, q \in Pairs : HeadOf(p) # TailOf(q)
  <2> SUFFICES ASSUME NEW p \in Pairs, NEW q \in Pairs, HeadOf(p) = TailOf(q) PROVE FALSE
    OBVIOUS
  <2>1. DOMAIN HeadOf(p) = {"head"} /\ DOMAIN TailOf(q) = {"tail"}
    BY DEF HeadOf, TailOf
  <2> QED
    BY <2>1
<1>3. \A p \in Pairs : HeadOf(p) \in Dummies /\ TailOf(p) \in Dummies
  BY DEF Dummies
<1>4. Links = Nodes \cup Dummies /\ Nodes \cap Dummies = {}
  BY DummiesAssumption DEF Links
<1> QED
  BY <1>1, <1>2, <1>3, <1>4, NullAssumption

\* The stops of all the lists differ from each other and from what is in no list.
LEMMA StopsDiffer ==
    ASSUME TypeOK, NEW c, IsContents(c)
    PROVE  /\ \A l \in Lists : \A j \in 0 .. Len(c[l]) + 1 :
                /\ Stop(l, c[l], j) \in Links
                /\ j \in Places(c[l]) <=> Stop(l, c[l], j) \in Nodes
                /\ \A n \in Nodes : ~IsListed(c, n) => Stop(l, c[l], j) # n
           /\ \A l, m \in Lists : \A i \in 0 .. Len(c[l]) + 1, j \in 0 .. Len(c[m]) + 1 :
                Stop(l, c[l], i) = Stop(m, c[m], j) => l = m /\ i = j
<1>1. /\ \A l \in Lists : pair[l] \in Pairs
      /\ \A l, m \in Lists : pair[l] = pair[m] => l = m
      /\ \A l \in Lists : c[l] \in Seq(Nodes)
      /\ \A l, m \in Lists : \A i \in Places(c[l]), j \in Places(c[m]) : c[l][i] = c[m][j] => l = m /\ i = j
  BY DEF TypeOK, IsContents
<1>2. ASSUME NEW l \in Lists, NEW j \in 0 .. Len(c[l]) + 1
      PROVE  \/ j = 0 /\ Stop(l, c[l], j) = HeadOf(pair[l]) /\ j \notin Places(c[l])
             \/ j \in Places(c[l]) /\ Stop(l, c[l], j) = c[l][j] /\ c[l][j] \in Nodes
             \/ j = Len(c[l]) + 1 /\ Stop(l, c[l], j) = TailOf(pair[l]) /\ j \notin Places(c[l])
  <2>1. PICK L : L = Len(c[l])
    OBVIOUS
  <2>2. L \in Nat /\ \A i \in 1 .. L : c[l][i] \in Nodes
    BY <1>1, <2>1, LenProperties, ElementOfSeq
  <2>3. CASE j = 0
    <3>1. Stop(l, c[l], j) = HeadOf(pair[l])
      BY <2>3 DEF Stop, Head_
    <3>2. j \notin Places(c[l])
      BY <2>1, <2>2, <2>3 DEF Places
    <3> QED
      BY <2>3, <3>1, <3>2
  <2>4. CASE j = L + 1
    <3>1. j # 0 /\ j > L
      BY <2>2, <2>4
    <3>2. Stop(l, c[l], j) = TailOf(pair[l])
      BY <2>1, <3>1 DEF Stop, Tail_
    <3>3. j \notin Places(c[l])
      BY <2>1, <2>2, <2>4 DEF Places
    <3> QED
      BY <2>1, <2>4, <3>2, <3>3
  <2>5. CASE j \in 1 .. L
    <3>1. j # 0 /\ ~(j > L)
      BY <2>2, <2>5
    <3>2. Stop(l, c[l], j) = c[l][j]
      BY <2>1, <3>1 DEF Stop
    <3> QED
      BY <2>1, <2>2, <2>5, <3>2 DEF Places
  <2> QED
    BY <2>1, <2>2, <2>3, <2>4, <2>5
<1>3. ASSUME NEW l \in Lists, NEW j \in 0 .. Len(c[l]) + 1
      PROVE  /\ Stop(l, c[l], j) \in Links
             /\ j \in Places(c[l]) <=> Stop(l, c[l], j) \in Nodes
             /\ \A n \in Nodes : ~IsListed(c, n) => Stop(l, c[l], j) # n
  <2>1. HeadOf(pair[l]) \in Links \ Nodes /\ TailOf(pair[l]) \in Links \ Nodes /\ Nodes \subseteq Links
    BY <1>1, Dummy
  <2> QED
    BY <1>2, <2>1 DEF IsListed
<1>4. ASSUME NEW l \in Lists, NEW m \in Lists,
             NEW i \in 0 .. Len(c[l]) + 1, NEW j \in 0 .. Len(c[m]) + 1,
             Stop(l, c[l], i) = Stop(m, c[m], j)
      PROVE  l = m /\ i = j
  <2>1. /\ HeadOf(pair[l]) = HeadOf(pair[m]) => l = m
        /\ TailOf(pair[l]) = TailOf(pair[m]) => l = m
        /\ HeadOf(pair[l]) # TailOf(pair[m]) /\ HeadOf(pair[m]) # TailOf(pair[l])
        /\ HeadOf(pair[l]) \notin Nodes /\ TailOf(pair[l]) \notin Nodes
        /\ HeadOf(pair[m]) \notin Nodes /\ TailOf(pair[m]) \notin Nodes
    BY <1>1, Dummy
  <2>2. \/ i = 0 /\ Stop(l, c[l], i) = HeadOf(pair[l])
        \/ i \in Places(c[l]) /\ Stop(l, c[l], i) = c[l][i] /\ c[l][i] \in Nodes
        \/ i = Len(c[l]) + 1 /\ Stop(l, c[l], i) = TailOf(pair[l])
    BY <1>2
  <2>3. \/ j = 0 /\ Stop(m, c[m], j) = HeadOf(pair[m])
        \/ j \in Places(c[m]) /\ Stop(m, c[m], j) = c[m][j] /\ c[m][j] \in Nodes
        \/ j = Len(c[m]) + 1 /\ Stop(m, c[m], j) = TailOf(pair[m])
    BY <1>2
  <2> QED
    BY <1>1, <1>4, <2>1, <2>2, <2>3
<1> QED
  BY <1>3, <1>4

\* No sequence without repetition is longer than there are nodes.
LEMMA SequencesAreShort ==
    ASSUME NEW s \in Seq(Nodes), \A i, j \in Places(s) : s[i] = s[j] => i = j
    PROVE  Len(s) \in Nat /\ Cardinality(Nodes) \in Nat /\ Len(s) <= Cardinality(Nodes)
<1>1. PICK L : L = Len(s)
  OBVIOUS
<1>2. L \in Nat /\ s \in [1 .. L -> Nodes] /\ \A i, j \in 1 .. L : s[i] = s[j] => i = j
  BY <1>1, LenProperties DEF Places
<1>3. s \in Injection(1 .. L, Nodes)
  BY <1>2 DEF Injection, IsInjective
<1>4. IsFiniteSet(Nodes) /\ Cardinality(Nodes) \in Nat
  BY FiniteAssumption, FS_CardinalityType
<1>5. Cardinality(1 .. L) <= Cardinality(Nodes)
  BY <1>3, <1>4, FS_Injection
<1>6. Cardinality(1 .. L) = L
  BY <1>2, FS_Interval
<1> QED
  BY <1>1, <1>2, <1>4, <1>5, <1>6

\* No list holds more nodes than there are.
LEMMA ListsAreShort ==
    ASSUME NEW c, IsContents(c), NEW l \in Lists
    PROVE  Len(c[l]) \in Nat /\ Cardinality(Nodes) \in Nat /\ Len(c[l]) <= Cardinality(Nodes)
<1>1. c[l] \in Seq(Nodes) /\ \A i, j \in Places(c[l]) : c[l][i] = c[l][j] => i = j
  BY DEF IsContents
<1> QED
  BY <1>1, SequencesAreShort

\* At most k nodes of s from place i on.
Piece(s, i, k) == [j \in 1 .. (IF k <= Len(s) + 1 - i THEN k ELSE Len(s) + 1 - i) |-> s[i + j - 1]]

\* A piece is its first node and a piece that is one node shorter.
LEMMA PieceGrows ==
    ASSUME NEW s \in Seq(Nodes), NEW i \in 1 .. Len(s), NEW k \in Nat \ {0}
    PROVE  /\ Piece(s, i, 0) = <<>>
           /\ i = Len(s) => <<s[i]>> \o <<>> = Piece(s, i, k)
           /\ i # Len(s) => <<s[i]>> \o Piece(s, i + 1, k - 1) = Piece(s, i, k)
<1>1. PICK L : L = Len(s)
  OBVIOUS
<1>2. L \in Nat /\ i \in 1 .. L /\ \A j \in 1 .. L : s[j] \in Nodes
  BY <1>1, LenProperties, ElementOfSeq
<1>3. ASSUME NEW n \in Nat, NEW a \in 1 .. L + 1, NEW m, m = IF n <= L + 1 - a THEN n ELSE L + 1 - a
      PROVE  /\ m \in Nat
             /\ Piece(s, a, n) \in Seq(Nodes) /\ Len(Piece(s, a, n)) = m
             /\ \A j \in 1 .. m : Piece(s, a, n)[j] = s[a + j - 1]
  <2>2. m \in Nat /\ m <= L + 1 - a
    BY <1>2, <1>3
  <2>3. Piece(s, a, n) = [j \in 1 .. m |-> s[a + j - 1]]
    BY <1>1, <1>3 DEF Piece
  <2>4. \A j \in 1 .. m : a + j - 1 \in 1 .. L
    BY <1>2, <2>2
  <2>5. Piece(s, a, n) \in [1 .. m -> Nodes]
    BY <1>2, <2>3, <2>4
  <2> QED
    BY <2>2, <2>3, <2>5, FunctionIsSequence
<1>4. Piece(s, i, 0) = <<>>
  <2>1. Piece(s, i, 0) \in Seq(Nodes) /\ Len(Piece(s, i, 0)) = 0
    <3>1. 0 \in Nat /\ i \in 1 .. L + 1 /\ 0 = IF 0 <= L + 1 - i THEN 0 ELSE L + 1 - i
      BY <1>2
    <3> QED
      BY <1>3, <3>1
  <2> QED
    BY <2>1, EmptySeq
<1>5. PICK one : one = <<s[i]>>
  OBVIOUS
<1>6. one \in Seq(Nodes) /\ Len(one) = 1 /\ one[1] = s[i]
  BY <1>2, <1>5
<1>7. PICK p : p = Piece(s, i, k)
  OBVIOUS
<1>8. p \in Seq(Nodes) /\ Len(p) = (IF k <= L + 1 - i THEN k ELSE L + 1 - i)
      /\ \A j \in 1 .. (IF k <= L + 1 - i THEN k ELSE L + 1 - i) : p[j] = s[i + j - 1]
  <2>1. i \in 1 .. L + 1
    BY <1>2
  <2>2. PICK m : m = IF k <= L + 1 - i THEN k ELSE L + 1 - i
    OBVIOUS
  <2>3. p \in Seq(Nodes) /\ Len(p) = m /\ \A j \in 1 .. m : p[j] = s[i + j - 1]
    BY <1>3, <1>7, <2>1, <2>2
  <2> QED
    BY <2>2, <2>3
<1>9. ASSUME i = L PROVE one \o <<>> = p
  <2>1. one \o <<>> = one
    BY <1>6, ConcatEmptySeq
  <2>2. Len(p) = 1 /\ p[1] = s[i]
    BY <1>2, <1>8, <1>9
  <2>3. \A j \in 1 .. Len(one) : one[j] = p[j]
    BY <1>6, <2>2
  <2> QED
    BY <1>6, <1>8, <2>1, <2>2, <2>3, SeqEqual
<1>10. ASSUME i # L PROVE one \o Piece(s, i + 1, k - 1) = p
  <2>1. PICK q : q = Piece(s, i + 1, k - 1)
    OBVIOUS
  <2>2. i + 1 \in 1 .. L + 1 /\ k - 1 \in Nat
    BY <1>2, <1>10
  <2>3. q \in Seq(Nodes) /\ Len(q) = (IF k - 1 <= L + 1 - (i + 1) THEN k - 1 ELSE L + 1 - (i + 1))
        /\ \A j \in 1 .. (IF k - 1 <= L + 1 - (i + 1) THEN k - 1 ELSE L + 1 - (i + 1)) : q[j] = s[i + 1 + j - 1]
    <3>1. PICK m : m = IF k - 1 <= L + 1 - (i + 1) THEN k - 1 ELSE L + 1 - (i + 1)
      OBVIOUS
    <3>2. q \in Seq(Nodes) /\ Len(q) = m /\ \A j \in 1 .. m : q[j] = s[i + 1 + j - 1]
      BY ZenonT(30), <1>3, <2>1, <2>2, <3>1
    <3> QED
      BY <3>1, <3>2
  <2>4. Len(q) \in Nat /\ Len(p) = Len(q) + 1
    BY <1>2, <1>8, <2>3
  <2>5. \A j \in 1 .. Len(q) : q[j] = s[i + j]
    BY SMTT(30), <1>2, <2>3
  <2>6. \A j \in 1 .. Len(p) : p[j] = s[i + j - 1]
    BY <1>2, <1>8
  <2>7. PICK r : r = one \o q
    OBVIOUS
  <2>8. /\ r \in Seq(Nodes) /\ Len(r) = Len(one) + Len(q)
        /\ \A j \in 1 .. Len(one) + Len(q) : r[j] = IF j <= Len(one) THEN one[j] ELSE q[j - Len(one)]
    BY <1>6, <2>3, <2>7, ConcatProperties
  <2>9. Len(r) = Len(p)
    BY <1>6, <2>4, <2>8
  <2>10. ASSUME NEW j \in 1 .. Len(r) PROVE r[j] = p[j]
    <3>1. j \in 1 .. Len(one) + Len(q) /\ j \in 1 .. Len(p)
      BY <2>8, <2>9
    <3>2. CASE j = 1
      <4>1. r[j] = s[i]
        BY <1>6, <2>8, <3>1, <3>2
      <4>2. p[j] = s[i]
        BY <1>2, <2>6, <3>1, <3>2
      <4> QED
        BY <4>1, <4>2
    <3>3. CASE j # 1
      <4>1. j - 1 \in 1 .. Len(q) /\ ~(j <= 1) /\ i + (j - 1) = i + j - 1
        BY <1>2, <1>6, <2>4, <3>1, <3>3
      <4>2. r[j] = q[j - 1]
        BY <1>6, <2>8, <3>1, <4>1
      <4>3. q[j - 1] = s[i + j - 1]
        BY <2>5, <4>1
      <4> QED
        BY <2>6, <3>1, <4>2, <4>3
    <3> QED
      BY <3>2, <3>3
  <2> QED
    BY <1>8, <2>1, <2>7, <2>8, <2>9, <2>10, SeqEqual
<1> QED
  BY <1>1, <1>4, <1>5, <1>7, <1>9, <1>10

\* If the links are those of c, then a loop from begin() meets the nodes of c.
LEMMA LoopsMeetContents ==
    ASSUME TypeOK, NEW c, IsContents(c), NEW l \in Lists
    PROVE  Contents(l) = c[l]
<1> DEFINE N == Cardinality(Nodes)
           Dom == (Links \cup {Null}) \X (0 .. N)
           Body(f) == [at \in Dom |->
                         IF at[1] \notin Nodes \/ at[2] = 0 THEN <<>>
                         ELSE <<at[1]>> \o f[<<next[at[1]], at[2] - 1>>]]
           Seat(n) == CHOOSE p \in Lists \X Nat : p[2] \in Places(c[p[1]]) /\ c[p[1]][p[2]] = n
           Known == [at \in Dom |->
                       IF at[1] \notin Nodes \/ at[2] = 0 THEN <<>>
                       ELSE IF IsListed(c, at[1])
                            THEN Piece(c[Seat(at[1])[1]], Seat(at[1])[2], at[2])
                            ELSE <<at[1]>>]
           G == CHOOSE f : f = Body(f)
<1> HIDE DEF Seat
<1>1. N \in Nat /\ \A m \in Lists : c[m] \in Seq(Nodes) /\ Len(c[m]) \in Nat /\ Len(c[m]) <= N
  BY ListsAreShort DEF IsContents
<1>2. next \in [Links -> Links \cup {Null}] /\ Nodes \subseteq Links
  BY Dummy DEF TypeOK
<1>3. ASSUME NEW m \in Lists, NEW i \in Places(c[m])
      PROVE  /\ i \in Nat /\ c[m][i] \in Nodes /\ IsListed(c, c[m][i])
             /\ Seat(c[m][i])[1] = m /\ Seat(c[m][i])[2] = i
             /\ i = Len(c[m]) => next[c[m][i]] \notin Nodes
             /\ i # Len(c[m]) => next[c[m][i]] = c[m][i + 1] /\ i + 1 \in Places(c[m])
  <2>1. PICK s : s = c[m]
    OBVIOUS
  <2>2. PICK L : L = Len(s)
    OBVIOUS
  <2>3. L \in Nat /\ s \in Seq(Nodes) /\ i \in 1 .. L /\ i \in Nat
    BY <1>1, <2>1, <2>2 DEF Places
  <2>4. s[i] \in Nodes /\ IsListed(c, s[i])
    BY <2>1, <2>2, <2>3, ElementOfSeq DEF IsListed
  <2>5. Seat(s[i])[1] = m /\ Seat(s[i])[2] = i
    <3>1. PICK n : n = s[i]
      OBVIOUS
    <3>2. <<m, i>> \in Lists \X Nat /\ <<m, i>>[2] \in Places(c[<<m, i>>[1]]) /\ c[<<m, i>>[1]][<<m, i>>[2]] = n
      BY <2>1, <2>3, <3>1
    <3>3. Seat(n) \in Lists \X Nat /\ Seat(n)[2] \in Places(c[Seat(n)[1]]) /\ c[Seat(n)[1]][Seat(n)[2]] = n
      BY <3>2 DEF Seat
    <3>4. PICK p : p = Seat(n)
      OBVIOUS
    <3>5. p \in Lists \X Nat /\ p[2] \in Places(c[p[1]]) /\ c[p[1]][p[2]] = n
      BY <3>3, <3>4, Zenon
    <3>6. p[1] \in Lists /\ p[2] \in Places(c[p[1]]) /\ c[p[1]][p[2]] = c[m][i]
      BY <2>1, <3>1, <3>5
    <3>7. p[1] = m /\ p[2] = i
      BY <3>6 DEF IsContents
    <3> QED
      BY <3>1, <3>4, <3>7, Zenon
  <2>6. next[Stop(m, s, i)] = Stop(m, s, i + 1)
    BY <2>1, <2>2, <2>3 DEF IsContents
  <2>7. Stop(m, s, i) = s[i]
    BY <2>2, <2>3 DEF Stop
  <2>8. i = L => Stop(m, s, i + 1) \notin Nodes
    <3> SUFFICES ASSUME i = L PROVE Stop(m, s, i + 1) \notin Nodes
      OBVIOUS
    <3>1. Stop(m, s, i + 1) = TailOf(pair[m])
      BY <2>2, <2>3 DEF Stop, Tail_
    <3> QED
      BY <3>1, Dummy DEF TypeOK
  <2>9. i # L => Stop(m, s, i + 1) = s[i + 1] /\ i + 1 \in 1 .. L
    BY <2>2, <2>3 DEF Stop
  <2> QED
    BY <2>1, <2>2, <2>3, <2>4, <2>5, <2>6, <2>7, <2>8, <2>9 DEF Places
<1>4. \A n \in Nodes : next[n] \in Links \cup {Null}
  BY <1>2
<1>5. Known = Body(Known)
  <2> SUFFICES ASSUME NEW at \in Dom PROVE Known[at] = Body(Known)[at]
    OBVIOUS
  <2>1. PICK n, k : at = <<n, k>> /\ n \in Links \cup {Null} /\ k \in 0 .. N
    OBVIOUS
  <2>2. at[1] = n /\ at[2] = k
    BY <2>1
  <2>3. CASE n \notin Nodes \/ k = 0
    BY <2>2, <2>3
  <2>4. CASE n \in Nodes /\ k # 0
    <3>1. <<next[n], k - 1>> \in Dom /\ k \in Nat \ {0} /\ k - 1 \in Nat
      BY <1>1, <1>4, <2>1, <2>4
    <3>2. Body(Known)[at] = <<n>> \o Known[<<next[n], k - 1>>]
      BY <2>2, <2>4
    <3>3. CASE ~IsListed(c, n)
      <4>1. next[n] = Null /\ Null \notin Nodes
        BY <2>4, <3>3, Dummy DEF IsContents
      <4>2. Known[<<next[n], k - 1>>] = <<>>
        BY <3>1, <4>1
      <4>3. Known[at] = <<n>>
        BY <2>2, <2>4, <3>3
      <4>4. <<n>> \o <<>> = <<n>>
        OBVIOUS
      <4> QED
        BY <3>2, <4>2, <4>3, <4>4
    <3>4. CASE IsListed(c, n)
      <4>1. PICK m \in Lists : \E i \in Places(c[m]) : c[m][i] = n
        BY <3>4 DEF IsListed
      <4>2. PICK i \in Places(c[m]) : c[m][i] = n
        BY <4>1
      <4>3. /\ Seat(n)[1] = m /\ Seat(n)[2] = i
            /\ i = Len(c[m]) => next[n] \notin Nodes
            /\ i # Len(c[m]) => next[n] = c[m][i + 1] /\ i + 1 \in Places(c[m])
        <5>1. /\ Seat(c[m][i])[1] = m /\ Seat(c[m][i])[2] = i
              /\ i = Len(c[m]) => next[c[m][i]] \notin Nodes
              /\ i # Len(c[m]) => next[c[m][i]] = c[m][i + 1] /\ i + 1 \in Places(c[m])
          BY <1>3
        <5> QED
          BY <4>2, <5>1, Zenon
      <4>4. Known[at] = Piece(c[m], i, k)
        BY <2>2, <2>4, <3>4, <4>3
      <4>5. /\ i = Len(c[m]) => <<n>> \o <<>> = Piece(c[m], i, k)
            /\ i # Len(c[m]) => <<n>> \o Piece(c[m], i + 1, k - 1) = Piece(c[m], i, k)
        BY <1>1, <3>1, <4>2, PieceGrows DEF Places
      <4>6. CASE i = Len(c[m])
        <5>1. Known[<<next[n], k - 1>>] = <<>>
          BY <3>1, <4>3, <4>6
        <5> QED
          BY <3>2, <4>4, <4>5, <4>6, <5>1
      <4>7. CASE i # Len(c[m])
        <5>1. /\ i + 1 \in Places(c[m]) /\ next[n] = c[m][i + 1] /\ next[n] \in Nodes /\ IsListed(c, next[n])
              /\ Seat(next[n])[1] = m /\ Seat(next[n])[2] = i + 1
          <6>1. i + 1 \in Places(c[m]) /\ next[n] = c[m][i + 1]
            BY <4>3, <4>7
          <6>2. /\ c[m][i + 1] \in Nodes /\ IsListed(c, c[m][i + 1])
                /\ Seat(c[m][i + 1])[1] = m /\ Seat(c[m][i + 1])[2] = i + 1
            BY <1>3, <6>1
          <6> QED
            BY <6>1, <6>2, Zenon
        <5>2. CASE k - 1 = 0
          <6>1. Known[<<next[n], k - 1>>] = <<>>
            BY <3>1, <5>2
          <6>2. Piece(c[m], i + 1, 0) = <<>>
            BY <1>1, <3>1, <5>1, PieceGrows DEF Places
          <6> QED
            BY <3>2, <4>4, <4>5, <4>7, <5>2, <6>1, <6>2
        <5>3. CASE k - 1 # 0
          <6>1. Known[<<next[n], k - 1>>] = Piece(c[m], i + 1, k - 1)
            BY <3>1, <5>1, <5>3
          <6> QED
            BY <3>2, <4>4, <4>5, <4>7, <6>1
        <5> QED
          BY <5>2, <5>3
      <4> QED
        BY <4>6, <4>7
    <3> QED
      BY <3>3, <3>4
  <2> QED
    BY <2>3, <2>4
<1>6. G = Body(G)
  <2> HIDE DEF Known, Body
  <2> QED
    BY <1>5
<1>7. Contents(l) = G[<<next[Head_(l)], N>>]
  BY DEF Contents
<1> HIDE DEF G, Known
<1>8. \A n \in Links \cup {Null}, k \in 0 .. N :
        G[<<n, k>>] = IF n \notin Nodes \/ k = 0 THEN <<>> ELSE <<n>> \o G[<<next[n], k - 1>>]
  <2> SUFFICES ASSUME NEW n \in Links \cup {Null}, NEW k \in 0 .. N
               PROVE  G[<<n, k>>] = IF n \notin Nodes \/ k = 0 THEN <<>> ELSE <<n>> \o G[<<next[n], k - 1>>]
    OBVIOUS
  <2>1. <<n, k>> \in Dom /\ <<n, k>>[1] = n /\ <<n, k>>[2] = k
    OBVIOUS
  <2>2. G[<<n, k>>] = Body(G)[<<n, k>>]
    BY <1>6
  <2> QED
    BY <2>1, <2>2
<1>9. \A k \in 0 .. N : \A i \in Places(c[l]) : G[<<c[l][i], k>>] = Piece(c[l], i, k)
  <2> DEFINE T == {k \in 0 .. N : ~ \A i \in Places(c[l]) : G[<<c[l][i], k>>] = Piece(c[l], i, k)}
  <2> SUFFICES ASSUME T # {} PROVE FALSE
    OBVIOUS
  <2>1. T \subseteq Nat
    OBVIOUS
  <2>2. PICK k \in T : \A h \in T : k <= h
    BY <2>1, LeastNumber
  <2>3. k \in 0 .. N /\ k \in Nat
    BY <1>1
  <2>4. PICK i \in Places(c[l]) : G[<<c[l][i], k>>] # Piece(c[l], i, k)
    OBVIOUS
  <2>5. /\ c[l][i] \in Nodes /\ i \in 1 .. Len(c[l]) /\ c[l] \in Seq(Nodes)
        /\ i = Len(c[l]) => next[c[l][i]] \notin Nodes
        /\ i # Len(c[l]) => next[c[l][i]] = c[l][i + 1] /\ i + 1 \in Places(c[l])
    BY <1>1, <1>3 DEF Places
  <2>6. CASE k = 0
    <3>1. G[<<c[l][i], 0>>] = <<>>
      BY <1>2, <1>8, <2>3, <2>5, <2>6
    <3>2. Piece(c[l], i, 0) = <<>>
      <4>1. 1 \in Nat \ {0}
        OBVIOUS
      <4> QED
        BY <2>5, <4>1, PieceGrows
    <3> QED
      BY <2>4, <2>6, <3>1, <3>2
  <2>7. CASE k # 0
    <3>1. k \in Nat \ {0} /\ k - 1 \in 0 .. N /\ ~(k <= k - 1)
      BY <1>1, <2>3, <2>7
    <3>2. k - 1 \notin T
      BY <2>2, <3>1
    <3>3. \A j \in Places(c[l]) : G[<<c[l][j], k - 1>>] = Piece(c[l], j, k - 1)
      BY <3>1, <3>2
    <3>4. G[<<c[l][i], k>>] = <<c[l][i]>> \o G[<<next[c[l][i]], k - 1>>]
      BY <1>2, <1>8, <2>3, <2>5, <2>7
    <3>5. /\ i = Len(c[l]) => <<c[l][i]>> \o <<>> = Piece(c[l], i, k)
          /\ i # Len(c[l]) => <<c[l][i]>> \o Piece(c[l], i + 1, k - 1) = Piece(c[l], i, k)
      BY <2>5, <3>1, PieceGrows
    <3>6. CASE i = Len(c[l])
      <4>1. next[c[l][i]] \in Links \cup {Null} /\ next[c[l][i]] \notin Nodes
        BY <1>4, <2>5, <3>6
      <4>2. G[<<next[c[l][i]], k - 1>>] = <<>>
        BY <1>8, <3>1, <4>1
      <4> QED
        BY <2>4, <3>4, <3>5, <3>6, <4>2
    <3>7. CASE i # Len(c[l])
      <4>1. G[<<next[c[l][i]], k - 1>>] = Piece(c[l], i + 1, k - 1)
        BY <2>5, <3>3, <3>7
      <4> QED
        BY <2>4, <3>4, <3>5, <3>7, <4>1
    <3> QED
      BY <3>6, <3>7
  <2> QED
    BY <2>6, <2>7
<1>10. next[Head_(l)] = Stop(l, c[l], 1)
  <2>1. next[Stop(l, c[l], 0)] = Stop(l, c[l], 0 + 1)
    BY <1>1 DEF IsContents
  <2>2. Stop(l, c[l], 0) = Head_(l)
    BY DEF Stop
  <2> QED
    BY <2>1, <2>2
<1>11. CASE Len(c[l]) = 0
  <2>1. Stop(l, c[l], 1) = TailOf(pair[l])
    BY <1>11 DEF Stop, Tail_
  <2>2. TailOf(pair[l]) \in Links \cup {Null} /\ TailOf(pair[l]) \notin Nodes /\ N \in 0 .. N
    BY <1>1, Dummy DEF TypeOK
  <2>3. G[<<TailOf(pair[l]), N>>] = <<>>
    BY <1>8, <2>2
  <2>4. c[l] = <<>>
    BY <1>1, <1>11, EmptySeq
  <2> QED
    BY <1>7, <1>10, <2>1, <2>3, <2>4
<1>12. CASE Len(c[l]) # 0
  <2>1. 1 \in Places(c[l]) /\ Stop(l, c[l], 1) = c[l][1] /\ N \in 0 .. N
    BY <1>1, <1>12 DEF Stop, Places
  <2>2. Contents(l) = Piece(c[l], 1, N)
    BY <1>7, <1>9, <1>10, <2>1
  <2>3. Piece(c[l], 1, N) = c[l]
    <3>1. PICK s : s = c[l]
      OBVIOUS
    <3>2. PICK L : L = Len(s)
      OBVIOUS
    <3>3. L \in Nat /\ L <= N /\ s \in [1 .. L -> Nodes]
      BY <1>1, <3>1, <3>2, LenProperties
    <3>4. (IF N <= L + 1 - 1 THEN N ELSE L + 1 - 1) = L
      BY <1>1, <3>3
    <3>5. Piece(s, 1, N) = [j \in 1 .. L |-> s[1 + j - 1]]
      BY <3>2, <3>4 DEF Piece
    <3>6. \A j \in 1 .. L : 1 + j - 1 = j
      BY <3>3
    <3>7. Piece(s, 1, N) = [j \in 1 .. L |-> s[j]]
      BY <3>5, <3>6
    <3> QED
      BY <3>1, <3>3, <3>7
  <2> QED
    BY <2>2, <2>3
<1> QED
  BY <1>11, <1>12

LoopsMeet == \A c : IsContents(c) => All = c

\* LoopsMeetContents for all lists, as a formula.
LEMMA ContentsAre == TypeOK => LoopsMeet
<1> SUFFICES ASSUME TypeOK, NEW c, IsContents(c) PROVE All = c
  BY DEF LoopsMeet
<1>1. \A l \in Lists : Contents(l) = c[l]
  BY LoopsMeetContents
<1>2. c \in [Lists -> Seq(Nodes)]
  BY DEF IsContents
<1> QED
  BY <1>1, <1>2 DEF All

\* The same of the next state.
LEMMA ContentsWillBe == TypeOK' => LoopsMeet'
  BY ContentsAre, PTL

\* A node that is in no list and is linked between two neighbours of a list is
\* put into its sequence.
LEMMA InsertSplices ==
    ASSUME TypeOK, NEW c, IsContents(c), NEW l \in Lists, NEW k \in 1 .. Len(c[l]) + 1,
           NEW n \in Nodes, ~IsListed(c, n),
           NEW d, d = PutIn(c, l, k, n),
           pair' = pair,
           next' = [next EXCEPT ![n] = Stop(l, c[l], k), ![Stop(l, c[l], k - 1)] = n],
           prev' = [prev EXCEPT ![n] = Stop(l, c[l], k - 1), ![Stop(l, c[l], k)] = n]
    PROVE  IsContents(d)'
<1>1. PICK s : s = c[l]
  OBVIOUS
<1>2. PICK L : L = Len(s)
  OBVIOUS
<1>3. PICK t : t = InsertAt(s, k, n)
  OBVIOUS
<1>4. c \in [Lists -> Seq(Nodes)] /\ s \in Seq(Nodes) /\ L \in Nat /\ k \in Nat \ {0} /\ k <= L + 1
  BY <1>1, <1>2, LenProperties DEF IsContents
<1>5. /\ t \in Seq(Nodes) /\ Len(t) = L + 1
      /\ \A j \in 1 .. L + 1 : t[j] = IF j < k THEN s[j] ELSE IF j = k THEN n ELSE s[j - 1]
  <2>1. k \in 1 .. Len(s) + 1
    BY <1>1
  <2>2. IsLonger(t, s, k, n)
    BY <1>3, <1>4, <2>1, InsertAtParts
  <2> QED
    BY <1>2, <2>2 DEF IsLonger
<1>6. d \in [Lists -> Seq(Nodes)] /\ d[l] = t /\ \A m \in Lists : m # l => d[m] = c[m]
  BY <1>1, <1>3, <1>4, <1>5 DEF PutIn, TakenOut
<1>7. PICK A : A = Stop(l, s, k - 1)
  OBVIOUS
<1>8. PICK B : B = Stop(l, s, k)
  OBVIOUS
<1>9. /\ \A m \in Lists : \A j \in 0 .. Len(c[m]) + 1 :
            /\ Stop(m, c[m], j) \in Links /\ Stop(m, c[m], j) # n
            /\ Stop(m, c[m], j) = A => m = l /\ j = k - 1
            /\ Stop(m, c[m], j) = B => m = l /\ j = k
      /\ A \in Links /\ B \in Links /\ A # n /\ B # n
      /\ \A x \in Nodes : ~IsListed(c, x) => x # A /\ x # B
  <2>1. k - 1 \in 0 .. Len(c[l]) + 1 /\ k \in 0 .. Len(c[l]) + 1
    BY <1>1, <1>2, <1>4
  <2>2. /\ \A m \in Lists : \A j \in 0 .. Len(c[m]) + 1 :
            /\ Stop(m, c[m], j) \in Links
            /\ \A x \in Nodes : ~IsListed(c, x) => Stop(m, c[m], j) # x
        /\ \A m, o \in Lists : \A i \in 0 .. Len(c[m]) + 1, j \in 0 .. Len(c[o]) + 1 :
                Stop(m, c[m], i) = Stop(o, c[o], j) => m = o /\ i = j
    BY StopsDiffer
  <2> QED
    BY <1>1, <1>7, <1>8, <2>1, <2>2
<1>10. /\ next' = [next EXCEPT ![n] = B, ![A] = n] /\ prev' = [prev EXCEPT ![n] = A, ![B] = n]
       /\ n \in Links
  BY <1>1, <1>7, <1>8, Dummy
<1>11. /\ next'[n] = B /\ next'[A] = n /\ prev'[n] = A /\ prev'[B] = n
       /\ \A x \in Links : x # n /\ x # A => next'[x] = next[x]
       /\ \A x \in Links : x # n /\ x # B => prev'[x] = prev[x]
  BY <1>9, <1>10 DEF TypeOK
<1>12. \A m \in Lists : \A z, j : Stop(m, z, j)' = Stop(m, z, j)
  BY DEF Stop, Head_, Tail_
<1>13. ASSUME NEW j \in 0 .. L + 2
       PROVE  Stop(l, t, j) = IF j < k THEN Stop(l, s, j) ELSE IF j = k THEN n ELSE Stop(l, s, j - 1)
  <2>1. CASE j = 0
    BY <1>4, <2>1 DEF Stop
  <2>2. CASE j \in 1 .. L + 1
    <3>1. Stop(l, t, j) = t[j] /\ (t[j] = IF j < k THEN s[j] ELSE IF j = k THEN n ELSE s[j - 1])
      <4>1. Stop(l, t, j) = t[j]
        BY <1>4, <1>5, <2>2 DEF Stop
      <4> QED
        BY <1>5, <2>2, <4>1
    <3>2. j < k => Stop(l, s, j) = s[j]
      BY <1>2, <1>4, <2>2 DEF Stop
    <3>3. j > k => Stop(l, s, j - 1) = s[j - 1]
      BY <1>2, <1>4, <2>2 DEF Stop
    <3> QED
      BY <1>4, <2>2, <3>1, <3>2, <3>3
  <2>3. CASE j = L + 2
    <3>1. Stop(l, t, j) = Tail_(l) /\ Stop(l, s, j - 1) = Tail_(l)
      BY <1>2, <1>4, <1>5, <2>3 DEF Stop
    <3> QED
      BY <1>4, <2>3, <3>1
  <2> QED
    BY <1>4, <2>1, <2>2, <2>3
<1>14. ASSUME NEW m \in Lists, NEW j \in 0 .. Len(d[m])
       PROVE  next'[Stop(m, d[m], j)] = Stop(m, d[m], j + 1) /\ prev'[Stop(m, d[m], j + 1)] = Stop(m, d[m], j)
  <2>1. \A o \in Lists : \A i \in 0 .. Len(c[o]) : /\ next[Stop(o, c[o], i)] = Stop(o, c[o], i + 1)
                                                   /\ prev[Stop(o, c[o], i + 1)] = Stop(o, c[o], i)
    BY DEF IsContents
  <2>2. CASE m # l
    <3>1. d[m] = c[m] /\ Len(c[m]) \in Nat
      BY <1>4, <1>6, <2>2, LenProperties
    <3>2. j \in 0 .. Len(c[m]) /\ j \in 0 .. Len(c[m]) + 1 /\ j + 1 \in 0 .. Len(c[m]) + 1
      BY <3>1
    <3>3. /\ Stop(m, c[m], j) \in Links /\ Stop(m, c[m], j) # n /\ Stop(m, c[m], j) # A
          /\ Stop(m, c[m], j + 1) \in Links /\ Stop(m, c[m], j + 1) # n /\ Stop(m, c[m], j + 1) # B
      BY <1>9, <2>2, <3>2
    <3>4. next'[Stop(m, c[m], j)] = Stop(m, c[m], j + 1) /\ prev'[Stop(m, c[m], j + 1)] = Stop(m, c[m], j)
      BY <1>11, <2>1, <3>2, <3>3
    <3> QED
      BY <3>1, <3>4, Zenon
  <2>3. CASE m = l
    <3>1. j \in 0 .. L + 1 /\ d[m] = t
      BY <1>5, <1>6, <2>3
    <3>2. \A i \in 0 .. L + 1 : /\ Stop(l, s, i) \in Links /\ Stop(l, s, i) # n
                                /\ (Stop(l, s, i) = A => i = k - 1)
                                /\ (Stop(l, s, i) = B => i = k)
      BY <1>1, <1>2, <1>9
    <3>3. \A i \in 0 .. L : next[Stop(l, s, i)] = Stop(l, s, i + 1) /\ prev[Stop(l, s, i + 1)] = Stop(l, s, i)
      BY <1>1, <1>2, <2>1
    <3>4. CASE j < k - 1
      <4>1. j < k /\ j + 1 < k /\ j \in 0 .. L /\ j + 1 \in 0 .. L + 1 /\ j \in 0 .. L + 1
            /\ j \in 0 .. L + 2 /\ j + 1 \in 0 .. L + 2
        BY <1>4, <3>1, <3>4
      <4>2. Stop(l, t, j) = Stop(l, s, j) /\ Stop(l, t, j + 1) = Stop(l, s, j + 1)
        BY <1>13, <4>1
      <4>3. /\ Stop(l, s, j) \in Links /\ Stop(l, s, j) # n /\ Stop(l, s, j) # A
            /\ Stop(l, s, j + 1) \in Links /\ Stop(l, s, j + 1) # n /\ Stop(l, s, j + 1) # B
        BY <1>4, <3>2, <3>4, <4>1
      <4> QED
        BY <1>11, <2>3, <3>1, <3>3, <4>1, <4>2, <4>3
    <3>5. CASE j = k - 1
      <4>1. j < k /\ j + 1 = k /\ ~(j + 1 < k) /\ j \in 0 .. L + 2 /\ j + 1 \in 0 .. L + 2
        BY <1>4, <3>1, <3>5
      <4>2. Stop(l, t, j) = A /\ Stop(l, t, j + 1) = n
        BY <1>7, <1>13, <3>5, <4>1
      <4> QED
        BY <1>11, <2>3, <3>1, <4>2
    <3>6. CASE j = k
      <4>1. ~(j < k) /\ ~(j + 1 < k) /\ j + 1 # k /\ j + 1 - 1 = k /\ j \in 0 .. L + 2 /\ j + 1 \in 0 .. L + 2
        BY <1>4, <3>1, <3>6
      <4>2. Stop(l, t, j) = n /\ Stop(l, t, j + 1) = B
        BY <1>8, <1>13, <3>6, <4>1
      <4> QED
        BY <1>11, <2>3, <3>1, <4>2
    <3>7. CASE j > k
      <4>1. /\ ~(j < k) /\ j # k /\ ~(j + 1 < k) /\ j + 1 # k /\ j + 1 - 1 = j /\ j - 1 + 1 = j
            /\ j - 1 \in 0 .. L /\ j - 1 \in 0 .. L + 1 /\ j \in 0 .. L + 1
            /\ j \in 0 .. L + 2 /\ j + 1 \in 0 .. L + 2 /\ j - 1 # k - 1
        BY <1>4, <3>1, <3>7
      <4>2. Stop(l, t, j) = Stop(l, s, j - 1) /\ Stop(l, t, j + 1) = Stop(l, s, j)
        BY <1>13, <4>1
      <4>3. /\ Stop(l, s, j - 1) \in Links /\ Stop(l, s, j - 1) # n /\ Stop(l, s, j - 1) # A
            /\ Stop(l, s, j) \in Links /\ Stop(l, s, j) # n /\ Stop(l, s, j) # B
        BY <3>2, <4>1
      <4>4. next[Stop(l, s, j - 1)] = Stop(l, s, j) /\ prev[Stop(l, s, j)] = Stop(l, s, j - 1)
        BY <3>3, <4>1
      <4> QED
        BY <1>11, <2>3, <3>1, <4>2, <4>3, <4>4
    <3> QED
      BY <1>4, <3>1, <3>4, <3>5, <3>6, <3>7
  <2> QED
    BY <2>2, <2>3
<1>15. ASSUME NEW i \in Places(t)
       PROVE  \/ i = k /\ t[i] = n
              \/ i < k /\ i \in Places(s) /\ t[i] = s[i]
              \/ i > k /\ i - 1 \in Places(s) /\ t[i] = s[i - 1]
  BY <1>2, <1>4, <1>5 DEF Places
<1>16. \A m \in Lists : \A i \in Places(c[m]) : c[m][i] # n
  BY DEF IsListed
<1>17. ASSUME NEW m \in Lists, NEW o \in Lists, NEW i \in Places(d[m]), NEW j \in Places(d[o]), d[m][i] = d[o][j]
       PROVE  m = o /\ i = j
  <2>1. \A p, q \in Lists : \A x \in Places(c[p]), y \in Places(c[q]) : c[p][x] = c[q][y] => p = q /\ x = y
    BY DEF IsContents
  <2>2. CASE m # l /\ o # l
    <3>1. d[m] = c[m] /\ d[o] = c[o]
      BY <1>6, <2>2
    <3>2. i \in Places(c[m]) /\ j \in Places(c[o]) /\ c[m][i] = c[o][j]
      BY <1>17, <3>1, Zenon
    <3> QED
      BY <2>1, <3>2
  <2>3. CASE m = l /\ o # l
    <3>1. d[o] = c[o] /\ j \in Places(c[o]) /\ i \in Places(t) /\ t[i] = c[o][j]
      BY <1>6, <1>17, <2>3
    <3> QED
      BY <1>1, <1>15, <1>16, <2>1, <2>3, <3>1
  <2>4. CASE m # l /\ o = l
    <3>1. d[m] = c[m] /\ i \in Places(c[m]) /\ j \in Places(t) /\ t[j] = c[m][i]
      BY <1>6, <1>17, <2>4
    <3> QED
      BY <1>1, <1>15, <1>16, <2>1, <2>4, <3>1
  <2>5. CASE m = l /\ o = l
    <3>1. i \in Places(t) /\ j \in Places(t) /\ t[i] = t[j] /\ i \in Nat /\ j \in Nat
      BY <1>4, <1>5, <1>6, <1>17, <2>5 DEF Places
    <3>2. \A x, y \in Places(s) : s[x] = s[y] => x = y
      BY <1>1, <2>1
    <3>3. \A x \in Places(s) : s[x] # n
      BY <1>1, <1>16
    <3>4. /\ \/ i = k /\ t[i] = n
             \/ i < k /\ i \in Places(s) /\ t[i] = s[i]
             \/ i > k /\ i - 1 \in Places(s) /\ t[i] = s[i - 1]
          /\ \/ j = k /\ t[j] = n
             \/ j < k /\ j \in Places(s) /\ t[j] = s[j]
             \/ j > k /\ j - 1 \in Places(s) /\ t[j] = s[j - 1]
      BY <1>15, <3>1
    <3> QED
      BY <1>4, <2>5, <3>1, <3>2, <3>3, <3>4
  <2> QED
    BY <2>2, <2>3, <2>4, <2>5
<1>18. ASSUME NEW x \in Nodes, ~IsListed(d, x) PROVE next'[x] = Null /\ prev'[x] = Null
  <2>1. x # n
    <3>1. k \in Places(t) /\ t[k] = n
      BY <1>4, <1>5 DEF Places
    <3> QED
      BY <1>6, <1>18, <3>1 DEF IsListed
  <2>2. ASSUME NEW m \in Lists, NEW i \in Places(c[m]) PROVE c[m][i] # x
    <3>1. CASE m # l
      BY <1>6, <1>18, <3>1 DEF IsListed
    <3>2. CASE m = l
      <4>1. i \in 1 .. L /\ c[m][i] = s[i]
        BY <1>1, <1>2, <3>2 DEF Places
      <4>2. i < k => i \in 1 .. L + 1 /\ t[i] = s[i]
        BY <1>4, <1>5, <4>1
      <4>3. ~(i < k) => i + 1 \in 1 .. L + 1 /\ t[i + 1] = s[i]
        BY <1>4, <1>5, <4>1
      <4>4. \A j \in 1 .. L + 1 : t[j] # x
        BY <1>5, <1>6, <1>18 DEF IsListed, Places
      <4> QED
        BY <4>1, <4>2, <4>3, <4>4
    <3> QED
      BY <3>1, <3>2
  <2>3. ~IsListed(c, x)
    BY <2>2 DEF IsListed
  <2> QED
    BY <1>9, <1>11, <2>1, <2>3, Dummy DEF IsContents
<1>19. \A m, o \in Lists : pair'[m] = pair'[o] => m = o
  BY DEF IsContents
<1>20. \A x : IsListed(d, x)' <=> IsListed(d, x)
  BY DEF IsListed
<1>21. ASSUME NEW m \in Lists, NEW j \in 0 .. Len(d[m])
       PROVE  next'[Stop(m, d[m], j)'] = Stop(m, d[m], j + 1)' /\ prev'[Stop(m, d[m], j + 1)'] = Stop(m, d[m], j)'
  <2>1. Stop(m, d[m], j)' = Stop(m, d[m], j) /\ Stop(m, d[m], j + 1)' = Stop(m, d[m], j + 1)
    BY <1>12, Zenon
  <2> QED
    BY <1>14, <2>1, ZenonT(30)
<1>22. \A x \in Nodes : ~IsListed(d, x)' => next'[x] = Null /\ prev'[x] = Null
  BY <1>18, <1>20
<1>23. \A m, o \in Lists : \A i \in Places(d[m]), j \in Places(d[o]) : d[m][i] = d[o][j] => m = o /\ i = j
  BY <1>17, Zenon
<1> HIDE DEF IsListed
<1> QED
  BY <1>6, <1>19, <1>21, <1>22, <1>23, Zenon DEF IsContents

\* A node of a list whose neighbours are linked to each other is taken out of its
\* sequence.
LEMMA RemoveSplices ==
    ASSUME TypeOK, NEW c, IsContents(c), NEW l \in Lists, NEW k \in 1 .. Len(c[l]),
           NEW n, n = c[l][k],
           NEW d, d = TakenOut(c, l, k),
           pair' = pair,
           next' = [next EXCEPT ![Stop(l, c[l], k - 1)] = Stop(l, c[l], k + 1), ![n] = Null],
           prev' = [prev EXCEPT ![Stop(l, c[l], k + 1)] = Stop(l, c[l], k - 1), ![n] = Null]
    PROVE  IsContents(d)'
<1>1. PICK s : s = c[l]
  OBVIOUS
<1>2. PICK L : L = Len(s)
  OBVIOUS
<1>3. PICK t : t = RemoveAt(s, k)
  OBVIOUS
<1>4. c \in [Lists -> Seq(Nodes)] /\ s \in Seq(Nodes) /\ L \in Nat /\ k \in Nat \ {0} /\ k <= L
  BY <1>1, <1>2, LenProperties DEF IsContents
<1>5. /\ t \in Seq(Nodes) /\ Len(t) = L - 1
      /\ \A j \in 1 .. L - 1 : t[j] = IF j < k THEN s[j] ELSE s[j + 1]
  <2>1. s \in Seq(Nodes) /\ k \in 1 .. Len(s)
    BY <1>1, <1>4
  <2>2. IsShorter(t, s, k)
    BY <1>3, <2>1, RemoveAtParts
  <2> QED
    BY <1>2, <2>2 DEF IsShorter
<1>6. d \in [Lists -> Seq(Nodes)] /\ d[l] = t /\ \A m \in Lists : m # l => d[m] = c[m]
  BY <1>1, <1>3, <1>4, <1>5 DEF PutIn, TakenOut
<1>7. PICK A : A = Stop(l, s, k - 1)
  OBVIOUS
<1>8. PICK B : B = Stop(l, s, k + 1)
  OBVIOUS
<1>9. Stop(l, s, k) = n /\ n \in Nodes
  <2>1. Stop(l, s, k) = s[k]
    BY <1>2, <1>4 DEF Stop
  <2> QED
    BY <1>1, <1>2, <1>4, <2>1, ElementOfSeq
<1>10. /\ \A m \in Lists : \A j \in 0 .. Len(c[m]) + 1 :
            /\ Stop(m, c[m], j) \in Links
            /\ Stop(m, c[m], j) = n => m = l /\ j = k
            /\ Stop(m, c[m], j) = A => m = l /\ j = k - 1
            /\ Stop(m, c[m], j) = B => m = l /\ j = k + 1
       /\ A \in Links /\ B \in Links /\ n \in Links /\ A # n /\ B # n
       /\ \A x \in Nodes : ~IsListed(c, x) => x # A /\ x # B
  <2>1. /\ k - 1 \in 0 .. Len(c[l]) + 1 /\ k \in 0 .. Len(c[l]) + 1 /\ k + 1 \in 0 .. Len(c[l]) + 1
        /\ k - 1 # k /\ k + 1 # k
    BY <1>1, <1>2, <1>4
  <2>2. /\ \A m \in Lists : \A j \in 0 .. Len(c[m]) + 1 :
            /\ Stop(m, c[m], j) \in Links
            /\ \A x \in Nodes : ~IsListed(c, x) => Stop(m, c[m], j) # x
        /\ \A m, o \in Lists : \A i \in 0 .. Len(c[m]) + 1, j \in 0 .. Len(c[o]) + 1 :
                Stop(m, c[m], i) = Stop(o, c[o], j) => m = o /\ i = j
    BY StopsDiffer
  <2> QED
    BY <1>1, <1>7, <1>8, <1>9, <2>1, <2>2
<1>11. /\ next' = [next EXCEPT ![A] = B, ![n] = Null] /\ prev' = [prev EXCEPT ![B] = A, ![n] = Null]
  BY <1>1, <1>7, <1>8
<1>12. /\ next'[A] = B /\ next'[n] = Null /\ prev'[B] = A /\ prev'[n] = Null
       /\ \A x \in Links : x # n /\ x # A => next'[x] = next[x]
       /\ \A x \in Links : x # n /\ x # B => prev'[x] = prev[x]
  BY <1>10, <1>11 DEF TypeOK
<1>13. \A m \in Lists : \A z, j : Stop(m, z, j)' = Stop(m, z, j)
  BY DEF Stop, Head_, Tail_
<1>14. ASSUME NEW j \in 0 .. L
       PROVE  Stop(l, t, j) = IF j < k THEN Stop(l, s, j) ELSE Stop(l, s, j + 1)
  <2>1. CASE j = 0
    BY <1>4, <2>1 DEF Stop
  <2>2. CASE j \in 1 .. L - 1
    <3>1. Stop(l, t, j) = t[j] /\ (t[j] = IF j < k THEN s[j] ELSE s[j + 1])
      <4>1. Stop(l, t, j) = t[j]
        BY <1>4, <1>5, <2>2 DEF Stop
      <4> QED
        BY <1>5, <2>2, <4>1
    <3>2. Stop(l, s, j) = s[j]
      BY <1>2, <1>4, <2>2 DEF Stop
    <3>3. Stop(l, s, j + 1) = s[j + 1]
      BY <1>2, <1>4, <2>2 DEF Stop
    <3> QED
      BY <1>4, <2>2, <3>1, <3>2, <3>3
  <2>3. CASE j = L /\ j # 0
    <3>1. Stop(l, t, j) = Tail_(l) /\ Stop(l, s, j + 1) = Tail_(l) /\ ~(j < k)
      BY <1>2, <1>4, <1>5, <2>3 DEF Stop
    <3> QED
      BY <3>1
  <2> QED
    BY <1>4, <2>1, <2>2, <2>3
<1>15. ASSUME NEW m \in Lists, NEW j \in 0 .. Len(d[m])
       PROVE  next'[Stop(m, d[m], j)] = Stop(m, d[m], j + 1) /\ prev'[Stop(m, d[m], j + 1)] = Stop(m, d[m], j)
  <2>1. \A o \in Lists : \A i \in 0 .. Len(c[o]) : /\ next[Stop(o, c[o], i)] = Stop(o, c[o], i + 1)
                                                   /\ prev[Stop(o, c[o], i + 1)] = Stop(o, c[o], i)
    BY DEF IsContents
  <2>2. CASE m # l
    <3>1. d[m] = c[m] /\ Len(c[m]) \in Nat
      BY <1>4, <1>6, <2>2, LenProperties
    <3>2. j \in 0 .. Len(c[m]) /\ j \in 0 .. Len(c[m]) + 1 /\ j + 1 \in 0 .. Len(c[m]) + 1
      BY <3>1
    <3>3. /\ Stop(m, c[m], j) \in Links /\ Stop(m, c[m], j) # n /\ Stop(m, c[m], j) # A
          /\ Stop(m, c[m], j + 1) \in Links /\ Stop(m, c[m], j + 1) # n /\ Stop(m, c[m], j + 1) # B
      BY <1>10, <2>2, <3>2
    <3>4. next'[Stop(m, c[m], j)] = Stop(m, c[m], j + 1) /\ prev'[Stop(m, c[m], j + 1)] = Stop(m, c[m], j)
      BY <1>12, <2>1, <3>2, <3>3
    <3> QED
      BY <3>1, <3>4, Zenon
  <2>3. CASE m = l
    <3>1. j \in 0 .. L - 1 /\ d[m] = t
      BY <1>5, <1>6, <2>3
    <3>2. \A i \in 0 .. L + 1 : /\ Stop(l, s, i) \in Links
                                /\ (Stop(l, s, i) = n => i = k)
                                /\ (Stop(l, s, i) = A => i = k - 1)
                                /\ (Stop(l, s, i) = B => i = k + 1)
      BY <1>1, <1>2, <1>10
    <3>3. \A i \in 0 .. L : next[Stop(l, s, i)] = Stop(l, s, i + 1) /\ prev[Stop(l, s, i + 1)] = Stop(l, s, i)
      BY <1>1, <1>2, <2>1
    <3>4. CASE j < k - 1
      <4>1. j < k /\ j + 1 < k /\ j \in 0 .. L /\ j + 1 \in 0 .. L /\ j + 1 \in 0 .. L + 1 /\ j \in 0 .. L + 1
        BY <1>4, <3>1, <3>4
      <4>2. Stop(l, t, j) = Stop(l, s, j) /\ Stop(l, t, j + 1) = Stop(l, s, j + 1)
        BY <1>14, <4>1
      <4>3. /\ Stop(l, s, j) \in Links /\ Stop(l, s, j) # n /\ Stop(l, s, j) # A
            /\ Stop(l, s, j + 1) \in Links /\ Stop(l, s, j + 1) # n /\ Stop(l, s, j + 1) # B
        BY <1>4, <3>2, <3>4, <4>1
      <4> QED
        BY <1>12, <2>3, <3>1, <3>3, <4>1, <4>2, <4>3
    <3>5. CASE j = k - 1
      <4>1. j < k /\ j + 1 = k /\ ~(j + 1 < k) /\ j \in 0 .. L /\ j + 1 \in 0 .. L
        BY <1>4, <3>1, <3>5
      <4>2. Stop(l, t, j) = A /\ Stop(l, t, j + 1) = B
        BY <1>7, <1>8, <1>14, <3>5, <4>1
      <4> QED
        BY <1>12, <2>3, <3>1, <4>2
    <3>6. CASE j > k - 1
      <4>1. /\ ~(j < k) /\ ~(j + 1 < k) /\ j \in 0 .. L /\ j + 1 \in 0 .. L
            /\ j + 1 \in 0 .. L + 1 /\ j + 1 + 1 \in 0 .. L + 1
            /\ j + 1 # k /\ j + 1 # k - 1 /\ j + 1 + 1 # k /\ j + 1 + 1 # k + 1
        BY <1>4, <3>1, <3>6
      <4>2. Stop(l, t, j) = Stop(l, s, j + 1) /\ Stop(l, t, j + 1) = Stop(l, s, j + 1 + 1)
        BY <1>14, <4>1
      <4>3. /\ Stop(l, s, j + 1) \in Links /\ Stop(l, s, j + 1) # n /\ Stop(l, s, j + 1) # A
            /\ Stop(l, s, j + 1 + 1) \in Links /\ Stop(l, s, j + 1 + 1) # n /\ Stop(l, s, j + 1 + 1) # B
        BY <3>2, <4>1
      <4>4. /\ next[Stop(l, s, j + 1)] = Stop(l, s, j + 1 + 1)
            /\ prev[Stop(l, s, j + 1 + 1)] = Stop(l, s, j + 1)
        BY <3>3, <4>1
      <4> QED
        BY <1>12, <2>3, <3>1, <4>2, <4>3, <4>4
    <3> QED
      BY <1>4, <3>1, <3>4, <3>5, <3>6
  <2> QED
    BY <2>2, <2>3
<1>16. ASSUME NEW i \in Places(t)
       PROVE  \/ i < k /\ i \in Places(s) /\ t[i] = s[i]
              \/ i >= k /\ i + 1 \in Places(s) /\ t[i] = s[i + 1]
  <2>1. i \in 1 .. L - 1
    BY <1>5 DEF Places
  <2>2. t[i] = IF i < k THEN s[i] ELSE s[i + 1]
    BY <1>5, <2>1
  <2>3. i \in 1 .. Len(s) /\ i + 1 \in 1 .. Len(s)
    BY <1>2, <1>4, <2>1
  <2> QED
    BY <1>4, <2>1, <2>2, <2>3 DEF Places
<1>17. ASSUME NEW m \in Lists, NEW o \in Lists, NEW i \in Places(d[m]), NEW j \in Places(d[o]), d[m][i] = d[o][j]
       PROVE  m = o /\ i = j
  <2>1. \A p, q \in Lists : \A x \in Places(c[p]), y \in Places(c[q]) : c[p][x] = c[q][y] => p = q /\ x = y
    BY DEF IsContents
  <2>2. CASE m # l /\ o # l
    <3>1. d[m] = c[m] /\ d[o] = c[o]
      BY <1>6, <2>2
    <3>2. i \in Places(c[m]) /\ j \in Places(c[o]) /\ c[m][i] = c[o][j]
      BY <1>17, <3>1, Zenon
    <3> QED
      BY <2>1, <3>2
  <2>3. CASE m = l /\ o # l
    <3>1. d[o] = c[o] /\ j \in Places(c[o]) /\ i \in Places(t) /\ t[i] = c[o][j]
      BY <1>6, <1>17, <2>3
    <3> QED
      BY <1>1, <1>16, <2>1, <2>3, <3>1
  <2>4. CASE m # l /\ o = l
    <3>1. d[m] = c[m] /\ i \in Places(c[m]) /\ j \in Places(t) /\ t[j] = c[m][i]
      BY <1>6, <1>17, <2>4
    <3> QED
      BY <1>1, <1>16, <2>1, <2>4, <3>1
  <2>5. CASE m = l /\ o = l
    <3>1. i \in Places(t) /\ j \in Places(t) /\ t[i] = t[j] /\ i \in Nat /\ j \in Nat
      BY <1>4, <1>5, <1>6, <1>17, <2>5 DEF Places
    <3>2. \A x, y \in Places(s) : s[x] = s[y] => x = y
      BY <1>1, <2>1
    <3>3. /\ \/ i < k /\ i \in Places(s) /\ t[i] = s[i]
             \/ i >= k /\ i + 1 \in Places(s) /\ t[i] = s[i + 1]
          /\ \/ j < k /\ j \in Places(s) /\ t[j] = s[j]
             \/ j >= k /\ j + 1 \in Places(s) /\ t[j] = s[j + 1]
      BY <1>16, <3>1
    <3> QED
      BY <1>4, <2>5, <3>1, <3>2, <3>3
  <2> QED
    BY <2>2, <2>3, <2>4, <2>5
<1>18. ASSUME NEW x \in Nodes, ~IsListed(d, x) PROVE next'[x] = Null /\ prev'[x] = Null
  <2>1. CASE x = n
    BY <1>12, <2>1
  <2>2. CASE x # n
    <3>1. ASSUME NEW m \in Lists, NEW i \in Places(c[m]) PROVE c[m][i] # x
      <4>1. CASE m # l
        BY <1>6, <1>18, <4>1 DEF IsListed
      <4>2. CASE m = l
        <5>1. i \in 1 .. L /\ c[m][i] = s[i]
          BY <1>1, <1>2, <4>2 DEF Places
        <5>2. \A j \in 1 .. L - 1 : t[j] # x
          BY <1>5, <1>6, <1>18 DEF IsListed, Places
        <5>3. i < k => i \in 1 .. L - 1 /\ t[i] = s[i]
          BY <1>4, <1>5, <5>1
        <5>4. i > k => i - 1 \in 1 .. L - 1 /\ t[i - 1] = s[i]
          <6> SUFFICES ASSUME i > k PROVE i - 1 \in 1 .. L - 1 /\ t[i - 1] = s[i]
            OBVIOUS
          <6>1. i - 1 \in 1 .. L - 1 /\ ~(i - 1 < k) /\ i - 1 + 1 = i
            BY <1>4, <5>1
          <6>2. t[i - 1] = s[i - 1 + 1]
            BY <1>5, <6>1
          <6> QED
            BY <6>1, <6>2
        <5>5. i = k => c[m][i] = n
          BY <4>2
        <5> QED
          BY <1>4, <2>2, <5>1, <5>2, <5>3, <5>4, <5>5
      <4> QED
        BY <4>1, <4>2
    <3>2. ~IsListed(c, x)
      BY <3>1 DEF IsListed
    <3> QED
      BY <1>10, <1>12, <2>2, <3>2, Dummy DEF IsContents
  <2> QED
    BY <2>1, <2>2
<1>19. \A m, o \in Lists : pair'[m] = pair'[o] => m = o
  BY DEF IsContents
<1>20. \A x : IsListed(d, x)' <=> IsListed(d, x)
  BY DEF IsListed
<1>21. ASSUME NEW m \in Lists, NEW j \in 0 .. Len(d[m])
       PROVE  next'[Stop(m, d[m], j)'] = Stop(m, d[m], j + 1)' /\ prev'[Stop(m, d[m], j + 1)'] = Stop(m, d[m], j)'
  <2>1. Stop(m, d[m], j)' = Stop(m, d[m], j) /\ Stop(m, d[m], j + 1)' = Stop(m, d[m], j + 1)
    BY <1>13, Zenon
  <2> QED
    BY <1>15, <2>1, ZenonT(30)
<1>22. \A x \in Nodes : ~IsListed(d, x)' => next'[x] = Null /\ prev'[x] = Null
  BY <1>18, <1>20
<1>23. \A m, o \in Lists : \A i \in Places(d[m]), j \in Places(d[o]) : d[m][i] = d[o][j] => m = o /\ i = j
  BY <1>17, Zenon
<1> HIDE DEF IsListed
<1> QED
  BY <1>6, <1>19, <1>21, <1>22, <1>23, Zenon DEF IsContents

-----------------------------------------------------------------------------
(***************************************************************************)
(* The invariant of the next state, and what the guards see of it.         *)
(***************************************************************************)
SomeInv == \E c : Inv(c)

\* The invariant may be shown of any sequences: those the loops visit are the ones.
LEMMA IInvIs == TypeOK /\ SomeInv => IInv
<1> SUFFICES ASSUME TypeOK, SomeInv PROVE IInv
  OBVIOUS
<1>1. PICK c : Inv(c)
  BY DEF SomeInv
<1>2. All = c
  BY <1>1, ContentsAre DEF LoopsMeet, Inv
<1> QED
  BY <1>1, <1>2, Zenon DEF IInv

\* The same of the next state.
LEMMA IInvWillBe == TypeOK' /\ SomeInv' => IInv'
  BY IInvIs, PTL

\* What Contents, Linked and Free are when the links are those of c.
LEMMA Seen ==
    ASSUME TypeOK, NEW c, IsContents(c)
    PROVE  /\ \A l \in Lists : Contents(l) = c[l]
           /\ \A l \in Lists : ToSet(c[l]) = {c[l][i] : i \in Places(c[l])}
           /\ \A n \in Nodes : n \in Linked <=> IsListed(c, n)
           /\ \A n \in Nodes : n \in Free <=> ~IsListed(c, n) /\ n \notin dropped
<1>1. \A l \in Lists : Contents(l) = c[l]
  BY LoopsMeetContents
<1>2. ASSUME NEW l \in Lists PROVE ToSet(c[l]) = {c[l][i] : i \in Places(c[l])}
  <2>1. DOMAIN c[l] = Places(c[l])
    BY LenProperties DEF IsContents, Places
  <2> QED
    BY <2>1 DEF ToSet
<1>3. ASSUME NEW n \in Nodes PROVE n \in Linked <=> IsListed(c, n)
  <2>1. n \in Linked <=> \E l \in Lists : n \in ToSet(Contents(l))
    BY DEF Linked
  <2>2. \A l \in Lists : n \in ToSet(Contents(l)) <=> \E i \in Places(c[l]) : c[l][i] = n
    BY <1>1, <1>2
  <2> QED
    BY <2>1, <2>2 DEF IsListed
<1> QED
  BY <1>1, <1>2, <1>3 DEF Free

\* d is c with n more at place k of l.
HasGained(c, d, l, k, n) ==
    /\ d \in [Lists -> Seq(Nodes)] /\ \A m \in Lists : m # l => d[m] = c[m]
    /\ Len(c[l]) \in Nat /\ Len(d[l]) = Len(c[l]) + 1
    /\ k \in Places(d[l]) /\ d[l][k] = n
    /\ \A i \in Places(c[l]) : /\ i < k => i \in Places(d[l]) /\ d[l][i] = c[l][i]
                               /\ i >= k => i + 1 \in Places(d[l]) /\ d[l][i + 1] = c[l][i]
    /\ \A i \in Places(d[l]) : \/ i = k
                               \/ i < k /\ i \in Places(c[l]) /\ d[l][i] = c[l][i]
                               \/ i > k /\ i - 1 \in Places(c[l]) /\ d[l][i] = c[l][i - 1]
    /\ \A x : IsListed(d, x) <=> IsListed(c, x) \/ x = n

\* d is c without the node at place k of l.
HasLost(c, d, l, k) ==
    /\ d \in [Lists -> Seq(Nodes)] /\ \A m \in Lists : m # l => d[m] = c[m]
    /\ Len(c[l]) \in Nat /\ Len(d[l]) = Len(c[l]) - 1
    /\ \A i \in Places(c[l]) : /\ i < k => i \in Places(d[l]) /\ d[l][i] = c[l][i]
                               /\ i > k => i - 1 \in Places(d[l]) /\ d[l][i - 1] = c[l][i]
    /\ \A i \in Places(d[l]) : \/ i < k /\ i \in Places(c[l]) /\ d[l][i] = c[l][i]
                               \/ i >= k /\ i + 1 \in Places(c[l]) /\ d[l][i] = c[l][i + 1]
    /\ \A x : IsListed(d, x) <=> IsListed(c, x) /\ x # c[l][k]

\* What is in the lists once a node is put into one of them.
LEMMA Inserted ==
    ASSUME NEW c \in [Lists -> Seq(Nodes)], NEW l \in Lists, NEW k \in 1 .. Len(c[l]) + 1,
           NEW n \in Nodes, NEW d, d = PutIn(c, l, k, n)
    PROVE  HasGained(c, d, l, k, n)
<1>1. PICK s : s = c[l]
  OBVIOUS
<1>2. PICK L : L = Len(s)
  OBVIOUS
<1>3. PICK t : t = InsertAt(s, k, n)
  OBVIOUS
<1>4. s \in Seq(Nodes) /\ L \in Nat /\ k \in Nat \ {0} /\ k <= L + 1
  BY <1>1, <1>2, LenProperties
<1>5. /\ t \in Seq(Nodes) /\ Len(t) = L + 1
      /\ \A j \in 1 .. L + 1 : t[j] = IF j < k THEN s[j] ELSE IF j = k THEN n ELSE s[j - 1]
  <2>1. k \in 1 .. Len(s) + 1
    BY <1>1
  <2>2. IsLonger(t, s, k, n)
    BY <1>3, <1>4, <2>1, InsertAtParts
  <2> QED
    BY <1>2, <2>2 DEF IsLonger
<1>6. d \in [Lists -> Seq(Nodes)] /\ d[l] = t /\ \A m \in Lists : m # l => d[m] = c[m]
  BY <1>1, <1>3, <1>4, <1>5 DEF PutIn, TakenOut
<1>7. Len(d[l]) = L + 1 /\ k \in 1 .. L + 1 /\ t[k] = n
  BY <1>4, <1>5, <1>6
<1>8. ASSUME NEW i \in 1 .. L
      PROVE  /\ i < k => i \in 1 .. L + 1 /\ t[i] = s[i]
             /\ i >= k => i + 1 \in 1 .. L + 1 /\ t[i + 1] = s[i]
  BY <1>4, <1>5
<1>9. ASSUME NEW i \in 1 .. L + 1
      PROVE  \/ i = k
             \/ i < k /\ i \in 1 .. L /\ t[i] = s[i]
             \/ i > k /\ i - 1 \in 1 .. L /\ t[i] = s[i - 1]
  BY <1>4, <1>5
<1>10. Places(c[l]) = 1 .. L /\ Places(d[l]) = 1 .. L + 1
  BY <1>1, <1>2, <1>7 DEF Places
<1>11. ASSUME NEW x PROVE IsListed(d, x) <=> IsListed(c, x) \/ x = n
  <2>1. ASSUME NEW m \in Lists, NEW i \in Places(d[m]), d[m][i] = x PROVE IsListed(c, x) \/ x = n
    <3>1. CASE m # l
      BY <1>6, <2>1, <3>1 DEF IsListed
    <3>2. CASE m = l
      BY <1>1, <1>6, <1>7, <1>9, <1>10, <2>1, <3>2 DEF IsListed
    <3> QED
      BY <3>1, <3>2
  <2>2. ASSUME NEW m \in Lists, NEW i \in Places(c[m]), c[m][i] = x PROVE IsListed(d, x)
    <3>1. CASE m # l
      BY <1>6, <2>2, <3>1 DEF IsListed
    <3>2. CASE m = l
      <4>1. i \in 1 .. L /\ (i < k \/ i >= k) /\ s[i] = x
        BY <1>1, <1>4, <1>10, <2>2, <3>2
      <4>2. \E j \in Places(d[l]) : d[l][j] = x
        BY <1>6, <1>8, <1>10, <4>1
      <4> QED
        BY <4>2 DEF IsListed
    <3> QED
      BY <3>1, <3>2
  <2>3. IsListed(d, n)
    BY <1>6, <1>7, <1>10 DEF IsListed
  <2> QED
    BY <2>1, <2>2, <2>3 DEF IsListed
<1> HIDE DEF IsListed
<1> QED
  BY <1>1, <1>2, <1>4, <1>6, <1>7, <1>8, <1>9, <1>10, <1>11 DEF HasGained

\* What is in the lists once a node is taken out of one of them.
LEMMA Removed ==
    ASSUME NEW c \in [Lists -> Seq(Nodes)], NEW l \in Lists, NEW k \in 1 .. Len(c[l]),
           \A m, o \in Lists : \A i \in Places(c[m]), j \in Places(c[o]) : c[m][i] = c[o][j] => m = o /\ i = j,
           NEW d, d = TakenOut(c, l, k)
    PROVE  HasLost(c, d, l, k)
<1>1. PICK s : s = c[l]
  OBVIOUS
<1>2. PICK L : L = Len(s)
  OBVIOUS
<1>3. PICK t : t = RemoveAt(s, k)
  OBVIOUS
<1>4. s \in Seq(Nodes) /\ L \in Nat /\ k \in Nat \ {0} /\ k <= L
  BY <1>1, <1>2, LenProperties
<1>5. /\ t \in Seq(Nodes) /\ Len(t) = L - 1
      /\ \A j \in 1 .. L - 1 : t[j] = IF j < k THEN s[j] ELSE s[j + 1]
  <2>1. s \in Seq(Nodes) /\ k \in 1 .. Len(s)
    BY <1>1, <1>4
  <2>2. IsShorter(t, s, k)
    BY <1>3, <2>1, RemoveAtParts
  <2> QED
    BY <1>2, <2>2 DEF IsShorter
<1>6. d \in [Lists -> Seq(Nodes)] /\ d[l] = t /\ \A m \in Lists : m # l => d[m] = c[m]
  BY <1>1, <1>3, <1>4, <1>5 DEF PutIn, TakenOut
<1>7. Len(d[l]) = L - 1 /\ k \in 1 .. L
  BY <1>4, <1>5, <1>6
<1>8. ASSUME NEW i \in 1 .. L
      PROVE  /\ i < k => i \in 1 .. L - 1 /\ t[i] = s[i]
             /\ i > k => i - 1 \in 1 .. L - 1 /\ t[i - 1] = s[i]
  <2>1. CASE i < k
    BY <1>4, <1>5, <2>1
  <2>2. CASE i > k
    <3>1. i - 1 \in 1 .. L - 1 /\ ~(i - 1 < k) /\ i - 1 + 1 = i
      BY <1>4, <2>2
    <3>2. t[i - 1] = s[i - 1 + 1]
      BY <1>5, <3>1
    <3> QED
      BY <1>4, <2>2, <3>1, <3>2
  <2> QED
    BY <2>1, <2>2
<1>9. ASSUME NEW i \in 1 .. L - 1
      PROVE  \/ i < k /\ i \in 1 .. L /\ t[i] = s[i]
             \/ i >= k /\ i + 1 \in 1 .. L /\ t[i] = s[i + 1]
  BY <1>4, <1>5
<1>10. Places(c[l]) = 1 .. L /\ Places(d[l]) = 1 .. L - 1
  BY <1>1, <1>2, <1>7 DEF Places
<1>11. ASSUME NEW x PROVE IsListed(d, x) <=> IsListed(c, x) /\ x # c[l][k]
  <2>1. ASSUME NEW m \in Lists, NEW i \in Places(d[m]), d[m][i] = x PROVE IsListed(c, x) /\ x # c[l][k]
    <3>1. CASE m # l
      <4>1. c[m][i] = x /\ i \in Places(c[m])
        BY <1>6, <2>1, <3>1
      <4> QED
        BY <1>7, <1>10, <3>1, <4>1 DEF IsListed
    <3>2. CASE m = l
      <4>1. PICK j \in Places(c[l]) : j # k /\ c[l][j] = x
        <5>1. i \in 1 .. L - 1 /\ t[i] = x
          BY <1>6, <1>10, <2>1, <3>2
        <5>2. CASE i < k /\ i \in 1 .. L /\ t[i] = s[i]
          <6>1. i \in Places(c[l]) /\ i # k /\ c[l][i] = x
            BY <1>1, <1>4, <1>10, <5>1, <5>2
          <6> QED
            BY <6>1
        <5>3. CASE i >= k /\ i + 1 \in 1 .. L /\ t[i] = s[i + 1]
          <6>1. i + 1 \in Places(c[l]) /\ i + 1 # k /\ c[l][i + 1] = x
            BY <1>1, <1>4, <1>10, <5>1, <5>3
          <6> QED
            BY <6>1
        <5> QED
          BY <1>9, <5>1, <5>2, <5>3
      <4> QED
        BY <1>7, <1>10, <4>1 DEF IsListed
    <3> QED
      BY <3>1, <3>2
  <2>2. ASSUME NEW m \in Lists, NEW i \in Places(c[m]), c[m][i] = x, x # c[l][k] PROVE IsListed(d, x)
    <3>1. CASE m # l
      BY <1>6, <2>2, <3>1 DEF IsListed
    <3>2. CASE m = l
      <4>1. i \in 1 .. L /\ (i < k \/ i > k) /\ s[i] = x
        BY <1>1, <1>4, <1>10, <2>2, <3>2
      <4>2. \E j \in Places(d[l]) : d[l][j] = x
        BY <1>6, <1>8, <1>10, <4>1
      <4> QED
        BY <4>2 DEF IsListed
    <3> QED
      BY <3>1, <3>2
  <2> QED
    BY <2>1, <2>2 DEF IsListed
<1> QED
  BY <1>1, <1>2, <1>4, <1>6, <1>7, <1>8, <1>9, <1>10, <1>11 DEF HasLost

-----------------------------------------------------------------------------
(***************************************************************************)
(* The loop stays on track when its list changes.                          *)
(***************************************************************************)
\* A node that the loop has not met is inserted: the place to go on at moves along.
LEMMA InsertKeepsTrack ==
    ASSUME NEW c, IsContents(c), NEW l \in Lists, loop.list = l, AtNode(c[l]),
           NEW k \in 1 .. Len(c[l]) + 1, NEW n \in Nodes, ~IsListed(c, n), n \notin ToSet(loop.visited),
           NEW d, d = PutIn(c, l, k, n)
    PROVE  AtNode(d[l])
<1>1. PICK s : s = c[l]
  OBVIOUS
<1>2. PICK t : t = d[l]
  OBVIOUS
<1>3. PICK L : L = Len(s)
  OBVIOUS
<1>4. c \in [Lists -> Seq(Nodes)]
  BY DEF IsContents
<1>5. /\ L \in Nat /\ Len(t) = L + 1 /\ k \in 1 .. L + 1
      /\ k \in 1 .. L + 1 /\ t[k] = n
      /\ \A i \in 1 .. L : /\ i < k => i \in 1 .. L + 1 /\ t[i] = s[i]
                           /\ i >= k => i + 1 \in 1 .. L + 1 /\ t[i + 1] = s[i]
      /\ \A i \in 1 .. L + 1 : \/ i = k
                               \/ i < k /\ i \in 1 .. L /\ t[i] = s[i]
                               \/ i > k /\ i - 1 \in 1 .. L /\ t[i] = s[i - 1]
  <2>1. /\ Len(c[l]) \in Nat /\ Len(d[l]) = Len(c[l]) + 1
        /\ k \in Places(d[l]) /\ d[l][k] = n
        /\ \A i \in Places(c[l]) : /\ i < k => i \in Places(d[l]) /\ d[l][i] = c[l][i]
                                   /\ i >= k => i + 1 \in Places(d[l]) /\ d[l][i + 1] = c[l][i]
        /\ \A i \in Places(d[l]) : \/ i = k
                                   \/ i < k /\ i \in Places(c[l]) /\ d[l][i] = c[l][i]
                                   \/ i > k /\ i - 1 \in Places(c[l]) /\ d[l][i] = c[l][i - 1]
    <3>1. HasGained(c, d, l, k, n)
      BY <1>4, Inserted
    <3> QED
      BY <3>1 DEF HasGained
  <2>2. Places(c[l]) = 1 .. L /\ Places(d[l]) = 1 .. L + 1
    BY <1>1, <1>2, <1>3, <2>1 DEF Places
  <2> QED
    BY <1>1, <1>2, <1>3, <2>1, <2>2
<1>6. PICK q \in 1 .. L + 1 : GoesOnAt(s, q)
  BY <1>1, <1>3 DEF AtNode
<1>7. \A i \in 1 .. L : s[i] # n
  BY <1>1, <1>3 DEF IsListed, Places
<1>8. PICK h : h = IF k <= q THEN q + 1 ELSE q
  OBVIOUS
<1>9. h \in 1 .. L + 2 /\ q \in Nat /\ k \in Nat
  BY <1>5, <1>8
<1>10. loop.next = Stop(l, t, h)
  <2>1. loop.next = Stop(l, s, q)
    BY <1>6 DEF GoesOnAt
  <2>2. CASE q = L + 1
    <3>1. h = L + 2
      BY <1>5, <1>8, <2>2
    <3> QED
      BY <1>3, <1>5, <2>1, <2>2, <3>1 DEF Stop
  <2>3. CASE q \in 1 .. L
    <3>1. loop.next = s[q]
      BY <1>3, <1>5, <2>1, <2>3 DEF Stop
    <3>2. h \in 1 .. L + 1 /\ t[h] = s[q]
      BY <1>5, <1>8, <2>3
    <3> QED
      BY <1>5, <3>1, <3>2 DEF Stop
  <2> QED
    BY <1>5, <2>2, <2>3
<1>11. ASSUME NEW i \in 1 .. L + 1, i >= h PROVE t[i] \notin ToSet(loop.visited)
  <2>1. \A j \in 1 .. L : j >= q => s[j] \notin ToSet(loop.visited)
    BY <1>1, <1>3, <1>6 DEF GoesOnAt, Places
  <2>2. CASE i = k
    BY <1>5, <2>2
  <2>3. CASE i < k /\ i \in 1 .. L /\ t[i] = s[i]
    <3>1. i >= q
      BY <1>5, <1>8, <1>9, <1>11, <2>3
    <3> QED
      BY <2>1, <2>3, <3>1
  <2>4. CASE i > k /\ i - 1 \in 1 .. L /\ t[i] = s[i - 1]
    <3>1. i - 1 >= q
      BY <1>5, <1>8, <1>9, <1>11, <2>4
    <3> QED
      BY <2>1, <2>4, <3>1
  <2> QED
    BY <1>5, <2>2, <2>3, <2>4
<1>12. ASSUME NEW p \in Places(loop.before), loop.before[p] \notin ToSet(loop.visited)
       PROVE  /\ \E i \in 1 .. L + 1 : i >= h /\ t[i] = loop.before[p]
              /\ \A r \in Places(loop.before) : p < r =>
                    /\ loop.before[r] \notin ToSet(loop.visited)
                    /\ \A i, j \in 1 .. L + 1 : t[i] = loop.before[p] /\ t[j] = loop.before[r] => i < j
  <2>1. /\ \E i \in 1 .. L : i >= q /\ s[i] = loop.before[p]
        /\ \A r \in Places(loop.before) : p < r =>
              /\ loop.before[r] \notin ToSet(loop.visited)
              /\ \A i, j \in 1 .. L : s[i] = loop.before[p] /\ s[j] = loop.before[r] => i < j
    <3>1. /\ \E i \in Places(s) : i >= q /\ s[i] = loop.before[p]
          /\ \A r \in Places(loop.before) : p < r =>
                /\ loop.before[r] \notin ToSet(loop.visited)
                /\ \A i, j \in Places(s) : s[i] = loop.before[p] /\ s[j] = loop.before[r] => i < j
      BY <1>6, <1>12 DEF GoesOnAt
    <3>2. Places(s) = 1 .. L
      BY <1>3 DEF Places
    <3> QED
      BY <3>1, <3>2
  <2>2. PICK a \in 1 .. L : a >= q /\ s[a] = loop.before[p]
    BY <2>1
  <2>3. \E i \in 1 .. L + 1 : i >= h /\ t[i] = loop.before[p]
    <3>1. CASE a < k
      <4>1. a \in 1 .. L + 1 /\ a >= h /\ t[a] = s[a]
        BY <1>5, <1>8, <1>9, <2>2, <3>1
      <4> QED
        BY <2>2, <4>1
    <3>2. CASE a >= k
      <4>1. a + 1 \in 1 .. L + 1 /\ a + 1 >= h /\ t[a + 1] = s[a]
        BY <1>5, <1>8, <1>9, <2>2, <3>2
      <4> QED
        BY <2>2, <4>1
    <3> QED
      BY <1>5, <3>1, <3>2
  <2>4. ASSUME NEW r \in Places(loop.before), p < r, NEW i \in 1 .. L + 1, NEW j \in 1 .. L + 1,
               t[i] = loop.before[p], t[j] = loop.before[r]
        PROVE  i < j
    <3>1. PICK b \in 1 .. L : s[b] = loop.before[r]
      <4>1. loop.before[r] \notin ToSet(loop.visited)
        BY <2>1, <2>4
      <4> QED
        BY <1>1, <1>3, <1>6, <4>1 DEF GoesOnAt, Places
    <3>2. i # k /\ j # k
      BY <1>5, <1>7, <2>2, <2>4, <3>1
    <3>3. \A x, y \in 1 .. L : s[x] = loop.before[p] /\ s[y] = loop.before[r] => x < y
      BY <2>1, <2>4
    <3>4. \/ i < k /\ i \in 1 .. L /\ s[i] = loop.before[p]
          \/ i > k /\ i - 1 \in 1 .. L /\ s[i - 1] = loop.before[p]
      BY <1>5, <2>4, <3>2
    <3>5. \/ j < k /\ j \in 1 .. L /\ s[j] = loop.before[r]
          \/ j > k /\ j - 1 \in 1 .. L /\ s[j - 1] = loop.before[r]
      BY <1>5, <2>4, <3>2
    <3> QED
      BY <1>5, <3>3, <3>4, <3>5
  <2> QED
    BY <2>1, <2>3, <2>4
<1>13. GoesOnAt(t, h)
  <2>1. Places(t) = 1 .. L + 1
    BY <1>5 DEF Places
  <2> QED
    BY <1>10, <1>11, <1>12, <2>1 DEF GoesOnAt
<1> QED
  BY <1>2, <1>5, <1>9, <1>13 DEF AtNode

\* The node the loop is at is erased: the loop goes on where it would have.
LEMMA EraseKeepsTrack ==
    ASSUME NEW c, IsContents(c), NEW l \in Lists, loop.list = l, AtNode(c[l]),
           NEW k \in 1 .. Len(c[l]), c[l][k] = loop.node,
           NEW d, d = TakenOut(c, l, k)
    PROVE  AtNode(d[l])
<1>1. PICK s : s = c[l]
  OBVIOUS
<1>2. PICK t : t = d[l]
  OBVIOUS
<1>3. PICK L : L = Len(s)
  OBVIOUS
<1>4. c \in [Lists -> Seq(Nodes)]
      /\ \A m, o \in Lists : \A i \in Places(c[m]), j \in Places(c[o]) : c[m][i] = c[o][j] => m = o /\ i = j
  BY DEF IsContents
<1>5. /\ L \in Nat /\ Len(t) = L - 1 /\ k \in 1 .. L
      /\ \A i \in 1 .. L : /\ i < k => i \in 1 .. L - 1 /\ t[i] = s[i]
                           /\ i > k => i - 1 \in 1 .. L - 1 /\ t[i - 1] = s[i]
      /\ \A i \in 1 .. L - 1 : \/ i < k /\ i \in 1 .. L /\ t[i] = s[i]
                               \/ i >= k /\ i + 1 \in 1 .. L /\ t[i] = s[i + 1]
  <2>1. HasLost(c, d, l, k)
    BY <1>4, Removed
  <2>2. /\ Len(c[l]) \in Nat /\ Len(d[l]) = Len(c[l]) - 1
        /\ \A i \in Places(c[l]) : /\ i < k => i \in Places(d[l]) /\ d[l][i] = c[l][i]
                                   /\ i > k => i - 1 \in Places(d[l]) /\ d[l][i - 1] = c[l][i]
        /\ \A i \in Places(d[l]) : \/ i < k /\ i \in Places(c[l]) /\ d[l][i] = c[l][i]
                                   \/ i >= k /\ i + 1 \in Places(c[l]) /\ d[l][i] = c[l][i + 1]
    BY <2>1 DEF HasLost
  <2>3. Places(c[l]) = 1 .. L /\ Places(d[l]) = 1 .. L - 1
    BY <1>1, <1>2, <1>3, <2>2 DEF Places
  <2> QED
    BY ZenonT(30), <1>1, <1>2, <1>3, <2>2, <2>3
<1>6. PICK q \in 1 .. L + 1 : GoesOnAt(s, q)
  BY <1>1, <1>3 DEF AtNode
<1>7. k < q
  <2>1. \A i \in 1 .. L : i >= q => s[i] \notin ToSet(loop.visited)
    BY <1>3, <1>6 DEF GoesOnAt, Places
  <2>2. s[k] \in ToSet(loop.visited)
    BY <1>1 DEF AtNode
  <2> QED
    BY <1>5, <1>6, <2>1, <2>2
<1>8. PICK h : h = q - 1
  OBVIOUS
<1>9. h \in 1 .. L /\ q \in Nat /\ k \in Nat /\ h >= k
  BY <1>5, <1>7, <1>8
<1>10. loop.next = Stop(l, t, h)
  <2>1. loop.next = Stop(l, s, q)
    BY <1>6 DEF GoesOnAt
  <2>2. CASE q = L + 1
    BY <1>3, <1>5, <1>8, <1>9, <2>1, <2>2 DEF Stop
  <2>3. CASE q \in 1 .. L
    <3>1. loop.next = s[q]
      BY <1>3, <1>5, <2>1, <2>3 DEF Stop
    <3>2. h \in 1 .. L - 1 /\ t[h] = s[q]
      BY <1>5, <1>7, <1>8, <2>3
    <3> QED
      BY <1>5, <3>1, <3>2 DEF Stop
  <2> QED
    BY <1>5, <2>2, <2>3
<1>11. ASSUME NEW i \in 1 .. L - 1, i >= h PROVE t[i] \notin ToSet(loop.visited)
  <2>1. \A j \in 1 .. L : j >= q => s[j] \notin ToSet(loop.visited)
    BY <1>3, <1>6 DEF GoesOnAt, Places
  <2>2. i + 1 \in 1 .. L /\ i + 1 >= q /\ t[i] = s[i + 1]
    BY <1>5, <1>8, <1>9, <1>11
  <2> QED
    BY <2>1, <2>2
<1>12. ASSUME NEW p \in Places(loop.before), loop.before[p] \notin ToSet(loop.visited)
       PROVE  /\ \E i \in 1 .. L - 1 : i >= h /\ t[i] = loop.before[p]
              /\ \A r \in Places(loop.before) : p < r =>
                    /\ loop.before[r] \notin ToSet(loop.visited)
                    /\ \A i, j \in 1 .. L - 1 : t[i] = loop.before[p] /\ t[j] = loop.before[r] => i < j
  <2>1. /\ \E i \in 1 .. L : i >= q /\ s[i] = loop.before[p]
        /\ \A r \in Places(loop.before) : p < r =>
              /\ loop.before[r] \notin ToSet(loop.visited)
              /\ \A i, j \in 1 .. L : s[i] = loop.before[p] /\ s[j] = loop.before[r] => i < j
    <3>1. /\ \E i \in Places(s) : i >= q /\ s[i] = loop.before[p]
          /\ \A r \in Places(loop.before) : p < r =>
                /\ loop.before[r] \notin ToSet(loop.visited)
                /\ \A i, j \in Places(s) : s[i] = loop.before[p] /\ s[j] = loop.before[r] => i < j
      BY <1>6, <1>12 DEF GoesOnAt
    <3>2. Places(s) = 1 .. L
      BY <1>3 DEF Places
    <3> QED
      BY <3>1, <3>2
  <2>2. PICK a \in 1 .. L : a >= q /\ s[a] = loop.before[p]
    BY <2>1
  <2>3. \E i \in 1 .. L - 1 : i >= h /\ t[i] = loop.before[p]
    <3>1. a - 1 \in 1 .. L - 1 /\ a - 1 >= h /\ t[a - 1] = s[a]
      BY <1>5, <1>7, <1>8, <1>9, <2>2
    <3> QED
      BY <2>2, <3>1
  <2>4. ASSUME NEW r \in Places(loop.before), p < r, NEW i \in 1 .. L - 1, NEW j \in 1 .. L - 1,
               t[i] = loop.before[p], t[j] = loop.before[r]
        PROVE  i < j
    <3>1. \A x, y \in 1 .. L : s[x] = loop.before[p] /\ s[y] = loop.before[r] => x < y
      BY <2>1, <2>4
    <3>2. \/ i < k /\ i \in 1 .. L /\ s[i] = loop.before[p]
          \/ i >= k /\ i + 1 \in 1 .. L /\ s[i + 1] = loop.before[p]
      BY <1>5, <2>4
    <3>3. \/ j < k /\ j \in 1 .. L /\ s[j] = loop.before[r]
          \/ j >= k /\ j + 1 \in 1 .. L /\ s[j + 1] = loop.before[r]
      BY <1>5, <2>4
    <3> QED
      BY <1>5, <3>1, <3>2, <3>3
  <2> QED
    BY <2>1, <2>3, <2>4
<1>13. GoesOnAt(t, h)
  <2>1. Places(t) = 1 .. L - 1
    BY <1>5 DEF Places
  <2> QED
    BY <1>10, <1>11, <1>12, <2>1 DEF GoesOnAt
<1>14. h \in 1 .. Len(t) + 1
  BY <1>5, <1>9
<1> QED
  BY <1>2, <1>13, <1>14 DEF AtNode

\* The calls that leave the loop alone leave it on track if it is on track in the
\* sequences they make.
LEMMA TrackIsKept ==
    ASSUME UNCHANGED <<pair, loop>>, NEW c, LoopIsOnTrack(c), NEW d,
           Looping => AtEnd \/ AtNode(d[loop.list])
    PROVE  LoopIsOnTrack(d)'
<1>1. Looping' = Looping /\ AtEnd' = AtEnd
  BY DEF Looping, AtEnd, Tail_
<1>2. \A s : AtNode(s)' = AtNode(s)
  BY DEF AtNode, GoesOnAt, Stop, Head_, Tail_
<1>3. d[loop.list]' = d[loop.list]
  OBVIOUS
<1>4. AtNode(d[loop.list])' <=> AtNode(d[loop.list])
  BY DEF AtNode, GoesOnAt, Stop, Head_, Tail_
<1> QED
  BY <1>1, <1>4 DEF LoopIsOnTrack

-----------------------------------------------------------------------------
(***************************************************************************)
(* One lemma for each way the links change.                                *)
(***************************************************************************)
\* Insertions: InsertBefore and InsertAfter, wherever they are called.
LEMMA InsertInv ==
    ASSUME TypeOK, NEW c, Inv(c), NEW l \in Lists, NEW k \in 1 .. Len(c[l]) + 1,
           NEW n \in Nodes, MayEnter(l, n),
           NEW d, d = PutIn(c, l, k, n),
           next' = [next EXCEPT ![n] = Stop(l, c[l], k), ![Stop(l, c[l], k - 1)] = n],
           prev' = [prev EXCEPT ![n] = Stop(l, c[l], k - 1), ![Stop(l, c[l], k)] = n],
           parent' = [parent EXCEPT ![n] = l],
           size' = [size EXCEPT ![l] = (@ + 1) % SizeMod],
           UNCHANGED <<pair, dropped, stale, misled, loop>>
    PROVE  TypeOK' /\ Inv(d)'
<1>1. IsContents(c) /\ Owners(c) /\ LoopIsOnTrack(c) /\ c \in [Lists -> Seq(Nodes)]
  BY DEF Inv, IsContents
<1>2. ~IsListed(c, n) /\ n \notin dropped /\ (loop.list = l => n \notin ToSet(loop.visited))
  BY <1>1, Seen DEF MayEnter
<1>3. IsContents(d)'
  BY <1>1, <1>2, InsertSplices
<1>4. HasGained(c, d, l, k, n)
  BY <1>1, Inserted
<1>5. TypeOK'
  <2>1. Stop(l, c[l], k) \in Links /\ Stop(l, c[l], k - 1) \in Links /\ n \in Links
    <3>1. k \in 0 .. Len(c[l]) + 1 /\ k - 1 \in 0 .. Len(c[l]) + 1
      BY <1>4 DEF HasGained
    <3> QED
      BY <1>1, <3>1, StopsDiffer, Dummy
  <2>2. next' \in [Links -> Links \cup {Null}] /\ prev' \in [Links -> Links \cup {Null}]
    BY <2>1 DEF TypeOK
  <2>3. parent' \in [Nodes -> Lists \cup {Null}]
    BY DEF TypeOK
  <2>4. size' \in [Lists -> 0 .. SizeMod - 1]
    <3>1. (size[l] + 1) % SizeMod \in 0 .. SizeMod - 1
      BY SizeAssumption DEF TypeOK
    <3> QED
      BY <3>1 DEF TypeOK
  <2> QED
    BY <2>2, <2>3, <2>4 DEF TypeOK
<1>6. Owners(d)'
  <2>1. ASSUME NEW x \in Nodes, IsListed(d, x) PROVE x \notin dropped' /\ parent'[x] \in Lists
    <3>1. IsListed(c, x) \/ x = n
      BY <1>4, <2>1 DEF HasGained
    <3>2. parent'[x] = IF x = n THEN l ELSE parent[x]
      BY DEF TypeOK
    <3> QED
      BY <1>1, <1>2, <3>1, <3>2 DEF Owners
  <2>2. ASSUME NEW x \in Nodes, ~IsListed(d, x), x \notin dropped' PROVE parent'[x] = Null
    <3>1. ~IsListed(c, x) /\ x # n
      BY <1>4, <2>2 DEF HasGained
    <3>2. parent'[x] = parent[x]
      BY <3>1 DEF TypeOK
    <3> QED
      BY <1>1, <2>2, <3>1, <3>2 DEF Owners
  <2>3. ASSUME ~misled', NEW m \in Lists PROVE size'[m] = Len(d[m])
    <3>1. size[m] = Len(c[m])
      BY <1>1, <2>3 DEF Owners
    <3>2. CASE m # l
      <4>1. size'[m] = size[m]
        BY <3>2 DEF TypeOK
      <4>2. d[m] = c[m]
        BY <1>4, <3>2 DEF HasGained
      <4> QED
        BY <3>1, <4>1, <4>2, Zenon
    <3>3. CASE m = l
      <4>1. size'[l] = (Len(c[l]) + 1) % SizeMod
        BY <3>1, <3>3 DEF TypeOK
      <4>2. Len(c[l]) \in Nat /\ Len(d[l]) = Len(c[l]) + 1
        BY <1>4 DEF HasGained
      <4>3. d[l] \in Seq(Nodes) /\ \A i, j \in Places(d[l]) : d[l][i] = d[l][j] => i = j
        BY <1>3 DEF IsContents
      <4>4. Cardinality(Nodes) \in Nat /\ Len(d[l]) <= Cardinality(Nodes)
        BY <4>3, SequencesAreShort
      <4>5. PICK y : y = Len(d[l])
        OBVIOUS
      <4>6. y = Len(c[l]) + 1 /\ y \in Nat /\ y <= Cardinality(Nodes)
        BY <4>2, <4>4, <4>5
      <4>7. y \in 0 .. SizeMod - 1 /\ SizeMod \in Nat \ {0}
        BY <4>4, <4>6, SizeAssumption
      <4>8. size'[l] = y % SizeMod
        BY <4>1, <4>6, Zenon
      <4>9. y % SizeMod = y
        BY <4>7
      <4> QED
        BY <3>3, <4>5, <4>8, <4>9
    <3> QED
      BY <3>2, <3>3
  <2>4. ASSUME NEW m \in Lists, NEW i \in Places(d[m]), d[m][i] \notin stale' PROVE parent'[d[m][i]] = m
    <3>1. \A o \in Lists : \A j \in Places(c[o]) : /\ c[o][j] \notin stale => parent[c[o][j]] = o
                                                  /\ c[o][j] # n /\ c[o][j] \in Nodes
      <4>1. \A o \in Lists : \A j \in Places(c[o]) : c[o][j] \notin stale => parent[c[o][j]] = o
        BY <1>1 DEF Owners
      <4>2. \A o \in Lists : \A j \in Places(c[o]) : c[o][j] # n
        BY <1>2 DEF IsListed
      <4>3. \A o \in Lists : \A j \in Places(c[o]) : c[o][j] \in Nodes
        BY <1>1, ElementOfSeq DEF Places
      <4> QED
        BY <4>1, <4>2, <4>3
    <3>2. parent'[n] = l /\ \A x \in Nodes : x # n => parent'[x] = parent[x]
      BY DEF TypeOK
    <3>3. CASE m # l
      <4>1. d[m] = c[m]
        BY <1>4, <3>3 DEF HasGained
      <4>2. i \in Places(c[m]) /\ d[m][i] = c[m][i]
        BY <4>1
      <4> QED
        BY <2>4, <3>1, <3>2, <4>2
    <3>4. CASE m = l
      <4>1. \/ i = k /\ d[l][i] = n
            \/ i \in Places(c[l]) /\ d[l][i] = c[l][i]
            \/ i - 1 \in Places(c[l]) /\ d[l][i] = c[l][i - 1]
        BY <1>4, <3>4 DEF HasGained
      <4> QED
        BY <2>4, <3>1, <3>2, <3>4, <4>1
    <3> QED
      BY <3>3, <3>4
  <2>5. \A x : IsListed(d, x)' <=> IsListed(d, x)
    BY DEF IsListed
  <2> QED
    BY <2>1, <2>2, <2>3, <2>4, <2>5 DEF Owners
<1>7. LoopIsOnTrack(d)'
  <2>1. ASSUME Looping PROVE AtEnd \/ AtNode(d[loop.list])
    <3>1. loop.list \in Lists /\ (AtEnd \/ AtNode(c[loop.list]))
      BY <1>1, <2>1 DEF LoopIsOnTrack, TypeOK, Looping
    <3>2. CASE loop.list # l
      <4>1. d[loop.list] = c[loop.list]
        BY <1>4, <3>1, <3>2 DEF HasGained
      <4> QED
        BY <3>1, <4>1, Zenon
    <3>3. CASE loop.list = l
      <4>1. CASE AtNode(c[l])
        <5>1. AtNode(d[l])
          BY <1>1, <1>2, <3>3, <4>1, InsertKeepsTrack
        <5> QED
          BY <3>3, <5>1, Zenon
      <4> QED
        BY <3>1, <3>3, <4>1, Zenon
    <3> QED
      BY <3>2, <3>3
  <2> QED
    BY <1>1, <2>1, TrackIsKept
<1> QED
  BY <1>3, <1>5, <1>6, <1>7 DEF Inv

\* A size_t that is decreased: adding SizeMod - 1 and wrapping around.
LEMMA Decreased ==
    ASSUME NEW x \in 1 .. SizeMod - 1
    PROVE  (x + SizeMod - 1) % SizeMod = x - 1
<1>1. SizeMod \in Nat \ {0}
  BY SizeAssumption
<1>2. PICK M : M = SizeMod
  OBVIOUS
<1>3. M \in Nat /\ M > 0 /\ x - 1 \in 0 .. M - 1
  BY <1>1, <1>2
<1>4. PICK y : y = x - 1
  OBVIOUS
<1>5. y \in 0 .. M - 1 /\ x + M - 1 = y + M
  BY <1>3, <1>4
<1>6. (y + M) % M = y
  BY <1>3, <1>5, Z3
<1> QED
  BY <1>2, <1>4, <1>5, <1>6

\* Erasing a node, from its list or from the one its parent_ names.
LEMMA EraseInv ==
    ASSUME TypeOK, NEW c, Inv(c), NEW l \in Lists, NEW k \in 1 .. Len(c[l]),
           NEW n, n = c[l][k], NEW p \in Lists, ~misled' => ~misled /\ p = l,
           Looping => loop.list # l \/ loop.node = n,
           NEW d, d = TakenOut(c, l, k),
           Erase(p, n), stale' = stale \ {n}, UNCHANGED <<pair, dropped, loop>>
    PROVE  TypeOK' /\ Inv(d)'
<1>1. IsContents(c) /\ Owners(c) /\ LoopIsOnTrack(c) /\ c \in [Lists -> Seq(Nodes)]
      /\ \A m, o \in Lists : \A i \in Places(c[m]), j \in Places(c[o]) : c[m][i] = c[o][j] => m = o /\ i = j
  BY DEF Inv, IsContents
<1>2. PICK L : L = Len(c[l])
  OBVIOUS
<1>3. L \in Nat /\ k \in 1 .. L /\ k \in Places(c[l]) /\ n \in Nodes /\ IsListed(c, n)
  <2>1. L \in Nat /\ k \in 1 .. L /\ k \in Places(c[l])
    BY <1>1, <1>2, LenProperties DEF Places
  <2>2. n \in Nodes
    BY <1>1, <1>2, <2>1, ElementOfSeq
  <2> QED
    BY <2>1, <2>2 DEF IsListed
<1>4. next[n] = Stop(l, c[l], k + 1) /\ prev[n] = Stop(l, c[l], k - 1)
  <2>1. \A j \in 0 .. L : next[Stop(l, c[l], j)] = Stop(l, c[l], j + 1) /\ prev[Stop(l, c[l], j + 1)] = Stop(l, c[l], j)
    BY <1>1, <1>2 DEF IsContents
  <2>2. Stop(l, c[l], k) = n
    BY <1>2, <1>3 DEF Stop
  <2>3. k \in 0 .. L /\ k - 1 \in 0 .. L /\ k - 1 + 1 = k
    BY <1>3
  <2>4. next[Stop(l, c[l], k)] = Stop(l, c[l], k + 1)
    BY <2>1, <2>3
  <2>5. prev[Stop(l, c[l], k - 1 + 1)] = Stop(l, c[l], k - 1)
    BY <2>1, <2>3
  <2> QED
    BY <2>2, <2>3, <2>4, <2>5
<1>5. IsContents(d)'
  <2>1. /\ next' = [next EXCEPT ![Stop(l, c[l], k - 1)] = Stop(l, c[l], k + 1), ![n] = Null]
        /\ prev' = [prev EXCEPT ![Stop(l, c[l], k + 1)] = Stop(l, c[l], k - 1), ![n] = Null]
    BY <1>4 DEF Erase
  <2> QED
    BY <1>1, <2>1, RemoveSplices
<1>6. HasLost(c, d, l, k)
  BY <1>1, Removed
<1>7. TypeOK'
  <2>1. Stop(l, c[l], k + 1) \in Links /\ Stop(l, c[l], k - 1) \in Links /\ n \in Links
    <3>1. k + 1 \in 0 .. Len(c[l]) + 1 /\ k - 1 \in 0 .. Len(c[l]) + 1
      BY <1>2, <1>3
    <3> QED
      BY <1>1, <1>3, <3>1, StopsDiffer, Dummy
  <2>2. next' \in [Links -> Links \cup {Null}] /\ prev' \in [Links -> Links \cup {Null}]
    BY <1>4, <2>1 DEF TypeOK, Erase
  <2>3. parent' \in [Nodes -> Lists \cup {Null}]
    BY DEF TypeOK, Erase
  <2>4. size' \in [Lists -> 0 .. SizeMod - 1]
    <3>1. (size[p] + SizeMod - 1) % SizeMod \in 0 .. SizeMod - 1
      BY SizeAssumption DEF TypeOK
    <3> QED
      BY <3>1 DEF TypeOK, Erase
  <2> QED
    BY <2>2, <2>3, <2>4 DEF TypeOK
<1>8. parent' \in [Nodes -> Lists \cup {Null}] /\ parent'[n] = Null /\ \A x \in Nodes : x # n => parent'[x] = parent[x]
  BY <1>3, <1>7 DEF TypeOK, Erase
<1>9. Owners(d)'
  <2>1. ASSUME NEW x \in Nodes, IsListed(d, x) PROVE x \notin dropped' /\ parent'[x] \in Lists
    <3>1. IsListed(c, x) /\ x # n
      BY <1>6, <2>1 DEF HasLost
    <3> QED
      BY <1>1, <1>8, <3>1 DEF Owners
  <2>2. ASSUME NEW x \in Nodes, ~IsListed(d, x), x \notin dropped' PROVE parent'[x] = Null
    <3>1. ~IsListed(c, x) \/ x = n
      BY <1>6, <2>2 DEF HasLost
    <3> QED
      BY <1>1, <1>8, <2>2, <3>1 DEF Owners
  <2>3. ASSUME ~misled', NEW m \in Lists PROVE size'[m] = Len(d[m])
    <3>1. size[m] = Len(c[m]) /\ p = l
      BY <1>1, <2>3 DEF Owners
    <3>2. CASE m # l
      <4>1. size'[m] = size[m]
        BY <3>1, <3>2 DEF TypeOK, Erase
      <4>2. d[m] = c[m]
        BY <1>6, <3>2 DEF HasLost
      <4> QED
        BY <3>1, <4>1, <4>2, Zenon
    <3>3. CASE m = l
      <4>1. size'[l] = (L + SizeMod - 1) % SizeMod
        BY <1>2, <3>1, <3>3 DEF TypeOK, Erase
      <4>2. Len(d[l]) = L - 1
        BY <1>2, <1>6 DEF HasLost
      <4>3. L \in 0 .. SizeMod - 1
        BY <1>2, <3>1, <3>3 DEF TypeOK
      <4>4. L \in 1 .. SizeMod - 1
        BY <1>3, <4>3, SizeAssumption
      <4> QED
        BY <3>3, <4>1, <4>2, <4>4, Decreased
    <3> QED
      BY <3>2, <3>3
  <2>4. ASSUME NEW m \in Lists, NEW i \in Places(d[m]), d[m][i] \notin stale' PROVE parent'[d[m][i]] = m
    <3>1. \A o \in Lists : \A j \in Places(c[o]) : /\ c[o][j] \notin stale => parent[c[o][j]] = o
                                                  /\ c[o][j] \in Nodes
      <4>1. \A o \in Lists : \A j \in Places(c[o]) : c[o][j] \notin stale => parent[c[o][j]] = o
        BY <1>1 DEF Owners
      <4>2. \A o \in Lists : \A j \in Places(c[o]) : c[o][j] \in Nodes
        BY <1>1, ElementOfSeq DEF Places
      <4> QED
        BY <4>1, <4>2
    <3>2. d[m][i] # n /\ d[m][i] \notin stale
      <4>1. IsListed(d, d[m][i])
        BY DEF IsListed
      <4> QED
        BY <1>6, <2>4, <4>1 DEF HasLost
    <3>3. CASE m # l
      <4>1. d[m] = c[m]
        BY <1>6, <3>3 DEF HasLost
      <4>2. i \in Places(c[m]) /\ d[m][i] = c[m][i]
        BY <4>1
      <4> QED
        BY <1>8, <3>1, <3>2, <4>2
    <3>4. CASE m = l
      <4>1. \/ i \in Places(c[l]) /\ d[l][i] = c[l][i]
            \/ i + 1 \in Places(c[l]) /\ d[l][i] = c[l][i + 1]
        BY <1>6, <3>4 DEF HasLost
      <4> QED
        BY <1>8, <3>1, <3>2, <3>4, <4>1
    <3> QED
      BY <3>3, <3>4
  <2>5. \A x : IsListed(d, x)' <=> IsListed(d, x)
    BY DEF IsListed
  <2> QED
    BY <2>1, <2>2, <2>3, <2>4, <2>5 DEF Owners
<1>10. LoopIsOnTrack(d)'
  <2>1. ASSUME Looping PROVE AtEnd \/ AtNode(d[loop.list])
    <3>1. loop.list \in Lists /\ (AtEnd \/ AtNode(c[loop.list]))
      BY <1>1, <2>1 DEF LoopIsOnTrack, TypeOK, Looping
    <3>2. CASE loop.list # l
      <4>1. d[loop.list] = c[loop.list]
        BY <1>6, <3>1, <3>2 DEF HasLost
      <4> QED
        BY <3>1, <4>1, Zenon
    <3>3. CASE loop.list = l
      <4>1. CASE AtNode(c[l])
        <5>1. c[l][k] = loop.node
          BY <2>1, <3>3
        <5>2. AtNode(d[l])
          BY <1>1, <3>3, <4>1, <5>1, EraseKeepsTrack
        <5> QED
          BY <3>3, <5>2, Zenon
      <4> QED
        BY <3>1, <3>3, <4>1, Zenon
    <3> QED
      BY <3>2, <3>3
  <2> QED
    BY <1>1, <2>1, TrackIsKept
<1> QED
  BY <1>5, <1>7, <1>9, <1>10 DEF Inv

-----------------------------------------------------------------------------
(***************************************************************************)
(* The steps: each keeps the invariant and is a step of ListContents.      *)
(***************************************************************************)
Becomes(c, d) ==
    \/ d = c
    \/ \E l \in Lists, n \in Nodes : \E k \in 1 .. Len(c[l]) + 1 :
            (\A m \in Lists : n \notin ToSet(c[m])) /\ d = PutIn(c, l, k, n)
    \/ \E l \in Lists : \E k \in 1 .. Len(c[l]) : d = TakenOut(c, l, k)
    \/ \E l, s \in Lists : l # s /\ d = [c EXCEPT ![l] = c[s], ![s] = <<>>]

\* The links around place k of a list.
LEMMA Neighbours ==
    ASSUME NEW c, IsContents(c), NEW l \in Lists, NEW L, L = Len(c[l])
    PROVE  /\ L \in Nat
           /\ Stop(l, c[l], 0) = Head_(l) /\ Stop(l, c[l], L + 1) = Tail_(l)
           /\ \A k \in 1 .. L + 1 : /\ next[Stop(l, c[l], k - 1)] = Stop(l, c[l], k)
                                    /\ prev[Stop(l, c[l], k)] = Stop(l, c[l], k - 1)
<1>1. L \in Nat
  BY LenProperties DEF IsContents
<1>2. Stop(l, c[l], 0) = Head_(l)
  BY DEF Stop
<1>3. Stop(l, c[l], L + 1) = Tail_(l)
  <2>1. L + 1 # 0 /\ L + 1 > Len(c[l])
    BY <1>1
  <2> QED
    BY <2>1 DEF Stop
<1>4. ASSUME NEW k \in 1 .. L + 1
      PROVE  next[Stop(l, c[l], k - 1)] = Stop(l, c[l], k) /\ prev[Stop(l, c[l], k)] = Stop(l, c[l], k - 1)
  <2>1. \A j \in 0 .. L : next[Stop(l, c[l], j)] = Stop(l, c[l], j + 1) /\ prev[Stop(l, c[l], j + 1)] = Stop(l, c[l], j)
    BY DEF IsContents
  <2>2. PICK j : j = k - 1
    OBVIOUS
  <2>3. j \in 0 .. L /\ k = j + 1
    BY <1>1, <2>2
  <2>4. next[Stop(l, c[l], j)] = Stop(l, c[l], j + 1) /\ prev[Stop(l, c[l], j + 1)] = Stop(l, c[l], j)
    BY <2>1, <2>3
  <2> QED
    BY <2>2, <2>3, <2>4, Zenon
<1> QED
  BY <1>1, <1>2, <1>3, <1>4

\* An insertion before the k-th stop of a list, or after the one before it.
LEMMA InsertStep ==
    ASSUME TypeOK, NEW c, Inv(c), NEW l \in Lists, NEW k \in 1 .. Len(c[l]) + 1,
           NEW n \in Nodes, MayEnter(l, n),
           InsertBefore(l, Stop(l, c[l], k), n) \/ InsertAfter(l, Stop(l, c[l], k - 1), n),
           UNCHANGED <<pair, dropped, stale, misled, loop>>
    PROVE  TypeOK' /\ \E d : Inv(d)' /\ Becomes(c, d)
<1>1. IsContents(c)
  BY DEF Inv
<1>2. next[Stop(l, c[l], k - 1)] = Stop(l, c[l], k) /\ prev[Stop(l, c[l], k)] = Stop(l, c[l], k - 1)
  <2>1. PICK L : L = Len(c[l])
    OBVIOUS
  <2>2. \A j \in 1 .. L + 1 : /\ next[Stop(l, c[l], j - 1)] = Stop(l, c[l], j)
                              /\ prev[Stop(l, c[l], j)] = Stop(l, c[l], j - 1)
    BY <1>1, <2>1, Neighbours
  <2>3. k \in 1 .. L + 1
    BY <2>1
  <2> QED
    BY <2>2, <2>3, Zenon
<1>3. PICK d : d = PutIn(c, l, k, n)
  OBVIOUS
<1>4. /\ next' = [next EXCEPT ![n] = Stop(l, c[l], k), ![Stop(l, c[l], k - 1)] = n]
      /\ prev' = [prev EXCEPT ![n] = Stop(l, c[l], k - 1), ![Stop(l, c[l], k)] = n]
      /\ parent' = [parent EXCEPT ![n] = l]
      /\ size' = [size EXCEPT ![l] = (@ + 1) % SizeMod]
  <2>1. CASE InsertBefore(l, Stop(l, c[l], k), n)
    BY <1>2, <2>1 DEF InsertBefore
  <2>2. CASE InsertAfter(l, Stop(l, c[l], k - 1), n)
    BY <1>2, <2>2 DEF InsertAfter
  <2> QED
    BY <2>1, <2>2
<1>5. TypeOK' /\ Inv(d)'
  BY <1>3, <1>4, InsertInv
<1>6. \A m \in Lists : n \notin ToSet(c[m])
  <2>1. \A m \in Lists : ToSet(c[m]) = {c[m][i] : i \in Places(c[m])}
    BY <1>1, Seen
  <2>2. ~IsListed(c, n)
    BY <1>1, Seen DEF MayEnter
  <2> QED
    BY ZenonT(30), <2>1, <2>2 DEF IsListed
<1>7. Becomes(c, d)
  BY <1>3, <1>6 DEF Becomes
<1> QED
  BY <1>5, <1>7

\* push_back, push_front and the insertions around --end().
LEMMA InsertionsStep ==
    ASSUME TypeOK, NEW c, Inv(c), NEW l \in Lists, NEW n \in Nodes,
           PushBack(l, n) \/ PushFront(l, n) \/ InsertBeforeLast(l, n) \/ InsertAfterLast(l, n)
    PROVE  TypeOK' /\ \E d : Inv(d)' /\ Becomes(c, d)
<1>1. IsContents(c)
  BY DEF Inv
<1>2. PICK L : L = Len(c[l])
  OBVIOUS
<1>3. /\ L \in Nat
      /\ Stop(l, c[l], 0) = Head_(l) /\ Stop(l, c[l], L + 1) = Tail_(l)
      /\ \A k \in 1 .. L + 1 : /\ next[Stop(l, c[l], k - 1)] = Stop(l, c[l], k)
                               /\ prev[Stop(l, c[l], k)] = Stop(l, c[l], k - 1)
  BY <1>1, <1>2, Neighbours
<1>4. next[Head_(l)] = Stop(l, c[l], 1)
  <2>1. 1 \in 1 .. L + 1 /\ 1 - 1 = 0
    BY <1>3
  <2>2. next[Stop(l, c[l], 1 - 1)] = Stop(l, c[l], 1)
    BY <1>3, <2>1
  <2> QED
    BY <1>3, <2>1, <2>2
<1>5. prev[Tail_(l)] = Stop(l, c[l], L)
  <2>1. L + 1 \in 1 .. L + 1 /\ L + 1 - 1 = L
    BY <1>3
  <2>2. prev[Stop(l, c[l], L + 1)] = Stop(l, c[l], L + 1 - 1)
    BY <1>3, <2>1
  <2> QED
    BY <1>3, <2>1, <2>2
<1>6. L + 1 \in 1 .. Len(c[l]) + 1 /\ 1 \in 1 .. Len(c[l]) + 1 /\ L + 1 - 1 = L
  BY <1>2, <1>3
<1>7. CASE PushBack(l, n)
  <2>1. InsertBefore(l, Stop(l, c[l], L + 1), n) /\ MayEnter(l, n) /\ UNCHANGED <<pair, dropped, stale, misled, loop>>
    BY <1>3, <1>7 DEF PushBack, history
  <2> QED
    BY <1>6, <2>1, InsertStep
<1>8. CASE PushFront(l, n)
  <2>1. InsertBefore(l, Stop(l, c[l], 1), n) /\ MayEnter(l, n) /\ UNCHANGED <<pair, dropped, stale, misled, loop>>
    BY <1>4, <1>8 DEF PushFront, history
  <2> QED
    BY <1>6, <2>1, InsertStep
<1>9. CASE InsertBeforeLast(l, n)
  <2>1. InsertBefore(l, Stop(l, c[l], L), n) /\ MayEnter(l, n) /\ UNCHANGED <<pair, dropped, stale, misled, loop>>
    BY <1>5, <1>9 DEF InsertBeforeLast, history
  <2>2. L # 0
    BY <1>3, <1>5, <1>9 DEF InsertBeforeLast, history
  <2>3. L \in 1 .. Len(c[l]) + 1
    BY <1>2, <1>3, <2>2
  <2> QED
    BY <2>1, <2>3, InsertStep
<1>10. CASE InsertAfterLast(l, n)
  <2>1. InsertAfter(l, Stop(l, c[l], L), n) /\ MayEnter(l, n) /\ UNCHANGED <<pair, dropped, stale, misled, loop>>
    BY <1>5, <1>10 DEF InsertAfterLast, history
  <2>2. PICK k : k = L + 1
    OBVIOUS
  <2>3. k \in 1 .. Len(c[l]) + 1 /\ k - 1 = L
    BY <1>2, <1>3, <2>2
  <2>4. InsertAfter(l, Stop(l, c[l], k - 1), n)
    BY <2>1, <2>3, Zenon
  <2> QED
    BY <2>1, <2>3, <2>4, InsertStep
<1> QED
  BY <1>7, <1>8, <1>9, <1>10

\* erase where a loop stands, and remove_from_parent.
LEMMA RemovalsStep ==
    ASSUME TypeOK, NEW c, Inv(c), EraseCurrent \/ \E n \in Nodes : RemoveFromParent(n)
    PROVE  TypeOK' /\ \E d : Inv(d)' /\ Becomes(c, d)
<1>1. IsContents(c) /\ Owners(c) /\ LoopIsOnTrack(c)
  BY DEF Inv
<1>2. /\ \A l \in Lists : Contents(l) = c[l]
      /\ \A l \in Lists : ToSet(c[l]) = {c[l][i] : i \in Places(c[l])}
  BY <1>1, Seen
<1>3. ASSUME NEW l \in Lists, NEW k \in Places(c[l]), NEW n, n = c[l][k], NEW p \in Lists, ~misled' => ~misled /\ p = l,
             Looping => loop.list # l \/ loop.node = n,
             Erase(p, n), stale' = stale \ {n}, UNCHANGED <<pair, dropped, loop>>
      PROVE  TypeOK' /\ \E d : Inv(d)' /\ Becomes(c, d)
  <2>1. PICK d : d = TakenOut(c, l, k)
    OBVIOUS
  <2>2. k \in 1 .. Len(c[l])
    BY DEF Places
  <2>3. TypeOK' /\ Inv(d)'
    BY <1>3, <2>1, <2>2, EraseInv
  <2>4. Becomes(c, d)
    BY <2>1, <2>2 DEF Becomes
  <2> QED
    BY <2>3, <2>4
<1>4. CASE EraseCurrent
  <2>1. loop.list \in Lists /\ loop.node \in ToSet(Contents(loop.list))
    BY <1>4 DEF EraseCurrent, Looping, TypeOK
  <2>2. PICK k \in Places(c[loop.list]) : loop.node = c[loop.list][k]
    BY <1>2, <2>1
  <2>3. PICK n : n = loop.node
    OBVIOUS
  <2>4. PICK l : l = loop.list
    OBVIOUS
  <2>5. l \in Lists /\ k \in Places(c[l]) /\ n = c[l][k] /\ loop.node = n
        /\ Erase(l, n) /\ stale' = stale \ {n} /\ UNCHANGED <<pair, dropped, misled, loop>>
    BY <1>4, <2>1, <2>2, <2>3, <2>4 DEF EraseCurrent
  <2> QED
    BY <1>3, <2>5
<1>5. ASSUME NEW n \in Nodes, RemoveFromParent(n) PROVE TypeOK' /\ \E d : Inv(d)' /\ Becomes(c, d)
  <2>1. CASE parent[n] = Null
    <3>1. UNCHANGED vars
      BY <1>5, <2>1 DEF RemoveFromParent, vars, links, history
    <3>2. TypeOK'
      BY <3>1 DEF TypeOK, vars
    <3>3. Inv(c)'
      <4>1. UNCHANGED <<next, prev, parent, pair, size, dropped, stale, misled, loop>>
        BY <3>1 DEF vars, history
      <4>2. IsContents(c)'
        BY <1>1, <4>1 DEF IsContents, IsListed, Stop, Head_, Tail_
      <4>3. Owners(c)'
        BY <1>1, <4>1 DEF Owners, IsListed
      <4>4. LoopIsOnTrack(c)'
        <5>1. Looping => AtEnd \/ AtNode(c[loop.list])
          BY <1>1 DEF LoopIsOnTrack
        <5> QED
          BY <1>1, <4>1, <5>1, TrackIsKept
      <4> QED
        BY <4>2, <4>3, <4>4 DEF Inv
    <3>4. Becomes(c, c)
      BY DEF Becomes
    <3> QED
      BY <3>2, <3>3, <3>4
  <2>2. CASE parent[n] # Null
    <3>1. n \notin dropped /\ Erase(parent[n], n) /\ stale' = stale \ {n} /\ UNCHANGED <<pair, dropped, loop>>
          /\ misled' = (misled \/ n \notin ToSet(Contents(parent[n])))
          /\ (Looping => n \notin ToSet(Contents(loop.list)) \/ n = loop.node)
      BY <1>5, <2>2 DEF RemoveFromParent
    <3>2. IsListed(c, n)
      BY <1>1, <2>2, <3>1 DEF Owners
    <3>3. PICK l \in Lists : \E i \in Places(c[l]) : c[l][i] = n
      BY <3>2 DEF IsListed
    <3>4. PICK k \in Places(c[l]) : c[l][k] = n
      BY <3>3
    <3>5. PICK p : p = parent[n]
      OBVIOUS
    <3>6. p \in Lists
      BY <1>1, <3>2, <3>5 DEF Owners
    <3>7. ~misled' => ~misled /\ p = l
      <4> SUFFICES ASSUME ~misled' PROVE ~misled /\ p = l
        OBVIOUS
      <4>1. ~misled /\ n \in ToSet(Contents(p))
        BY <3>1, <3>5
      <4>2. PICK j \in Places(c[p]) : c[p][j] = n
        BY <1>2, <3>6, <4>1
      <4>3. p = l
        BY <1>1, <3>4, <3>6, <4>2 DEF IsContents
      <4> QED
        BY <4>1, <4>3
    <3>8. Looping => loop.list # l \/ loop.node = n
      BY <1>2, <3>1, <3>4
    <3>9. Erase(p, n)
      BY <3>1, <3>5
    <3> QED
      BY <1>3, <3>1, <3>4, <3>6, <3>7, <3>8, <3>9
  <2> QED
    BY <2>1, <2>2
<1> QED
  BY <1>4, <1>5

\* A new loop is on track.
LEMMA StartLoopStep ==
    ASSUME TypeOK, NEW c, Inv(c), NEW l \in Lists, StartLoop(l)
    PROVE  TypeOK' /\ \E d : Inv(d)' /\ Becomes(c, d)
<1>1. IsContents(c) /\ Owners(c) /\ c[l] \in Seq(Nodes)
      /\ \A i, j \in Places(c[l]) : c[l][i] = c[l][j] => i = j
  BY DEF Inv, IsContents
<1>2. UNCHANGED <<next, prev, parent, pair, size, dropped, stale, misled>>
  BY DEF StartLoop, links, history
<1>3. IsContents(c)' /\ Owners(c)'
  <2>1. IsContents(c)'
    BY <1>1, <1>2 DEF IsContents, IsListed, Stop, Head_, Tail_
  <2>2. Owners(c)'
    BY <1>1, <1>2 DEF Owners, IsListed
  <2> QED
    BY <2>1, <2>2
<1>4. PICK s : s = c[l]
  OBVIOUS
<1>5. PICK L : L = Len(s)
  OBVIOUS
<1>6. PICK m : m = next[Head_(l)]
  OBVIOUS
<1>7. /\ L \in Nat /\ s \in Seq(Nodes)
      /\ Stop(l, s, 0) = Head_(l) /\ Stop(l, s, L + 1) = Tail_(l)
      /\ \A k \in 1 .. L + 1 : next[Stop(l, s, k - 1)] = Stop(l, s, k)
  <2>1. /\ L \in Nat
        /\ Stop(l, c[l], 0) = Head_(l) /\ Stop(l, c[l], L + 1) = Tail_(l)
        /\ \A k \in 1 .. L + 1 : next[Stop(l, c[l], k - 1)] = Stop(l, c[l], k)
    BY <1>1, <1>4, <1>5, Neighbours
  <2> QED
    BY <1>1, <1>4, <2>1
<1>8. m = Stop(l, s, 1)
  <2>1. 1 \in 1 .. L + 1 /\ 1 - 1 = 0
    BY <1>7
  <2>2. next[Stop(l, s, 1 - 1)] = Stop(l, s, 1)
    BY <1>7, <2>1
  <2> QED
    BY <1>6, <1>7, <2>1, <2>2
<1>9. Contents(l) = s
  BY <1>1, <1>4, Seen
<1>10. PICK V : V = IF m \in Nodes THEN <<m>> ELSE <<>>
  OBVIOUS
<1>11. /\ loop'.list = l /\ loop'.node = m /\ loop'.next = next[m] /\ loop'.before = s /\ loop'.visited = V
  BY <1>6, <1>9, <1>10 DEF StartLoop
<1>12. TypeOK'
  BY <1>2, <1>11 DEF TypeOK
<1>13. \A z, j : Stop(l, z, j)' = Stop(l, z, j)
  BY <1>2 DEF Stop, Head_, Tail_
<1>14. Places(s) = 1 .. L /\ \A i \in 1 .. L : s[i] \in Nodes
  BY <1>5, <1>7, ElementOfSeq DEF Places
<1>15. CASE L = 0
  <2>1. m = Tail_(l) /\ m \notin Nodes
    <3>1. m = Tail_(l)
      BY <1>7, <1>8, <1>15
    <3> QED
      BY <3>1, Dummy DEF TypeOK, Tail_
  <2>2. V = <<>> /\ V \in Seq(Nodes) /\ s = <<>>
    BY <1>5, <1>7, <1>10, <1>15, <2>1, EmptySeq
  <2>3. AtEnd'
    <3>1. ToSet(s) \subseteq ToSet(V)
      BY <2>2
    <3>2. m = TailOf(pair'[l])
      BY <1>2, <2>1 DEF Tail_
    <3> QED
      BY <1>11, <3>1, <3>2 DEF AtEnd, Tail_
  <2>4. SameOrder(V, s)
    BY <2>2 DEF SameOrder
  <2>5. LoopIsOnTrack(c)'
    BY <1>1, <1>4, <1>7, <1>11, <2>2, <2>3, <2>4 DEF LoopIsOnTrack
  <2> QED
    BY <1>3, <1>12, <2>5 DEF Inv, Becomes
<1>16. CASE L # 0
  <2>1. 1 \in 1 .. L /\ m = s[1] /\ m \in Nodes
    <3>1. 1 \in 1 .. L
      BY <1>7, <1>16
    <3>2. Stop(l, s, 1) = s[1]
      BY <1>5, <1>7, <1>16 DEF Stop
    <3> QED
      BY <1>8, <1>14, <3>1, <3>2
  <2>2. V = <<m>>
    BY <1>10, <2>1
  <2>3. V \in Seq(Nodes) /\ DOMAIN V = {1} /\ V[1] = m
    BY <2>1, <2>2
  <2>4. ToSet(V) = {m}
    BY <2>3 DEF ToSet
  <2>5. SameOrder(V, s)
    <3> SUFFICES ASSUME NEW i \in DOMAIN V, NEW j \in DOMAIN V, NEW p \in DOMAIN s, NEW r \in DOMAIN s,
                        V[i] = s[p], V[j] = s[r]
                 PROVE  i < j <=> p < r
      BY DEF SameOrder
    <3>1. i = 1 /\ j = 1
      BY <2>3
    <3>2. p \in 1 .. L /\ r \in 1 .. L /\ s[p] = s[r]
      <4>1. DOMAIN s = 1 .. L
        BY <1>5, <1>7, LenProperties
      <4> QED
        BY <3>1, <4>1
    <3>3. p = r
      BY <1>1, <1>4, <1>14, <3>2
    <3> QED
      BY <1>7, <3>1, <3>2, <3>3
  <2>6. next[m] = Stop(l, s, 2)
    <3>1. 2 \in 1 .. L + 1 /\ 2 - 1 = 1
      BY <1>7, <1>16
    <3>2. next[Stop(l, s, 2 - 1)] = Stop(l, s, 2)
      BY <1>7, <3>1
    <3> QED
      BY <1>8, <3>1, <3>2
  <2>7. \A i \in 1 .. L : i >= 2 => s[i] \notin ToSet(V)
    <3>1. \A i, j \in 1 .. L : s[i] = s[j] => i = j
      BY <1>1, <1>4, <1>14
    <3> QED
      BY <1>7, <2>1, <2>4, <3>1
  <2>8. ASSUME NEW p \in 1 .. L, s[p] \notin ToSet(V)
        PROVE  /\ \E i \in 1 .. L : i >= 2 /\ s[i] = s[p]
               /\ \A r \in 1 .. L : p < r =>
                     /\ s[r] \notin ToSet(V)
                     /\ \A i, j \in 1 .. L : s[i] = s[p] /\ s[j] = s[r] => i < j
    <3>1. \A i, j \in 1 .. L : s[i] = s[j] => i = j
      BY <1>1, <1>4, <1>14
    <3>2. p # 1
      BY <2>1, <2>4, <2>8
    <3>3. p >= 2
      BY <1>7, <3>2
    <3>4. \A r \in 1 .. L : p < r => s[r] \notin ToSet(V)
      BY <1>7, <2>7, <3>3
    <3> QED
      BY <1>7, <3>1, <3>3, <3>4
  <2>9. GoesOnAt(s, 2)'
    <3>1. /\ next[m] = Stop(l, s, 2)
          /\ \A i \in Places(s) : i >= 2 => s[i] \notin ToSet(V)
          /\ \A p \in Places(s) :
                s[p] \notin ToSet(V) =>
                    /\ \E i \in Places(s) : i >= 2 /\ s[i] = s[p]
                    /\ \A r \in Places(s) : p < r =>
                        /\ s[r] \notin ToSet(V)
                        /\ \A i, j \in Places(s) : s[i] = s[p] /\ s[j] = s[r] => i < j
      BY <1>14, <2>6, <2>7, <2>8
    <3> QED
      BY <1>11, <1>13, <3>1 DEF GoesOnAt
  <2>10. AtNode(s)'
    <3>1. 2 \in 1 .. Len(s) + 1
      BY <1>5, <1>7, <1>16
    <3>2. m \in ToSet(V)
      BY <2>4
    <3> QED
      BY <1>11, <2>1, <2>9, <3>1, <3>2 DEF AtNode
  <2>11. LoopIsOnTrack(c)'
    <3>1. AtNode(c[loop.list])'
      <4>1. c[loop'.list] = s
        BY <1>4, <1>11
      <4>2. AtNode(c[loop.list])' <=> AtNode(s)'
        BY <4>1 DEF AtNode, GoesOnAt
      <4> QED
        BY <2>10, <4>2
    <3> QED
      BY <1>1, <1>4, <1>11, <2>3, <2>5, <3>1 DEF LoopIsOnTrack
  <2> QED
    BY <1>3, <1>12, <2>11 DEF Inv, Becomes
<1> QED
  BY <1>15, <1>16

\* ++iter: to the tail when nothing is left to meet, and to the first of what is left.
LEMMA AdvanceStep ==
    ASSUME TypeOK, NEW c, Inv(c), Advance
    PROVE  TypeOK' /\ \E d : Inv(d)' /\ Becomes(c, d)
<1>1. IsContents(c) /\ Owners(c) /\ LoopIsOnTrack(c)
  BY DEF Inv
<1>2. UNCHANGED <<next, prev, parent, pair, size, dropped, stale, misled>>
  BY DEF Advance, links, history
<1>3. IsContents(c)' /\ Owners(c)'
  <2>1. IsContents(c)'
    BY <1>1, <1>2 DEF IsContents, IsListed, Stop, Head_, Tail_
  <2>2. Owners(c)'
    BY <1>1, <1>2 DEF Owners, IsListed
  <2> QED
    BY <2>1, <2>2
<1>4. PICK l : l = loop.list
  OBVIOUS
<1>5. PICK V : V = loop.visited
  OBVIOUS
<1>6. PICK B : B = loop.before
  OBVIOUS
<1>7. PICK m : m = loop.next
  OBVIOUS
<1>8. PICK s : s = c[l]
  OBVIOUS
<1>9. PICK L : L = Len(s)
  OBVIOUS
<1>10. PICK W : W = IF m \in Nodes THEN Append(V, m) ELSE V
  OBVIOUS
<1>11. /\ loop'.list = l /\ loop'.node = m /\ loop'.next = next[m] /\ loop'.before = B /\ loop'.visited = W
  BY <1>4, <1>5, <1>6, <1>7, <1>10 DEF Advance, At
<1>12. TypeOK'
  BY <1>2, <1>4, <1>11 DEF TypeOK
<1>13. \A z, j : Stop(l, z, j)' = Stop(l, z, j)
  BY <1>2 DEF Stop, Head_, Tail_
<1>14. /\ l \in Lists /\ V \in Seq(Nodes) /\ B \in Seq(Nodes) /\ s \in Seq(Nodes)
       /\ \A p, r \in Places(B) : B[p] = B[r] => p = r
       /\ SameOrder(V, B)
       /\ \A i, j \in Places(s) : s[i] = s[j] => i = j
  <2>1. Looping
    BY DEF Advance
  <2>2. l \in Lists
    BY <1>4, <2>1 DEF Looping, TypeOK
  <2> QED
    BY <1>1, <1>4, <1>5, <1>6, <1>8, <2>1, <2>2 DEF LoopIsOnTrack, IsContents
<1>15. /\ L \in Nat /\ Places(s) = 1 .. L /\ \A i \in 1 .. L : s[i] \in Nodes
  BY <1>9, <1>14, LenProperties, ElementOfSeq DEF Places
<1>16. PICK q \in 1 .. L + 1 : GoesOnAt(s, q)
  <2>1. AtEnd \/ AtNode(c[loop.list])
    BY <1>1 DEF LoopIsOnTrack, Advance
  <2>2. ~AtEnd
    BY DEF AtEnd, Advance
  <2>3. AtNode(s)
    BY <1>4, <1>8, <2>1, <2>2
  <2> QED
    BY <1>9, <2>3 DEF AtNode
<1>17. /\ m = Stop(l, s, q)
       /\ \A i \in 1 .. L : i >= q => s[i] \notin ToSet(V)
       /\ \A p \in Places(B) :
            B[p] \notin ToSet(V) =>
                /\ \E i \in 1 .. L : i >= q /\ s[i] = B[p]
                /\ \A r \in Places(B) : p < r =>
                    /\ B[r] \notin ToSet(V)
                    /\ \A i, j \in 1 .. L : s[i] = B[p] /\ s[j] = B[r] => i < j
  BY <1>4, <1>5, <1>6, <1>7, <1>15, <1>16 DEF GoesOnAt
<1>18. CASE q = L + 1
  <2>1. m = Tail_(l) /\ m \notin Nodes
    <3>1. m = Tail_(l)
      BY <1>9, <1>15, <1>17, <1>18 DEF Stop
    <3> QED
      BY <1>14, <3>1, Dummy DEF TypeOK, Tail_
  <2>2. W = V
    BY <1>10, <2>1
  <2>3. ToSet(B) \subseteq ToSet(V)
    <3>1. \A p \in Places(B) : B[p] \in ToSet(V)
      BY <1>15, <1>17, <1>18
    <3>2. DOMAIN B = Places(B)
      BY <1>14, LenProperties DEF Places
    <3> QED
      BY <3>1, <3>2 DEF ToSet
  <2>4. AtEnd'
    <3>1. m = TailOf(pair'[l])
      BY <1>2, <2>1 DEF Tail_
    <3> QED
      BY <1>11, <2>2, <2>3, <3>1 DEF AtEnd, Tail_
  <2>5. LoopIsOnTrack(c)'
    BY <1>11, <1>14, <2>2, <2>4 DEF LoopIsOnTrack
  <2> QED
    BY <1>3, <1>12, <2>5 DEF Inv, Becomes
<1>19. CASE q \in 1 .. L
  <2>1. m = s[q] /\ m \in Nodes /\ m \notin ToSet(V)
    <3>1. m = s[q]
      BY <1>9, <1>15, <1>17, <1>19 DEF Stop
    <3>2. q >= q
      BY <1>15, <1>19
    <3> QED
      BY <1>15, <1>17, <1>19, <3>1, <3>2
  <2>2. PICK N : N = Len(V)
    OBVIOUS
  <2>3. /\ W \in Seq(Nodes) /\ N \in Nat /\ DOMAIN V = 1 .. N /\ DOMAIN W = 1 .. N + 1
        /\ W[N + 1] = m /\ \A i \in 1 .. N : W[i] = V[i]
    <3>1. W = Append(V, m)
      BY <1>10, <2>1
    <3>2. /\ W \in Seq(Nodes) /\ Len(W) = N + 1 /\ W[N + 1] = m /\ \A i \in 1 .. N : W[i] = V[i]
      BY <1>14, <2>1, <2>2, <3>1, AppendProperties
    <3>3. N \in Nat /\ DOMAIN V = 1 .. N
      BY <1>14, <2>2, LenProperties
    <3>4. DOMAIN W = 1 .. N + 1
      BY <3>2, LenProperties
    <3> QED
      BY <3>2, <3>3, <3>4
  <2>4. \A x : x \in ToSet(W) <=> x \in ToSet(V) \/ x = m
    <3>1. \A x : x \in ToSet(V) <=> \E i \in 1 .. N : V[i] = x
      BY <2>3 DEF ToSet
    <3>2. \A x : x \in ToSet(W) <=> \E i \in 1 .. N + 1 : W[i] = x
      BY <2>3 DEF ToSet
    <3>3. ASSUME NEW x PROVE x \in ToSet(W) <=> x \in ToSet(V) \/ x = m
      <4>1. N + 1 \in 1 .. N + 1 /\ \A i \in 1 .. N : i \in 1 .. N + 1
        BY <2>3
      <4>2. \A i \in 1 .. N + 1 : i = N + 1 \/ i \in 1 .. N
        BY <2>3
      <4> QED
        BY <2>3, <3>1, <3>2, <4>1, <4>2
    <3> QED
      BY <3>3
  <2>5. \A p \in Places(B) : B[p] \notin ToSet(W) => B[p] \notin ToSet(V) /\ B[p] # m
    BY <2>4
  <2>6. SameOrder(W, B)
    <3> SUFFICES ASSUME NEW i \in 1 .. N + 1, NEW j \in 1 .. N + 1, NEW p \in Places(B), NEW r \in Places(B),
                        W[i] = B[p], W[j] = B[r]
                 PROVE  i < j <=> p < r
      <4>1. DOMAIN B = Places(B)
        BY <1>14, LenProperties DEF Places
      <4> QED
        BY <2>3, <4>1 DEF SameOrder
    <3>1. p \in Nat /\ r \in Nat
      BY <1>14, LenProperties DEF Places
    <3>2. \A a, b \in Places(B) : a < b /\ B[a] \notin ToSet(V) => B[b] \notin ToSet(V)
      BY <1>17
    <3>3. \A a \in 1 .. N : V[a] \in ToSet(V)
      BY <2>3 DEF ToSet
    <3>4. CASE i \in 1 .. N /\ j \in 1 .. N
      <4>1. V[i] = B[p] /\ V[j] = B[r] /\ p \in DOMAIN B /\ r \in DOMAIN B /\ i \in DOMAIN V /\ j \in DOMAIN V
        BY <1>14, <2>3, <3>4, LenProperties DEF Places
      <4> QED
        BY <1>14, <4>1 DEF SameOrder
    <3>5. CASE i \in 1 .. N /\ j = N + 1
      <4>1. B[p] \in ToSet(V) /\ B[r] \notin ToSet(V)
        BY <2>1, <2>3, <3>3, <3>5
      <4>2. ~(r < p) /\ r # p
        BY <3>2, <4>1
      <4> QED
        BY <2>3, <3>1, <3>5, <4>2
    <3>6. CASE i = N + 1 /\ j \in 1 .. N
      <4>1. B[r] \in ToSet(V) /\ B[p] \notin ToSet(V)
        BY <2>1, <2>3, <3>3, <3>6
      <4>2. ~(p < r)
        BY <3>2, <4>1
      <4> QED
        BY <2>3, <3>1, <3>6, <4>2
    <3>7. CASE i = N + 1 /\ j = N + 1
      <4>1. p = r
        BY <1>14, <2>3, <3>7
      <4> QED
        BY <2>3, <3>1, <3>7, <4>1
    <3> QED
      BY <2>3, <3>4, <3>5, <3>6, <3>7
  <2>7. next[m] = Stop(l, s, q + 1)
    <3>1. \A k \in 1 .. L + 1 : next[Stop(l, s, k - 1)] = Stop(l, s, k)
      BY <1>1, <1>8, <1>9, <1>14, Neighbours
    <3>2. PICK k : k = q + 1
      OBVIOUS
    <3>3. k \in 1 .. L + 1 /\ k - 1 = q
      BY <1>15, <1>19, <3>2
    <3>4. next[Stop(l, s, k - 1)] = Stop(l, s, k)
      BY <3>1, <3>3
    <3> QED
      BY <1>17, <3>2, <3>3, <3>4
  <2>8. \A i \in 1 .. L : i >= q + 1 => s[i] \notin ToSet(W)
    <3>1. \A i, j \in 1 .. L : s[i] = s[j] => i = j
      BY <1>14, <1>15
    <3>2. ASSUME NEW i \in 1 .. L, i >= q + 1 PROVE s[i] \notin ToSet(W)
      <4>1. i >= q /\ i # q
        BY <1>15, <1>19, <3>2
      <4>2. s[i] \notin ToSet(V) /\ s[i] # m
        BY <1>17, <1>19, <2>1, <3>1, <4>1
      <4> QED
        BY <2>4, <4>2
    <3> QED
      BY <3>2
  <2>9. ASSUME NEW p \in Places(B), B[p] \notin ToSet(W)
        PROVE  /\ \E i \in 1 .. L : i >= q + 1 /\ s[i] = B[p]
               /\ \A r \in Places(B) : p < r =>
                     /\ B[r] \notin ToSet(W)
                     /\ \A i, j \in 1 .. L : s[i] = B[p] /\ s[j] = B[r] => i < j
    <3>1. B[p] \notin ToSet(V) /\ B[p] # m
      BY <2>5, <2>9
    <3>2. PICK a \in 1 .. L : a >= q /\ s[a] = B[p]
      BY <1>17, <3>1
    <3>3. a # q
      BY <2>1, <3>1, <3>2
    <3>4. a >= q + 1
      BY <1>15, <1>19, <3>2, <3>3
    <3>5. \A r \in Places(B) : p < r =>
            B[r] \notin ToSet(V) /\ \A i, j \in 1 .. L : s[i] = B[p] /\ s[j] = B[r] => i < j
      BY <1>17, <3>1
    <3>6. ASSUME NEW r \in Places(B), p < r PROVE B[r] # m
      <4> SUFFICES ASSUME B[r] = m PROVE FALSE
        OBVIOUS
      <4>1. s[q] = B[r] /\ s[a] = B[p]
        BY <2>1, <3>2
      <4>2. a < q
        BY <1>19, <3>5, <3>6, <4>1
      <4> QED
        BY <1>15, <1>19, <3>4, <4>2
    <3> QED
      BY <2>4, <3>2, <3>4, <3>5, <3>6
  <2>10. GoesOnAt(s, q + 1)'
    BY <1>11, <1>13, <1>15, <2>7, <2>8, <2>9 DEF GoesOnAt
  <2>11. AtNode(s)'
    <3>1. q + 1 \in 1 .. Len(s) + 1
      BY <1>9, <1>15, <1>19
    <3>2. m \in ToSet(W)
      BY <2>4
    <3> QED
      BY <1>11, <2>1, <2>10, <3>1, <3>2 DEF AtNode
  <2>12. LoopIsOnTrack(c)'
    <3>1. AtNode(c[loop.list])'
      <4>1. c[loop'.list] = s
        BY <1>8, <1>11
      <4>2. AtNode(c[loop.list])' <=> AtNode(s)'
        BY <4>1 DEF AtNode, GoesOnAt
      <4> QED
        BY <2>11, <4>2
    <3> QED
      BY <1>11, <1>14, <2>3, <2>6, <3>1 DEF LoopIsOnTrack
  <2> QED
    BY <1>3, <1>12, <2>12 DEF Inv, Becomes
<1> QED
  BY <1>15, <1>18, <1>19

\* A loop that is past the last node ends.
LEMMA EndLoopStep ==
    ASSUME TypeOK, NEW c, Inv(c), EndLoop
    PROVE  TypeOK' /\ \E d : Inv(d)' /\ Becomes(c, d)
<1>1. UNCHANGED <<next, prev, parent, pair, size, dropped, stale, misled>> /\ loop' = [list |-> Null]
  BY DEF EndLoop, links, history, NoLoop
<1>2. IsContents(c)'
  BY <1>1 DEF Inv, IsContents, IsListed, Stop, Head_, Tail_
<1>3. Owners(c)'
  BY <1>1 DEF Inv, Owners, IsListed
<1>4. loop'.list = Null
  BY <1>1
<1>5. LoopIsOnTrack(c)'
  BY <1>4 DEF LoopIsOnTrack, Looping
<1>6. TypeOK'
  BY <1>1, <1>4 DEF TypeOK
<1> QED
  BY <1>2, <1>3, <1>5, <1>6 DEF Inv, Becomes

\* operator= finds dummies that no list has: there is a pair more than lists.
LEMMA FreshPair ==
    ASSUME TypeOK
    PROVE  \E p \in Pairs : \A l \in Lists : pair[l] # p
<1> SUFFICES ASSUME \A p \in Pairs : \E l \in Lists : pair[l] = p PROVE FALSE
  OBVIOUS
<1>1. PICK N : N = Cardinality(Lists)
  OBVIOUS
<1>2. N \in Nat /\ IsFiniteSet(Lists)
  BY <1>1, FiniteAssumption, FS_CardinalityType
<1>3. Pairs = 1 .. N + 1
  BY <1>1 DEF Pairs
<1>4. Cardinality(Pairs) = N + 1
  <2>1. Cardinality(1 .. N + 1) = N + 1
    BY <1>2, FS_Interval
  <2> QED
    BY <1>3, <2>1
<1>5. pair \in Surjection(Lists, Pairs)
  BY DEF TypeOK, Surjection
<1>6. Cardinality(Pairs) <= Cardinality(Lists)
  BY <1>2, <1>5, FS_Surjection
<1> QED
  BY <1>1, <1>2, <1>4, <1>6

\* operator=: the nodes of l are cut loose, l has the nodes of m, m has none.
LEMMA MoveStep ==
    ASSUME TypeOK, NEW c, Inv(c), NEW l \in Lists, NEW m \in Lists, MoveAssign(l, m)
    PROVE  TypeOK' /\ \E d : Inv(d)' /\ Becomes(c, d)
<1>1. IsContents(c) /\ Owners(c) /\ c \in [Lists -> Seq(Nodes)] /\ l # m /\ ~Looping
      /\ \A o, w \in Lists : \A i \in Places(c[o]), j \in Places(c[w]) : c[o][i] = c[w][j] => o = w /\ i = j
  BY DEF Inv, IsContents, MoveAssign
<1>2. PICK mine : mine = ToSet(c[l]) \cup {Head_(l), Tail_(l)}
  OBVIOUS
<1>3. PICK f : f = CHOOSE p \in Pairs : \A o \in Lists : pair[o] # p
  OBVIOUS
<1>4. f \in Pairs /\ \A o \in Lists : pair[o] # f
  BY <1>3, FreshPair
<1>5. PICK H : H = HeadOf(f)
  OBVIOUS
<1>6. PICK T : T = TailOf(f)
  OBVIOUS
<1>7. /\ Contents(l) = c[l] /\ ToSet(c[l]) = {c[l][i] : i \in Places(c[l])}
      /\ Contents(m) = c[m] /\ ToSet(c[m]) = {c[m][i] : i \in Places(c[m])}
  <2>1. /\ \A o \in Lists : Contents(o) = c[o]
        /\ \A o \in Lists : ToSet(c[o]) = {c[o][i] : i \in Places(c[o])}
    BY <1>1, Seen
  <2> QED
    BY <2>1, Zenon
<1>8. /\ next' = [n \in Links |-> IF n = H THEN T ELSE IF n \in mine THEN Null ELSE next[n]]
      /\ prev' = [n \in Links |-> IF n = T THEN H ELSE IF n \in mine THEN Null ELSE prev[n]]
      /\ pair' = [pair EXCEPT ![l] = pair[m], ![m] = f]
      /\ dropped' = dropped \cup ToSet(c[l])
      /\ size' = [size EXCEPT ![l] = size[m], ![m] = 0]
      /\ stale' = (stale \ ToSet(c[l])) \cup ToSet(c[m])
      /\ UNCHANGED <<parent, misled, loop>>
  BY <1>2, <1>3, <1>5, <1>6, <1>7 DEF MoveAssign
<1>9. /\ H \in Links \ Nodes /\ T \in Links \ Nodes /\ H # T /\ Nodes \subseteq Links
      /\ \A o \in Lists : Head_(o) # H /\ Head_(o) # T /\ Tail_(o) # H /\ Tail_(o) # T
  BY <1>4, <1>5, <1>6, Dummy DEF TypeOK, Head_, Tail_
<1>10. PICK d : d = [c EXCEPT ![l] = c[m], ![m] = <<>>]
  OBVIOUS
<1>11. /\ d \in [Lists -> Seq(Nodes)] /\ d[l] = c[m] /\ d[m] = <<>>
       /\ \A o \in Lists : o # l /\ o # m => d[o] = c[o]
  <2>1. <<>> \in Seq(Nodes) /\ c[m] \in Seq(Nodes)
    BY <1>1
  <2> QED
    BY <1>1, <1>10, <2>1
<1>12. /\ pair' \in [Lists -> Pairs] /\ pair'[l] = pair[m] /\ pair'[m] = f
       /\ \A o \in Lists : o # l /\ o # m => pair'[o] = pair[o]
  BY <1>1, <1>4, <1>8 DEF TypeOK
<1>13. TypeOK'
  <2>1. next' \in [Links -> Links \cup {Null}] /\ prev' \in [Links -> Links \cup {Null}]
    BY <1>8, <1>9 DEF TypeOK
  <2>2. ToSet(c[l]) \subseteq Nodes
    BY <1>1, <1>7, ElementOfSeq DEF Places
  <2>3. size' \in [Lists -> 0 .. SizeMod - 1]
    <3>1. 0 \in 0 .. SizeMod - 1
      BY SizeAssumption
    <3> QED
      BY <1>8, <3>1 DEF TypeOK
  <2> QED
    BY <1>8, <1>12, <2>1, <2>2, <2>3 DEF TypeOK
<1>14. ASSUME NEW o \in Lists, o # l, NEW j \in 0 .. Len(c[o]) + 1
       PROVE  Stop(o, c[o], j) \in Links /\ Stop(o, c[o], j) # H /\ Stop(o, c[o], j) # T /\ Stop(o, c[o], j) \notin mine
  <2>1. PICK x : x = Stop(o, c[o], j)
    OBVIOUS
  <2>2. PICK L : L = Len(c[l])
    OBVIOUS
  <2>3. /\ L \in Nat /\ Stop(l, c[l], 0) = Head_(l) /\ Stop(l, c[l], L + 1) = Tail_(l)
    BY <1>1, <2>2, Neighbours
  <2>4. x \in Links /\ \A i \in 0 .. L + 1 : Stop(l, c[l], i) # x
    BY <1>1, <1>14, <2>1, <2>2, StopsDiffer
  <2>5. x # Head_(l) /\ x # Tail_(l)
    <3>1. 0 \in 0 .. L + 1 /\ L + 1 \in 0 .. L + 1
      BY <2>3
    <3> QED
      BY <2>3, <2>4, <3>1
  <2>6. x \notin ToSet(c[l])
    <3> SUFFICES ASSUME NEW i \in Places(c[l]), x = c[l][i] PROVE FALSE
      BY <1>7
    <3>1. i \in 0 .. L + 1 /\ Stop(l, c[l], i) = c[l][i]
      BY <2>2, <2>3 DEF Places, Stop
    <3> QED
      BY <2>4, <3>1
  <2>7. x # H /\ x # T
    <3>1. x \in Nodes \/ x = Head_(o) \/ x = Tail_(o)
      <4>1. j \in Places(c[o]) => x \in Nodes
        BY <1>1, <2>1, StopsDiffer
      <4>2. j = 0 => x = Head_(o)
        BY <2>1 DEF Stop
      <4>3. Len(c[o]) \in Nat
        BY <1>1, LenProperties
      <4>4. j = Len(c[o]) + 1 => x = Tail_(o)
        BY <2>1, <4>3 DEF Stop
      <4> QED
        BY <4>1, <4>2, <4>3, <4>4 DEF Places
    <3> QED
      BY <1>9, <3>1
  <2> QED
    BY <1>2, <2>1, <2>4, <2>5, <2>6, <2>7
<1>15. ASSUME NEW o \in Lists, o # l, NEW j \in 0 .. Len(c[o])
       PROVE  /\ next'[Stop(o, c[o], j)] = Stop(o, c[o], j + 1)
              /\ prev'[Stop(o, c[o], j + 1)] = Stop(o, c[o], j)
  <2>1. PICK L : L = Len(c[o])
    OBVIOUS
  <2>2. L \in Nat
    BY <1>1, <2>1, LenProperties
  <2>3. j \in 0 .. L + 1 /\ j + 1 \in 0 .. L + 1
    BY <2>1, <2>2
  <2>4. next[Stop(o, c[o], j)] = Stop(o, c[o], j + 1) /\ prev[Stop(o, c[o], j + 1)] = Stop(o, c[o], j)
    BY <1>1 DEF IsContents
  <2>5. \A i \in 0 .. L + 1 : /\ Stop(o, c[o], i) \in Links /\ Stop(o, c[o], i) # H
                              /\ Stop(o, c[o], i) # T /\ Stop(o, c[o], i) \notin mine
    BY <1>14, <1>15, <2>1
  <2>6. next'[Stop(o, c[o], j)] = next[Stop(o, c[o], j)]
    BY <1>8, <2>3, <2>5
  <2>7. prev'[Stop(o, c[o], j + 1)] = prev[Stop(o, c[o], j + 1)]
    BY <1>8, <2>3, <2>5
  <2> QED
    BY <2>4, <2>6, <2>7
<1>16. ASSUME NEW o \in Lists, NEW j \in 0 .. Len(d[o])
       PROVE  next'[Stop(o, d[o], j)'] = Stop(o, d[o], j + 1)' /\ prev'[Stop(o, d[o], j + 1)'] = Stop(o, d[o], j)'
  <2>1. CASE o = m
    <3>1. j = 0 /\ Len(d[o]) = 0
      BY <1>11, <2>1
    <3>2. Stop(o, d[o], j)' = H /\ Stop(o, d[o], j + 1)' = T
      BY <1>5, <1>6, <1>12, <2>1, <3>1 DEF Stop, Head_, Tail_
    <3> QED
      BY <1>8, <1>9, <3>2
  <2>2. CASE o = l
    <3>1. d[o] = c[m]
      BY <1>11, <2>2
    <3>2. \A z, i : Stop(l, z, i)' = Stop(m, z, i)
      BY <1>12 DEF Stop, Head_, Tail_
    <3>3. Stop(o, d[o], j)' = Stop(m, c[m], j) /\ Stop(o, d[o], j + 1)' = Stop(m, c[m], j + 1) /\ j \in 0 .. Len(c[m])
      BY <2>2, <3>1, <3>2
    <3>4. /\ next'[Stop(m, c[m], j)] = Stop(m, c[m], j + 1)
          /\ prev'[Stop(m, c[m], j + 1)] = Stop(m, c[m], j)
      BY <1>1, <1>15, <3>3
    <3> QED
      BY <3>3, <3>4, Zenon
  <2>3. CASE o # l /\ o # m
    <3>1. d[o] = c[o]
      BY <1>11, <2>3
    <3>2. \A z, i : Stop(o, z, i)' = Stop(o, z, i)
      BY <1>12, <2>3 DEF Stop, Head_, Tail_
    <3>3. Stop(o, d[o], j)' = Stop(o, c[o], j) /\ Stop(o, d[o], j + 1)' = Stop(o, c[o], j + 1) /\ j \in 0 .. Len(c[o])
      BY <3>1, <3>2
    <3>4. /\ next'[Stop(o, c[o], j)] = Stop(o, c[o], j + 1)
          /\ prev'[Stop(o, c[o], j + 1)] = Stop(o, c[o], j)
      BY <1>15, <2>3, <3>3
    <3> QED
      BY <3>3, <3>4, Zenon
  <2> QED
    BY <2>1, <2>2, <2>3
<1>17. ASSUME NEW o \in Lists, NEW i \in Places(d[o])
       PROVE  o # m /\ \E w \in Lists : /\ w # l /\ w = (IF o = l THEN m ELSE o)
                                        /\ i \in Places(c[w]) /\ d[o][i] = c[w][i]
  <2>1. o # m
    BY <1>11, <1>17 DEF Places
  <2>2. CASE o = l
    <3>1. i \in Places(c[m]) /\ d[o][i] = c[m][i]
      BY <1>11, <2>2
    <3> QED
      BY <1>1, <2>2, <3>1
  <2>3. CASE o # l
    <3>1. i \in Places(c[o]) /\ d[o][i] = c[o][i]
      BY <1>11, <2>1, <2>3
    <3> QED
      BY <2>1, <2>3, <3>1
  <2> QED
    BY <2>2, <2>3
<1>18. \A x : IsListed(d, x) <=> \E w \in Lists : w # l /\ \E i \in Places(c[w]) : c[w][i] = x
  <2>1. ASSUME NEW x, IsListed(d, x) PROVE \E w \in Lists : w # l /\ \E i \in Places(c[w]) : c[w][i] = x
    BY <1>17, <2>1 DEF IsListed
  <2>2. ASSUME NEW x, NEW w \in Lists, w # l, NEW i \in Places(c[w]), c[w][i] = x PROVE IsListed(d, x)
    <3>1. CASE w = m
      <4>1. i \in Places(d[l]) /\ d[l][i] = x
        BY <1>11, <2>2, <3>1
      <4> QED
        BY <4>1 DEF IsListed
    <3>2. CASE w # m
      <4>1. i \in Places(d[w]) /\ d[w][i] = x
        BY <1>11, <2>2, <3>2
      <4> QED
        BY <4>1 DEF IsListed
    <3> QED
      BY <3>1, <3>2
  <2> QED
    BY <2>1, <2>2
<1>19. \A x : IsListed(c, x) <=> IsListed(d, x) \/ x \in ToSet(c[l])
  BY <1>7, <1>18 DEF IsListed
<1>20. IsContents(d)'
  <2>1. \A o, w \in Lists : pair'[o] = pair'[w] => o = w
    <3>1. \A o, w \in Lists : pair[o] = pair[w] => o = w
      BY <1>1 DEF IsContents
    <3> QED
      BY <1>4, <1>12, <3>1
  <2>2. ASSUME NEW o \in Lists, NEW w \in Lists, NEW i \in Places(d[o]), NEW j \in Places(d[w]), d[o][i] = d[w][j]
        PROVE  o = w /\ i = j
    <3>1. PICK a \in Lists : o # m /\ a # l /\ a = (IF o = l THEN m ELSE o) /\ i \in Places(c[a]) /\ d[o][i] = c[a][i]
      BY <1>17
    <3>2. PICK b \in Lists : w # m /\ b # l /\ b = (IF w = l THEN m ELSE w) /\ j \in Places(c[b]) /\ d[w][j] = c[b][j]
      BY <1>17
    <3>3. a = b /\ i = j
      <4>1. c[a][i] = c[b][j] /\ i \in Places(c[a]) /\ j \in Places(c[b])
        BY <2>2, <3>1, <3>2, Zenon
      <4> QED
        BY <1>1, <4>1
    <3> QED
      BY <3>1, <3>2, <3>3
  <2>3. ASSUME NEW x \in Nodes, ~IsListed(d, x) PROVE next'[x] = Null /\ prev'[x] = Null
    <3>1. x # H /\ x # T /\ x \in Links
      BY <1>9
    <3>2. CASE x \in mine
      BY <1>8, <3>1, <3>2
    <3>3. CASE x \notin mine
      <4>1. ~IsListed(c, x)
        BY <1>2, <1>19, <2>3, <3>3
      <4>2. next[x] = Null /\ prev[x] = Null
        BY <1>1, <4>1 DEF IsContents
      <4> QED
        BY <1>8, <3>1, <3>3, <4>2
    <3> QED
      BY <3>2, <3>3
  <2>4. \A x : IsListed(d, x)' <=> IsListed(d, x)
    BY DEF IsListed
  <2>5. \A x \in Nodes : ~IsListed(d, x)' => next'[x] = Null /\ prev'[x] = Null
    BY <2>3, <2>4
  <2>6. \A o, w \in Lists : \A i \in Places(d[o]), j \in Places(d[w]) : d[o][i] = d[w][j] => o = w /\ i = j
    BY <2>2, Zenon
  <2> HIDE DEF IsListed
  <2> QED
    BY <1>11, <1>16, <2>1, <2>5, <2>6, Zenon DEF IsContents
<1>21. Owners(d)'
  <2>1. ASSUME NEW x \in Nodes, IsListed(d, x) PROVE x \notin dropped' /\ parent'[x] \in Lists
    <3>1. IsListed(c, x) /\ x \notin ToSet(c[l])
      BY <1>1, <1>7, <1>18, <1>19, <2>1
    <3> QED
      BY <1>1, <1>8, <3>1 DEF Owners
  <2>2. ASSUME NEW x \in Nodes, ~IsListed(d, x), x \notin dropped' PROVE parent'[x] = Null
    <3>1. ~IsListed(c, x) /\ x \notin dropped
      BY <1>8, <1>19, <2>2
    <3> QED
      BY <1>1, <1>8, <3>1 DEF Owners
  <2>3. ASSUME NEW o \in Lists, NEW i \in Places(d[o]), d[o][i] \notin stale' PROVE parent'[d[o][i]] = o
    <3>1. o # l
      <4> SUFFICES ASSUME o = l PROVE FALSE
        OBVIOUS
      <4>1. i \in Places(c[m]) /\ d[o][i] = c[m][i]
        BY <1>11
      <4>2. d[o][i] \in ToSet(c[m])
        BY <1>7, <4>1
      <4> QED
        BY <1>8, <2>3, <4>2
    <3>2. o # m
      <4>1. Places(<<>>) = {}
        BY DEF Places
      <4> QED
        BY <1>11, <4>1
    <3>3. d[o] = c[o]
      BY <1>11, <3>1, <3>2
    <3>4. PICK x : x = c[o][i]
      OBVIOUS
    <3>5. i \in Places(c[o]) /\ x = d[o][i]
      BY <3>3, <3>4
    <3>6. x \notin ToSet(c[l])
      <4> SUFFICES ASSUME NEW j \in Places(c[l]), x = c[l][j] PROVE FALSE
        BY <1>7
      <4>1. c[o][i] = c[l][j]
        BY <3>4
      <4>2. o = l
        BY <1>1, <3>5, <4>1
      <4> QED
        BY <3>1, <4>2
    <3>7. x \notin stale
      BY <1>8, <2>3, <3>5, <3>6
    <3>8. parent[x] = o
      <4>1. \A w \in Lists : \A j \in Places(c[w]) : c[w][j] \notin stale => parent[c[w][j]] = w
        BY <1>1 DEF Owners
      <4>2. c[o][i] \notin stale
        BY <3>4, <3>7, Zenon
      <4>3. parent[c[o][i]] = o
        BY <3>5, <4>1, <4>2
      <4> QED
        BY <3>4, <4>3, Zenon
    <3> QED
      BY <1>8, <3>5, <3>8
  <2>4. ASSUME ~misled', NEW o \in Lists PROVE size'[o] = Len(d[o])
    <3>1. /\ size'[m] = 0 /\ size'[l] = size[m]
          /\ o # l /\ o # m => size'[o] = size[o]
      BY <1>1, <1>8 DEF TypeOK
    <3>2. size[m] = Len(c[m]) /\ size[o] = Len(c[o])
      BY <1>1, <1>8, <2>4 DEF Owners
    <3>3. Len(<<>>) = 0
      OBVIOUS
    <3> QED
      BY <1>11, <3>1, <3>2, <3>3
  <2>5. \A x : IsListed(d, x)' <=> IsListed(d, x)
    BY DEF IsListed
  <2> QED
    BY <2>1, <2>2, <2>3, <2>4, <2>5 DEF Owners
<1>22. LoopIsOnTrack(d)'
  BY <1>1, <1>8 DEF LoopIsOnTrack, Looping
<1>23. Becomes(c, d)
  BY <1>1, <1>10 DEF Becomes
<1> QED
  BY <1>13, <1>20, <1>21, <1>22, <1>23 DEF Inv

\* There are enough pairs for every list to have its own.
LEMMA PairsSuffice == \E f \in [Lists -> Pairs] : \A l, m \in Lists : f[l] = f[m] => l = m
<1>1. PICK N : N = Cardinality(Lists)
  OBVIOUS
<1>2. N \in Nat /\ ExistsBijection(1 .. N, Lists)
  BY <1>1, FiniteAssumption, FS_CardinalityType
<1>3. PICK g \in Bijection(1 .. N, Lists) : TRUE
  BY <1>2 DEF ExistsBijection
<1>4. \A l \in Lists : \E i \in 1 .. N : g[i] = l
  BY <1>3 DEF Bijection, Surjection
<1>5. PICK f : f = [l \in Lists |-> CHOOSE i \in 1 .. N : g[i] = l]
  OBVIOUS
<1>6. ASSUME NEW l \in Lists PROVE f[l] \in 1 .. N /\ g[f[l]] = l
  BY <1>4, <1>5
<1>7. f \in [Lists -> Pairs]
  <2>1. \A l \in Lists : f[l] \in Pairs
    BY <1>1, <1>2, <1>6 DEF Pairs
  <2>2. f = [l \in Lists |-> f[l]]
    BY <1>5
  <2> QED
    BY <2>1, <2>2
<1> QED
  BY <1>6, <1>7

\* In the beginning the lists are empty.
LEMMA InitInv ==
    ASSUME Init, NEW c, c = [l \in Lists |-> <<>>]
    PROVE  TypeOK /\ Inv(c)
<1>1. pair \in [Lists -> Pairs] /\ \A l, m \in Lists : pair[l] = pair[m] => l = m
  BY PairsSuffice DEF Init
<1>2. /\ next = [n \in Links |-> IF \E l \in Lists : n = Head_(l) THEN TailOf(n.head) ELSE Null]
      /\ prev = [n \in Links |-> IF \E l \in Lists : n = Tail_(l) THEN HeadOf(n.tail) ELSE Null]
      /\ parent = [n \in Nodes |-> Null] /\ size = [l \in Lists |-> 0] /\ dropped = {} /\ misled = FALSE
      /\ loop.list = Null
  BY DEF Init, NoLoop
<1>3. /\ \A l \in Lists : /\ Head_(l) \in Links \ Nodes /\ Head_(l).head = pair[l]
                          /\ Tail_(l) \in Links \ Nodes /\ Tail_(l).tail = pair[l]
      /\ Nodes \subseteq Links
  BY <1>1, Dummy DEF Head_, Tail_, HeadOf, TailOf
<1>4. ASSUME NEW l \in Lists PROVE next[Head_(l)] = Tail_(l) /\ prev[Tail_(l)] = Head_(l)
  BY <1>2, <1>3 DEF Head_, Tail_
<1>5. \A n \in Nodes : next[n] = Null /\ prev[n] = Null
  BY <1>2, <1>3
<1>6. c \in [Lists -> Seq(Nodes)] /\ \A l \in Lists : c[l] = <<>> /\ Len(c[l]) = 0
  OBVIOUS
<1>7. TypeOK
  <2>1. ASSUME NEW n \in Links PROVE next[n] \in Links \cup {Null} /\ prev[n] \in Links \cup {Null}
    <3>1. \A l \in Lists : n = Head_(l) => next[n] = Tail_(l)
      BY <1>4
    <3>2. \A l \in Lists : n = Tail_(l) => prev[n] = Head_(l)
      BY <1>4
    <3>3. ~(\E l \in Lists : n = Head_(l)) => next[n] = Null
      BY <1>2
    <3>4. ~(\E l \in Lists : n = Tail_(l)) => prev[n] = Null
      BY <1>2
    <3> QED
      BY <1>3, <3>1, <3>2, <3>3, <3>4
  <2>2. next \in [Links -> Links \cup {Null}] /\ prev \in [Links -> Links \cup {Null}]
    <3>1. next = [n \in Links |-> next[n]] /\ prev = [n \in Links |-> prev[n]]
      BY <1>2
    <3> QED
      BY <2>1, <3>1
  <2>3. 0 \in 0 .. SizeMod - 1
    BY SizeAssumption
  <2> QED
    BY <1>1, <1>2, <2>2, <2>3 DEF TypeOK
<1>8. IsContents(c)
  <2>1. ASSUME NEW l \in Lists, NEW j \in 0 .. Len(c[l])
        PROVE  next[Stop(l, c[l], j)] = Stop(l, c[l], j + 1) /\ prev[Stop(l, c[l], j + 1)] = Stop(l, c[l], j)
    <3>1. j = 0
      BY <1>6
    <3>2. Stop(l, c[l], j) = Head_(l)
      BY <3>1 DEF Stop
    <3>3. Stop(l, c[l], j + 1) = Tail_(l)
      BY <1>6, <3>1 DEF Stop
    <3> QED
      BY <1>4, <3>2, <3>3
  <2>2. \A l \in Lists : Places(c[l]) = {}
    BY <1>6 DEF Places
  <2> QED
    BY <1>1, <1>5, <1>6, <2>1, <2>2 DEF IsContents
<1>9. Owners(c)
  <2>1. \A l \in Lists : Places(c[l]) = {}
    BY <1>6 DEF Places
  <2>2. \A n : ~IsListed(c, n)
    BY <2>1 DEF IsListed
  <2> QED
    BY <1>2, <1>6, <2>1, <2>2 DEF Owners
<1>10. LoopIsOnTrack(c)
  BY <1>2 DEF LoopIsOnTrack, Looping
<1> QED
  BY <1>7, <1>8, <1>9, <1>10 DEF Inv

\* A step of any kind.
LEMMA NextStep ==
    ASSUME TypeOK, NEW c, Inv(c), [Next]_vars
    PROVE  TypeOK' /\ \E d : Inv(d)' /\ Becomes(c, d)
<1>1. ASSUME NEW l \in Lists, NEW n \in Nodes,
             PushBack(l, n) \/ PushFront(l, n) \/ InsertBeforeLast(l, n) \/ InsertAfterLast(l, n)
      PROVE  TypeOK' /\ \E d : Inv(d)' /\ Becomes(c, d)
  BY <1>1, InsertionsStep
<1>2. CASE EraseCurrent \/ \E n \in Nodes : RemoveFromParent(n)
  BY <1>2, RemovalsStep
<1>3. ASSUME NEW l \in Lists, NEW m \in Lists, MoveAssign(l, m)
      PROVE  TypeOK' /\ \E d : Inv(d)' /\ Becomes(c, d)
  BY <1>3, MoveStep
<1>4. ASSUME NEW l \in Lists, StartLoop(l)
      PROVE  TypeOK' /\ \E d : Inv(d)' /\ Becomes(c, d)
  BY <1>4, StartLoopStep
<1>5. CASE Advance
  BY <1>5, AdvanceStep
<1>6. CASE EndLoop
  BY <1>6, EndLoopStep
<1>7. CASE UNCHANGED vars
  <2>1. UNCHANGED <<next, prev, parent, pair, size, dropped, stale, misled, loop>>
    BY <1>7 DEF vars, history
  <2>2. TypeOK'
    BY <2>1 DEF TypeOK
  <2>3. IsContents(c)'
    BY <2>1 DEF Inv, IsContents, IsListed, Stop, Head_, Tail_
  <2>4. Owners(c)'
    BY <2>1 DEF Inv, Owners, IsListed
  <2>5. LoopIsOnTrack(c)'
    <3>1. LoopIsOnTrack(c)
      BY DEF Inv
    <3>2. Looping => AtEnd \/ AtNode(c[loop.list])
      BY <3>1 DEF LoopIsOnTrack
    <3> QED
      BY <2>1, <3>1, <3>2, TrackIsKept
  <2> QED
    BY <2>2, <2>3, <2>4, <2>5 DEF Inv, Becomes
<1>8. Next \/ UNCHANGED vars
  OBVIOUS
<1> QED
  BY <1>1, <1>2, <1>3, <1>4, <1>5, <1>6, <1>7, <1>8 DEF Next

-----------------------------------------------------------------------------
(***************************************************************************)
(* The theorems.                                                           *)
(***************************************************************************)
\* In a state of the invariant the lists stand for the sequences the loops visit.
LEMMA IInvSays == IInv => Inv(All) /\ \A l \in Lists : All[l] = Contents(l)
  BY DEF IInv, All

\* IInv is inductive, and the sequences change as ListContents says.
LEMMA StepCorrect == IInv /\ [Next]_vars => IInv' /\ Becomes(All, All')
<1> SUFFICES ASSUME IInv, [Next]_vars PROVE IInv' /\ Becomes(All, All')
  OBVIOUS
<1>1. PICK c : c = All
  OBVIOUS
<1>2. TypeOK /\ Inv(c)
  BY <1>1 DEF IInv
<1>3. PICK d : Inv(d)' /\ Becomes(c, d)
  BY <1>2, NextStep
<1>4. TypeOK'
  BY <1>2, NextStep
<1>5. All' = d
  <2>1. IsContents(d)'
    BY <1>3 DEF Inv
  <2> QED
    BY <1>4, <2>1, ContentsWillBe DEF LoopsMeet
<1>6. SomeInv'
  BY <1>3 DEF SomeInv
<1>7. IInv'
  BY <1>4, <1>6, IInvWillBe
<1> QED
  BY <1>1, <1>3, <1>5, <1>7

\* The invariant of the module.
LEMMA IInvHolds == Spec => []IInv
<1>1. Init => IInv
  <2> SUFFICES ASSUME Init PROVE IInv
    OBVIOUS
  <2>1. PICK c : c = [l \in Lists |-> <<>>]
    OBVIOUS
  <2>2. TypeOK /\ SomeInv
    BY <2>1, InitInv DEF SomeInv
  <2> QED
    BY <2>2, IInvIs
<1>2. IInv /\ [Next]_vars => IInv'
  BY StepCorrect
<1> QED
  BY <1>1, <1>2, PTL DEF Spec

\* After every call each list can be walked in both directions from dummy to dummy,
\* the lists are disjoint, and a node in no list has no links.
THEOREM LinksCorrect == Spec => []LinksAreConsistent
<1>1. IInv => LinksAreConsistent
  <2> SUFFICES ASSUME IInv PROVE LinksAreConsistent
    OBVIOUS
  <2>1. PICK c : c = All
    OBVIOUS
  <2>2. TypeOK /\ IsContents(c)
    BY <2>1 DEF IInv, Inv
  <2>3. /\ \A l \in Lists : Contents(l) = c[l]
        /\ \A l \in Lists : ToSet(c[l]) = {c[l][i] : i \in Places(c[l])}
        /\ \A n \in Nodes : n \in Linked <=> IsListed(c, n)
    BY <2>2, Seen
  <2>4. ASSUME NEW l \in Lists
        PROVE  \A j \in 0 .. Len(Contents(l)) : /\ next[Stop(l, Contents(l), j)] = Stop(l, Contents(l), j + 1)
                                                /\ prev[Stop(l, Contents(l), j + 1)] = Stop(l, Contents(l), j)
    <3>1. \A j \in 0 .. Len(c[l]) : /\ next[Stop(l, c[l], j)] = Stop(l, c[l], j + 1)
                                    /\ prev[Stop(l, c[l], j + 1)] = Stop(l, c[l], j)
      BY <2>2 DEF IsContents
    <3>2. Contents(l) = c[l]
      BY <2>3, Zenon
    <3> QED
      BY <3>1, <3>2, Zenon
  <2>5. ASSUME NEW l \in Lists, NEW m \in Lists, l # m PROVE ToSet(Contents(l)) \cap ToSet(Contents(m)) = {}
    <3>1. ToSet(c[l]) \cap ToSet(c[m]) = {}
      BY <2>2, <2>3, <2>5 DEF IsContents
    <3>2. Contents(l) = c[l] /\ Contents(m) = c[m]
      BY <2>3, Zenon
    <3> QED
      BY <3>1, <3>2, Zenon
  <2>6. \A n \in Nodes \ Linked : next[n] = Null /\ prev[n] = Null
    BY <2>2, <2>3 DEF IsContents
  <2> QED
    BY <2>4, <2>5, <2>6 DEF LinksAreConsistent
<1> QED
  BY <1>1, IInvHolds, PTL

\* A listed node has its list as parent_ unless it came there by a move, and a node
\* that is in no list has none.
THEOREM ParentsCorrect == Spec => []NodesKnowTheirList
<1>1. IInv => NodesKnowTheirList
  <2> SUFFICES ASSUME IInv PROVE NodesKnowTheirList
    OBVIOUS
  <2>1. PICK c : c = All
    OBVIOUS
  <2>2. TypeOK /\ IsContents(c) /\ Owners(c)
    BY <2>1 DEF IInv, Inv
  <2>3. /\ \A l \in Lists : Contents(l) = c[l]
        /\ \A l \in Lists : ToSet(c[l]) = {c[l][i] : i \in Places(c[l])}
        /\ \A n \in Nodes : n \in Free <=> ~IsListed(c, n) /\ n \notin dropped
    BY <2>2, Seen
  <2>4. ASSUME NEW l \in Lists PROVE \A n \in ToSet(Contents(l)) \ stale : parent[n] = l
    <3>1. Contents(l) = c[l]
      BY <2>3, Zenon
    <3>2. \A i \in Places(c[l]) : c[l][i] \notin stale => parent[c[l][i]] = l
      BY <2>2 DEF Owners
    <3>3. \A n \in ToSet(c[l]) \ stale : parent[n] = l
      BY <2>3, <3>2
    <3> QED
      BY <3>1, <3>3, Zenon
  <2>5. \A n \in Free : parent[n] = Null
    <3>1. Free \subseteq Nodes
      BY DEF Free
    <3> QED
      BY <2>2, <2>3, <3>1 DEF Owners
  <2> QED
    BY <2>4, <2>5 DEF NodesKnowTheirList
<1> QED
  BY <1>1, IInvHolds, PTL

\* size_ is the number of nodes through every insertion, erasure and move, until
\* remove_from_parent has followed a parent_ that names another list.
THEOREM SizesCorrect == Spec => []SizesAreLengths
<1>1. IInv => SizesAreLengths
  <2> SUFFICES ASSUME IInv, ~misled, NEW l \in Lists PROVE size[l] = Len(Contents(l))
    BY DEF SizesAreLengths
  <2>1. size[l] = Len(All[l])
    BY DEF IInv, Inv, Owners
  <2>2. All[l] = Contents(l)
    BY DEF All
  <2> QED
    BY <2>1, <2>2, Zenon
<1> QED
  BY <1>1, IInvHolds, PTL

\* A loop that is over has met every node of the beginning, once and in order.
THEOREM LoopsCorrect == Spec => []LoopsMissNothing
<1>1. IInv => LoopsMissNothing
  <2> SUFFICES ASSUME IInv, Looping, loop.node \in Dummies
               PROVE  /\ loop.node = Tail_(loop.list)
                      /\ ToSet(loop.before) \subseteq ToSet(loop.visited)
                      /\ SameOrder(loop.visited, loop.before)
    BY DEF LoopsMissNothing
  <2>1. LoopIsOnTrack(All)
    BY DEF IInv, Inv
  <2>2. loop.node \notin Nodes
    BY DummiesAssumption
  <2>3. ~AtNode(All[loop.list])
    BY <2>2 DEF AtNode
  <2> QED
    BY <2>1, <2>3 DEF LoopIsOnTrack, AtEnd
<1> QED
  BY <1>1, IInvHolds, PTL

\* Every call is the call of ListContents it stands for, or changes no list.
THEOREM ListsAreSequences == Spec => ActsAsSequences
<1>1. Init => Promise!Init
  <2> SUFFICES ASSUME Init PROVE [l \in Lists |-> Contents(l)] = [l \in Lists |-> <<>>]
    BY DEF Promise!Init
  <2>1. PICK c : c = [l \in Lists |-> <<>>]
    OBVIOUS
  <2>2. TypeOK /\ IsContents(c)
    BY <2>1, InitInv DEF Inv
  <2>3. All = c
    BY <2>2, ContentsAre DEF LoopsMeet
  <2> QED
    BY <2>1, <2>3 DEF All
<1>2. IInv /\ [Next]_vars => [Promise!Next]_[l \in Lists |-> Contents(l)]
  <2> SUFFICES ASSUME IInv, [Next]_vars PROVE [Promise!Next]_[l \in Lists |-> Contents(l)]
    OBVIOUS
  <2>1. Becomes(All, All')
    BY StepCorrect
  <2>2. CASE All' = All
    BY <2>2 DEF All
  <2>3. ASSUME NEW l \in Lists, NEW n \in Nodes, NEW k \in 1 .. Len(All[l]) + 1,
               \A m \in Lists : n \notin ToSet(All[m]), All' = PutIn(All, l, k, n)
        PROVE  Promise!Next
    <3>1. Promise!Insert(l, k, n)
      <4>1. All' = [All EXCEPT ![l] = InsertAt(All[l], k, n)]
        BY <2>3 DEF PutIn
      <4> QED
        BY <2>3, <4>1, Zenon DEF Promise!Insert, Promise!InsertAt, InsertAt, Promise!ToSet, ToSet, All
    <3>2. k \in 1 .. Len([m \in Lists |-> Contents(m)][l]) + 1
      BY DEF All
    <3> QED
      BY <3>1, <3>2, Zenon DEF Promise!Next
  <2>4. ASSUME NEW l \in Lists, NEW k \in 1 .. Len(All[l]), All' = TakenOut(All, l, k)
        PROVE  Promise!Next
    <3>1. Promise!Delete(l, k)
      <4>1. All' = [All EXCEPT ![l] = RemoveAt(All[l], k)]
        BY <2>4 DEF TakenOut
      <4> QED
        BY <4>1, Zenon DEF Promise!Delete, Promise!RemoveAt, RemoveAt, All
    <3>2. k \in 1 .. Len([m \in Lists |-> Contents(m)][l])
      BY DEF All
    <3> QED
      BY <3>1, <3>2, Zenon DEF Promise!Next
  <2>5. ASSUME NEW l \in Lists, NEW s \in Lists, l # s, All' = [All EXCEPT ![l] = All[s], ![s] = <<>>]
        PROVE  Promise!Next
    <3>1. Promise!Take(l, s)
      BY <2>5 DEF Promise!Take, All
    <3>2. s \in Lists \ {l}
      BY <2>5
    <3> QED
      BY <3>1, <3>2, Zenon DEF Promise!Next
  <2> QED
    BY <2>1, <2>2, <2>3, <2>4, <2>5 DEF Becomes
<1> QED
  BY <1>1, <1>2, IInvHolds, PTL DEF Spec, ActsAsSequences, Promise!Spec
=============================================================================
