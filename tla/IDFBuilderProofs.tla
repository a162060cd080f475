-------------------------- MODULE IDFBuilderProofs --------------------------
(***************************************************************************)
(* Proofs about IDFBuilder, for every connected flow graph and every       *)
(* argument of get_IDF: the recursion over the dominator tree computes the *)
(* dominance frontiers, get_IDF returns the least set closed under them,   *)
(* and phis in that set suffice.                                           *)
(***************************************************************************)
EXTENDS IDFBuilder, DominanceProofs

-----------------------------------------------------------------------------
(***************************************************************************)
(* Lemmas about the working list, a sequence used as a queue.              *)
(***************************************************************************)
\* What a queue holds after a push.
LEMMA RangeOfAppend ==
    ASSUME NEW S, NEW s \in Seq(S), NEW e \in S
    PROVE  /\ Append(s, e) \in Seq(S)
           /\ Range(Append(s, e)) = Range(s) \cup {e}
<1>1. Append(s, e) \in Seq(S)
  BY AppendProperties
<1>2. DOMAIN Append(s, e) = DOMAIN s \cup {Len(s) + 1}
  BY AppendProperties
<1>3. \A j \in DOMAIN s : Append(s, e)[j] = s[j]
  BY AppendProperties
<1>4. Append(s, e)[Len(s) + 1] = e
  BY AppendProperties
<1> QED
  BY <1>1, <1>2, <1>3, <1>4, Zenon DEF Range

\* What a queue held before a pop: its head and what is left.
LEMMA RangeOfTail ==
    ASSUME NEW S, NEW s \in Seq(S), s # <<>>
    PROVE  /\ Head(s) \in S
           /\ Tail(s) \in Seq(S)
           /\ Range(s) = {Head(s)} \cup Range(Tail(s))
<1>1. Head(s) \in S /\ Tail(s) \in Seq(S) /\ Head(s) = s[1]
  BY HeadTailProperties
<1>2. Len(s) \in Nat \ {0} /\ DOMAIN s = 1 .. Len(s)
  BY LenProperties, EmptySeq
<1>3. DOMAIN Tail(s) = 1 .. Len(s) - 1
  BY <1>1, <1>2, HeadTailProperties, LenProperties
<1>4. \A j \in 1 .. Len(s) - 1 : Tail(s)[j] = s[j + 1]
  BY HeadTailProperties
<1>5. Range(s) \subseteq {Head(s)} \cup Range(Tail(s))
  <2> SUFFICES ASSUME NEW j \in 1 .. Len(s)
               PROVE  s[j] \in {Head(s)} \cup Range(Tail(s))
    BY <1>2 DEF Range
  <2>1. CASE j = 1
    BY <2>1, <1>1
  <2>2. CASE j # 1
    <3>1. j - 1 \in 1 .. Len(s) - 1 /\ s[j] = Tail(s)[j - 1]
      BY <2>2, <1>2, <1>4
    <3> QED
      BY <3>1, <1>3 DEF Range
  <2> QED
    BY <2>1, <2>2
<1>6. {Head(s)} \cup Range(Tail(s)) \subseteq Range(s)
  <2>1. Head(s) \in Range(s)
    BY <1>1, <1>2 DEF Range
  <2>2. ASSUME NEW j \in 1 .. Len(s) - 1
        PROVE  Tail(s)[j] \in Range(s)
    <3>1. j + 1 \in 1 .. Len(s) /\ Tail(s)[j] = s[j + 1]
      BY <1>2, <1>4
    <3> QED
      BY <3>1, <1>2 DEF Range
  <2> QED
    BY <2>1, <2>2, <1>3 DEF Range
<1> QED
  BY <1>1, <1>5, <1>6

-----------------------------------------------------------------------------
(***************************************************************************)
(* Type correctness.                                                       *)
(***************************************************************************)
\* Sets and lists hold groups of the function, and a call runs until the recursion
\* over the tree has ended.
TypeOK ==
    /\ follows \in [Groups -> Seq(Groups)]
    /\ phase \in {"frontiers", "ready", "working", "returned"}
    /\ stack \in Seq([node : Groups, todo : SUBSET Groups])
    /\ phase = "frontiers" => stack # <<>>
    /\ df \in [Groups -> SUBSET Groups]
    /\ defs \in SUBSET Groups
    /\ queue \in Seq(Groups)
    /\ todo \in SUBSET Groups
    /\ idf \in SUBSET Groups

Frames == [node : Groups, todo : SUBSET Groups]

\* What a recursive call of the constructor's traversal pushes is a frame.
LEMMA CallIsFrame ==
    ASSUME NEW b \in Groups, DOMAIN parent \subseteq Groups
    PROVE  Call(b) \in Frames
  BY DEF Call, Frames, Children

\* What TypeOK needs to be inductive: the nodes of the tree are groups.
TypeInv == TypeOK /\ DOMAIN parent \subseteq Groups

\* The state in which calculate_frontiers is entered has the types.
LEMMA InitTypeOK == Init => TypeInv
<1> SUFFICES ASSUME Init PROVE TypeInv
  OBVIOUS
<1>1. follows \in [Groups -> Seq(Groups)]
  BY FlowGraphsAssumption DEF Init
<1>2. DOMAIN parent \subseteq Groups
  BY DEF Init
<1>3. stack \in Seq(Frames) /\ stack # <<>>
  BY <1>2, CallIsFrame, EntryAssumption DEF Init
<1>4. LocalFrontier(Entry) \subseteq Groups
  BY <1>1, GraphEdges, EntryAssumption DEF LocalFrontier, IsGraph
<1>5. df \in [Groups -> SUBSET Groups]
  <2>1. df = [b \in Groups |-> IF b = Entry THEN LocalFrontier(b) ELSE {}]
    BY DEF Init
  <2> QED
    BY <2>1, <1>4
<1>6. /\ phase \in {"frontiers", "ready", "working", "returned"}
      /\ defs \in SUBSET Groups /\ queue \in Seq(Groups)
      /\ todo \in SUBSET Groups /\ idf \in SUBSET Groups
  BY DEF Init
<1> QED
  BY <1>1, <1>2, <1>3, <1>5, <1>6 DEF TypeInv, TypeOK, Frames

\* Every step of the builder keeps them: calls and returns of the traversal,
\* calls of get_IDF, and the pops, pushes and visits of its working list.
LEMMA NextTypeOK == TypeInv /\ [Next]_vars => TypeInv'
<1> SUFFICES ASSUME TypeInv, [Next]_vars PROVE TypeInv'
  OBVIOUS
<1> USE DEF TypeInv
<1>1. ASSUME NEW c \in Groups, CallChild(c) PROVE TypeInv'
  <2>0. TypeOK /\ stack \in Seq(Frames) /\ phase = "frontiers"
    BY <1>1 DEF TypeOK, Frames, CallChild
  <2>1. UNCHANGED <<follows, parent, phase, defs, queue, todo, idf>>
    BY <1>1 DEF CallChild, input, call
  <2>2. df' \in [Groups -> SUBSET Groups]
    <3>1. LocalFrontier(c) \subseteq Groups
      BY <2>0, GraphEdges DEF LocalFrontier, TypeOK, IsGraph
    <3> QED
      BY <1>1, <2>0, <3>1 DEF CallChild, TypeOK
  <2>3. stack # <<>>
    BY <2>0 DEF TypeOK
  <2>4. [stack EXCEPT ![Len(stack)].todo = @ \ {c}] \in Seq(Frames)
    <3>1. Len(stack) \in 1 .. Len(stack) /\ DOMAIN stack = 1 .. Len(stack)
      BY <2>0, <2>3, EmptySeq, LenProperties
    <3>2. stack[Len(stack)] \in Frames
      BY <2>0, <3>1
    <3>3. [stack[Len(stack)] EXCEPT !.todo = @ \ {c}] \in Frames
      BY <3>2 DEF Frames
    <3> QED
      BY <2>0, <3>1, <3>3, ExceptSeq
  <2>5. stack' \in Seq(Frames) /\ stack' # <<>>
    <3>1. Call(c) \in Frames
      BY CallIsFrame
    <3> QED
      BY <1>1, <2>4, <3>1, AppendProperties DEF CallChild
  <2> QED
    BY <2>0, <2>1, <2>2, <2>5 DEF TypeOK, Frames
<1>2. ASSUME ReturnFromChild PROVE TypeInv'
  <2>0. TypeOK /\ stack \in Seq(Frames) /\ Len(stack) > 1
    BY <1>2 DEF TypeOK, Frames, ReturnFromChild
  <2>1. UNCHANGED <<follows, parent, phase, defs, queue, todo, idf>>
    BY <1>2 DEF ReturnFromChild, input, call
  <2>2. stack[Len(stack)] \in Frames /\ stack[Len(stack) - 1] \in Frames
    BY <2>0
  <2>3. df' \in [Groups -> SUBSET Groups]
    <3>1. stack[Len(stack)].node \in Groups /\ stack[Len(stack) - 1].node \in Groups
      BY <2>2 DEF Frames
    <3> QED
      BY <1>2, <2>0, <3>1 DEF ReturnFromChild, Frame, TypeOK
  <2>4. stack' \in Seq(Frames) /\ stack' # <<>>
    <3>1. stack' = SubSeq(stack, 1, Len(stack) - 1)
      BY <1>2 DEF ReturnFromChild
    <3>2. Len(stack) \in Nat
      BY <2>0, LenProperties
    <3>3. stack' \in Seq(Frames) /\ Len(stack') = Len(stack) - 1
      BY <2>0, <3>1, <3>2, SubSeqProperties
    <3>4. Len(stack') # 0
      BY SMTT(30), <2>0, <3>2, <3>3
    <3> QED
      BY <3>3, <3>4
  <2> QED
    BY <2>0, <2>1, <2>3, <2>4 DEF TypeOK, Frames
<1>3. ASSUME FrontiersDone PROVE TypeInv'
  BY <1>3 DEF FrontiersDone, TypeOK, input, call
<1>4. ASSUME NEW groups \in Calls, CallGetIDF(groups) PROVE TypeInv'
  <2>1. groups \in Seq(Groups)
    BY CallsAssumption
  <2>2. Range(groups) \subseteq Groups
    BY <2>1, ElementOfSeq, LenProperties DEF Range
  <2> QED
    BY <1>4, <2>1, <2>2 DEF CallGetIDF, TypeOK, input
<1>5. ASSUME PopNode PROVE TypeInv'
  <2>1. Head(queue) \in Groups /\ Tail(queue) \in Seq(Groups)
    BY <1>5, RangeOfTail DEF PopNode, TypeOK
  <2> QED
    BY <1>5, <2>1 DEF PopNode, TypeOK, input
<1>6. ASSUME NEW f \in Groups, VisitFrontier(f) PROVE TypeInv'
  <2>1. Append(queue, f) \in Seq(Groups)
    BY AppendProperties DEF TypeOK
  <2> QED
    BY <1>6, <2>1 DEF VisitFrontier, TypeOK, input
<1>7. ASSUME ReturnIDF PROVE TypeInv'
  BY <1>7 DEF ReturnIDF, TypeOK, input, call
<1>8. CASE UNCHANGED vars
  BY <1>8 DEF vars, TypeOK, input, call
<1> QED
  BY <1>1, <1>2, <1>3, <1>4, <1>5, <1>6, <1>7, <1>8 DEF Next, Step

-----------------------------------------------------------------------------
(***************************************************************************)
(* get_IDF returns the least closed set.                                   *)
(***************************************************************************)
InCall == phase \in {"working", "returned"}

\* Every group the call knows of still waits on the working list, or its
\* frontier has been put into IDF_set but for what is left to visit.
NothingIsForgotten ==
    InCall => \A b \in defs \cup idf : b \in Range(queue) \/ df[b] \subseteq idf \cup todo

\* Whatever has been found, or is about to be, is in every closed set.
NothingIsSuperfluous ==
    InCall =>
        /\ Range(queue) \subseteq defs \cup idf
        /\ \A S \in SUBSET Groups : ClosedUnderFrontier(S) => idf \cup todo \subseteq S

ReturnsWhenDone == phase = "returned" => queue = <<>> /\ todo = {}

WorklistInv == NothingIsForgotten /\ NothingIsSuperfluous /\ ReturnsWhenDone

\* The same conditions one step on depend on these variables only.
LEMMA WorklistUnchanged ==
    WorklistInv /\ UNCHANGED <<phase, df, call>> => WorklistInv'
  BY DEF WorklistInv, NothingIsForgotten, NothingIsSuperfluous, ReturnsWhenDone,
         InCall, ClosedUnderFrontier, ClosedUnder, call

\* An empty working list holds nothing.
LEMMA EmptyRange == Range(<<>>) = {}
  BY DEF Range

\* Every step of get_IDF keeps the invariant of its working list.
LEMMA WorklistStep == TypeInv /\ WorklistInv /\ [Next]_vars => WorklistInv'
<1> SUFFICES ASSUME TypeInv, WorklistInv, [Next]_vars PROVE WorklistInv'
  OBVIOUS
<1>1. ASSUME phase = "frontiers", phase' \in {"frontiers", "ready"} PROVE WorklistInv'
  BY <1>1 DEF WorklistInv, NothingIsForgotten, NothingIsSuperfluous, ReturnsWhenDone, InCall
<1>2. ASSUME NEW c \in Groups, CallChild(c) PROVE WorklistInv'
  BY <1>1, <1>2 DEF CallChild
<1>3. ASSUME ReturnFromChild PROVE WorklistInv'
  BY <1>1, <1>3 DEF ReturnFromChild
<1>4. ASSUME FrontiersDone PROVE WorklistInv'
  BY <1>1, <1>4 DEF FrontiersDone
<1>5. ASSUME NEW groups \in Calls, CallGetIDF(groups) PROVE WorklistInv'
  BY <1>5 DEF CallGetIDF, WorklistInv, NothingIsForgotten, NothingIsSuperfluous,
              ReturnsWhenDone, InCall, ClosedUnderFrontier, ClosedUnder
<1>6. ASSUME PopNode PROVE WorklistInv'
  <2> DEFINE node == Head(queue)
  <2>1. /\ phase = "working" /\ phase' = "working"
        /\ todo = {} /\ todo' = df[node] /\ queue' = Tail(queue)
        /\ UNCHANGED <<df, defs, idf>>
    BY <1>6 DEF PopNode
  <2>2. Range(queue) = {node} \cup Range(queue')
    BY <1>6, <2>1, RangeOfTail DEF PopNode, TypeInv, TypeOK
  <2>3. NothingIsForgotten'
    <3> SUFFICES ASSUME NEW b \in defs \cup idf
                 PROVE  b \in Range(queue') \/ df[b] \subseteq idf \cup df[node]
      BY <2>1 DEF NothingIsForgotten, InCall
    <3>1. b \in Range(queue) \/ df[b] \subseteq idf
      BY <2>1 DEF WorklistInv, NothingIsForgotten, InCall
    <3> QED
      BY <3>1, <2>2
  <2>4. NothingIsSuperfluous'
    <3>1. Range(queue) \subseteq defs \cup idf
      BY <2>1 DEF WorklistInv, NothingIsSuperfluous, InCall
    <3>2. ASSUME NEW S \in SUBSET Groups, ClosedUnderFrontier(S)
          PROVE  idf \cup df[node] \subseteq S
      <4>1. idf \subseteq S
        BY <2>1, <3>2 DEF WorklistInv, NothingIsSuperfluous, InCall
      <4>2. node \in defs \cup S
        BY <2>2, <3>1, <4>1
      <4> QED
        BY <3>2, <4>1, <4>2 DEF ClosedUnderFrontier, ClosedUnder
    <3>3. Range(queue') \subseteq defs \cup idf
      BY <2>2, <3>1
    <3> QED
      BY <2>1, <3>2, <3>3 DEF NothingIsSuperfluous, ClosedUnderFrontier, ClosedUnder
  <2>5. ReturnsWhenDone'
    BY <2>1 DEF ReturnsWhenDone
  <2> QED
    BY <2>3, <2>4, <2>5 DEF WorklistInv
<1>7. ASSUME NEW f \in Groups, VisitFrontier(f) PROVE WorklistInv'
  <2>1. /\ phase = "working" /\ phase' = "working"
        /\ f \in todo /\ todo' = todo \ {f} /\ idf' = idf \cup {f}
        /\ queue' = IF f \in idf THEN queue ELSE Append(queue, f)
        /\ UNCHANGED <<df, defs>>
    BY <1>7 DEF VisitFrontier
  <2>2. Range(queue') = IF f \in idf THEN Range(queue) ELSE Range(queue) \cup {f}
    <3>1. queue \in Seq(Groups)
      BY DEF TypeInv, TypeOK
    <3>2. Range(Append(queue, f)) = Range(queue) \cup {f}
      BY <3>1, RangeOfAppend
    <3>3. CASE f \in idf
      BY <3>3, <2>1
    <3>4. CASE f \notin idf
      BY <3>4, <3>2, <2>1
    <3> QED
      BY <3>3, <3>4
  <2>3. idf' \cup todo' = idf \cup todo
    BY <2>1
  <2>4. NothingIsForgotten'
    <3> SUFFICES ASSUME NEW b \in defs \cup idf'
                 PROVE  b \in Range(queue') \/ df[b] \subseteq idf' \cup todo'
      BY <2>1 DEF NothingIsForgotten
    <3>1. CASE b \in defs \cup idf
      <4>1. b \in Range(queue) \/ df[b] \subseteq idf \cup todo
        BY <2>1, <3>1 DEF WorklistInv, NothingIsForgotten, InCall
      <4> QED
        BY <4>1, <2>2, <2>3
    <3>2. CASE b = f /\ f \notin idf
      BY <3>2, <2>2
    <3> QED
      BY <2>1, <3>1, <3>2
  <2>5. NothingIsSuperfluous'
    <3>1. Range(queue') \subseteq defs \cup idf'
      BY <2>1, <2>2 DEF WorklistInv, NothingIsSuperfluous, InCall
    <3>2. ASSUME NEW S \in SUBSET Groups, ClosedUnderFrontier(S)'
          PROVE  idf' \cup todo' \subseteq S
      <4>1. ClosedUnderFrontier(S)
        BY <2>1, <3>2 DEF ClosedUnderFrontier, ClosedUnder
      <4> QED
        BY <4>1, <2>1, <2>3 DEF WorklistInv, NothingIsSuperfluous, InCall
    <3> QED
      BY <2>1, <3>1, <3>2 DEF NothingIsSuperfluous, ClosedUnderFrontier, ClosedUnder
  <2>6. ReturnsWhenDone'
    BY <2>1 DEF ReturnsWhenDone
  <2> QED
    BY <2>4, <2>5, <2>6 DEF WorklistInv
<1>8. ASSUME ReturnIDF PROVE WorklistInv'
  BY <1>8 DEF ReturnIDF, call, WorklistInv, NothingIsForgotten, NothingIsSuperfluous,
              ReturnsWhenDone, InCall, ClosedUnderFrontier, ClosedUnder
<1>9. CASE UNCHANGED vars
  BY <1>9, WorklistUnchanged DEF vars
<1> QED
  BY <1>2, <1>3, <1>4, <1>5, <1>6, <1>7, <1>8, <1>9 DEF Next, Step

\* When the loop of get_IDF has ended, what it has found is closed, by the first
\* half of the invariant, and least, by the second.
LEMMA WorklistImpliesLeast == TypeInv /\ WorklistInv => IDFIsLeastClosed
<1> SUFFICES ASSUME TypeInv, WorklistInv, phase = "returned"
             PROVE  /\ ClosedUnderFrontier(idf)
                    /\ \A S \in SUBSET Groups : ClosedUnderFrontier(S) => idf \subseteq S
  BY DEF IDFIsLeastClosed
<1>1. Range(queue) = {} /\ todo = {}
  BY EmptyRange DEF WorklistInv, ReturnsWhenDone
<1> QED
  BY <1>1 DEF WorklistInv, NothingIsForgotten, NothingIsSuperfluous, InCall, ClosedUnderFrontier, ClosedUnder

\* Whenever get_IDF has returned, its result is the least set of groups that is
\* closed under the dominance frontier: MemoryToRegisterPass gets a phi in every
\* group that needs one and in no other.
THEOREM IDFCorrect == Spec => []IDFIsLeastClosed
<1>1. Init => TypeInv
  BY InitTypeOK
<1>2. TypeInv /\ [Next]_vars => TypeInv'
  BY NextTypeOK
<1>3. Init => WorklistInv
  BY DEF Init, WorklistInv, NothingIsForgotten, NothingIsSuperfluous, ReturnsWhenDone, InCall
<1>4. TypeInv /\ WorklistInv /\ [Next]_vars => WorklistInv'
  BY WorklistStep
<1>5. TypeInv /\ WorklistInv => IDFIsLeastClosed
  BY WorklistImpliesLeast
<1> QED
  BY <1>1, <1>2, <1>3, <1>4, <1>5, PTL DEF Spec

-----------------------------------------------------------------------------
(***************************************************************************)
(* The frontiers are the dominance frontiers.                              *)
(***************************************************************************)
\* The input never changes: a connected graph with its dominator tree.
InputInv ==
    /\ IsConnected(follows)
    /\ IsDominatorTree(follows, parent, level)
    /\ DOMAIN parent = Groups \ {Entry}

\* While the recursion runs it is a walk over the tree, and afterwards all is known.
FrontierInv ==
    /\ InputInv
    /\ phase = "frontiers" => IsWalk(follows, stack, df)
    /\ phase # "frontiers" => \A b \in Groups : df[b] = Frontier(follows, b)

\* The constructor is given a connected graph and its dominator tree.
LEMMA InitInput == Init => InputInv
<1> SUFFICES ASSUME Init PROVE InputInv
  OBVIOUS
<1> DEFINE dom == DominatorMap(follows)
<1>1. IsConnected(follows)
  BY FlowGraphsAssumption, ConnectedAssumption DEF Init, IsConnected, IsGraph
<1>2. /\ parent = [b \in Groups \ {Entry} |-> ImmediateDominator(dom, b)]
      /\ level = [b \in Groups |-> Cardinality(dom[b]) - 1]
  BY DEF Init
<1>3. \A b \in Groups : dom[b] = Dominators(follows, b)
  BY DominatorMapIs
<1>4. level = [b \in Groups |-> Depth(follows, b)]
  <2> HIDE DEF dom
  <2> QED
    BY <1>2, <1>3 DEF Depth
<1>5. \A b \in Groups \ {Entry} : IsIdom(follows, parent[b], b)
  BY <1>1, <1>2, GroupsAssumption, ImmediateDominatorExists
<1> QED
  BY <1>1, <1>2, <1>4, <1>5 DEF InputInv, IsDominatorTree

\* IsDominatorOf tells strict dominators, by climbing.
LEMMA ClimbingIsRight ==
    ASSUME InputInv, NEW a \in Groups, NEW b \in Groups
    PROVE  IsDominatorOf(a, b) <=> a \in StrictDominators(follows, b)
<1>1. PICK C : C = CHOOSE g : g = [n \in Groups |-> IF level[n] > level[a] THEN g[parent[n]] ELSE n]
  OBVIOUS
<1>2. IsDominatorOf(a, b) <=> a # b /\ C[b] = a
  BY <1>1, Zenon DEF IsDominatorOf
<1>3. C[b] = a <=> a \in Dominators(follows, b)
  BY <1>1, GroupsAssumption, ClimbFindsDominator DEF InputInv
<1> QED
  BY <1>2, <1>3 DEF StrictDominators

\* So the local frontier of a group is what its own edges contribute.
LEMMA LocalIsOwn ==
    ASSUME InputInv, NEW b \in Groups
    PROVE  LocalFrontier(b) = OwnFrontier(follows, b)
<1>1. Successors(follows, b) \subseteq Groups
  BY GraphEdges DEF InputInv, IsConnected
<1> QED
  BY <1>1, ClimbingIsRight DEF LocalFrontier, OwnFrontier

\* children_ of a node of the tree.
LEMMA ChildrenAreKids ==
    ASSUME InputInv, NEW b \in Groups
    PROVE  Children(b) = Kids(follows, b)
<1>1. ASSUME NEW c \in Groups \ {Entry} PROVE parent[c] = b <=> IsIdom(follows, b, c)
  BY GroupsAssumption, IdomUnique DEF InputInv, IsDominatorTree
<1>2. ~IsIdom(follows, b, Entry)
  BY GroupsAssumption, EntryAssumption, IdomDepth DEF InputInv
<1> QED
  BY <1>1, <1>2 DEF Children, Kids, InputInv

\* At first there is one call, for the root of the tree.
LEMMA InitFrontiers == Init => FrontierInv
<1> SUFFICES ASSUME Init PROVE FrontierInv
  OBVIOUS
<1>1. InputInv /\ phase = "frontiers"
  BY InitInput DEF Init
<1>2. /\ Len(stack) = 1 /\ stack[1].node = Entry /\ stack[1].todo = Kids(follows, Entry)
      /\ df[Entry] = OwnFrontier(follows, Entry)
  <2>1. stack = <<[node |-> Entry, todo |-> Children(Entry)]>>
    BY DEF Init, Call
  <2>2. df[Entry] = LocalFrontier(Entry)
    BY EntryAssumption DEF Init
  <2> QED
    BY <1>1, <2>1, <2>2, EntryAssumption, LocalIsOwn, ChildrenAreKids
<1>3. Returned(follows, stack, 1) = {}
  BY <1>2 DEF Returned
<1>4. PartFrontier(follows, Entry, {}) = OwnFrontier(follows, Entry)
  BY DEF PartFrontier
<1>5. Depth(follows, Entry) = 0 /\ Entry \in Dominators(follows, Entry)
  BY <1>1, GroupsAssumption, EntryAssumption, DepthIsNumber, SelfDominates DEF InputInv
<1>6. ASSUME NEW n \in 1 .. Len(stack) PROVE n = 1
  BY <1>2
<1>7. IsWalk(follows, stack, df)
  <2>1. IsBranch(follows, stack)
    BY <1>2, <1>5, <1>6 DEF IsBranch
  <2> QED
    BY <1>2, <1>3, <1>4, <1>6, <2>1 DEF IsWalk
<1> QED
  BY <1>1, <1>7 DEF FrontierInv

\* Calls and returns are steps of the walk; get_IDF leaves the frontiers alone.
LEMMA NextFrontiers == TypeInv /\ FrontierInv /\ [Next]_vars => FrontierInv'
<1> SUFFICES ASSUME TypeInv, FrontierInv, [Next]_vars PROVE FrontierInv'
  OBVIOUS
<1>0. InputInv /\ IsConnected(follows) /\ IsFiniteSet(Groups)
  BY GroupsAssumption DEF FrontierInv, InputInv
<1>1. ASSUME UNCHANGED <<follows, parent, level>> PROVE InputInv'
  BY <1>0, <1>1 DEF InputInv
<1>2. ASSUME phase # "frontiers", phase' # "frontiers", UNCHANGED <<follows, parent, level, df>>
      PROVE  FrontierInv'
  BY <1>1, <1>2 DEF FrontierInv
<1>3. stack \in Seq(TreeFrames) /\ df \in [Groups -> SUBSET Groups] /\ (phase = "frontiers" => stack # <<>>)
  BY DEF TypeInv, TypeOK, TreeFrames
<1>4. ASSUME NEW c \in Groups, CallChild(c) PROVE FrontierInv'
  <2>1. /\ phase = "frontiers" /\ phase' = "frontiers" /\ c \in stack[Len(stack)].todo
        /\ stack' = Append([stack EXCEPT ![Len(stack)].todo = @ \ {c}], Call(c))
        /\ df' = [df EXCEPT ![c] = LocalFrontier(c)]
        /\ UNCHANGED <<follows, parent, level>>
    BY <1>4 DEF CallChild, Frame, input
  <2>2. Call(c) = [node |-> c, todo |-> Kids(follows, c)] /\ LocalFrontier(c) = OwnFrontier(follows, c)
    BY <1>0, LocalIsOwn, ChildrenAreKids DEF Call
  <2>3. IsWalk(follows, stack, df) /\ stack # <<>>
    BY <1>3, <2>1 DEF FrontierInv
  <2>4. IsWalk(follows, stack', df')
    BY <1>0, <1>3, <2>1, <2>2, <2>3, WalkCalls
  <2> QED
    BY <1>1, <2>1, <2>4 DEF FrontierInv
<1>5. ASSUME ReturnFromChild PROVE FrontierInv'
  <2> DEFINE u == stack[Len(stack) - 1].node
             k == stack[Len(stack)].node
  <2>1. /\ phase = "frontiers" /\ phase' = "frontiers" /\ stack[Len(stack)].todo = {} /\ Len(stack) > 1
        /\ stack' = SubSeq(stack, 1, Len(stack) - 1)
        /\ df' = [df EXCEPT ![u] = @ \cup {f \in df[k] : ~IsDominatorOf(u, f)}]
        /\ UNCHANGED <<follows, parent, level>>
    BY <1>5 DEF ReturnFromChild, Frame, input
  <2>2. u \in Groups /\ k \in Groups
    <3>1. Len(stack) \in 1 .. Len(stack) /\ Len(stack) - 1 \in 1 .. Len(stack)
      BY <1>3, <2>1, LenProperties
    <3>2. stack[Len(stack)] \in TreeFrames /\ stack[Len(stack) - 1] \in TreeFrames
      BY <1>3, <3>1, ElementOfSeq
    <3> QED
      BY <3>2 DEF TreeFrames
  <2>3. \A f \in df[k] : IsDominatorOf(u, f) <=> u \in StrictDominators(follows, f)
    BY <1>0, <1>3, <2>2, ClimbingIsRight
  <2>4. df' = [df EXCEPT ![u] = @ \cup {f \in df[k] : u \notin StrictDominators(follows, f)}]
    BY <2>1, <2>3
  <2>5. IsWalk(follows, stack, df)
    BY <2>1 DEF FrontierInv
  <2>6. IsWalk(follows, stack', df')
    <3>1. PICK up : up = u
      OBVIOUS
    <3>2. PICK new : new = df[up] \cup {y \in df[stack[Len(stack)].node] : up \notin StrictDominators(follows, y)}
      OBVIOUS
    <3>3. PICK e : e = df'
      OBVIOUS
    <3>4. stack[Len(stack)].todo = {} /\ Len(stack) > 1 /\ up = stack[Len(stack) - 1].node
      BY <2>1, <3>1
    <3>5. e = [df EXCEPT ![up] = new]
      BY <2>4, <3>1, <3>2, <3>3
    <3>6. IsWalk(follows, SubSeq(stack, 1, Len(stack) - 1), e)
      BY <1>0, <1>3, <2>5, <3>2, <3>4, <3>5, WalkReturns
    <3> QED
      BY <2>1, <3>3, <3>6
  <2> QED
    BY <1>1, <2>1, <2>6 DEF FrontierInv
<1>6. ASSUME FrontiersDone PROVE FrontierInv'
  <2>1. /\ phase = "frontiers" /\ phase' = "ready" /\ Len(stack) = 1 /\ stack[1].todo = {}
        /\ UNCHANGED <<follows, parent, level, df>>
    BY <1>6 DEF FrontiersDone, Frame, input
  <2>2. \A b \in Groups : df[b] = Frontier(follows, b)
    BY <1>0, <1>3, <2>1, WalkEnds DEF FrontierInv
  <2> QED
    BY <1>1, <2>1, <2>2 DEF FrontierInv
<1>7. ASSUME NEW groups \in Calls, CallGetIDF(groups) PROVE FrontierInv'
  BY <1>2, <1>7 DEF CallGetIDF, input
<1>8. ASSUME PopNode PROVE FrontierInv'
  BY <1>2, <1>8 DEF PopNode, input
<1>9. ASSUME NEW f \in Groups, VisitFrontier(f) PROVE FrontierInv'
  BY <1>2, <1>9 DEF VisitFrontier, input
<1>10. ASSUME ReturnIDF PROVE FrontierInv'
  BY <1>2, <1>10 DEF ReturnIDF, input
<1>11. CASE UNCHANGED vars
  <2>1. UNCHANGED <<follows, parent, level, phase, stack, df>>
    BY <1>11 DEF vars, input
  <2> QED
    BY <1>1, <2>1 DEF FrontierInv
<1> QED
  BY <1>4, <1>5, <1>6, <1>7, <1>8, <1>9, <1>10, <1>11 DEF Next, Step

\* What the recursion over the dominator tree leaves in dominance_frontiers_ are the
\* dominance frontiers of the textbook, for every connected graph.
THEOREM FrontiersCorrect == Spec => []FrontiersAreCorrect
<1>1. FrontierInv => FrontiersAreCorrect
  BY DEF FrontierInv, FrontiersAreCorrect, Frontier
<1> QED
  BY <1>1, InitTypeOK, NextTypeOK, InitFrontiers, NextFrontiers, PTL DEF Spec

-----------------------------------------------------------------------------
(***************************************************************************)
(* Phis in the groups get_IDF returns suffice.                             *)
(***************************************************************************)
\* The result is closed under the frontiers of the textbook, so no group without a
\* phi is reached by different values.
LEMMA ClosedMeansEnough == TypeInv /\ WorklistInv /\ FrontierInv => PhisSuffice
<1> SUFFICES ASSUME TypeInv, WorklistInv, FrontierInv, phase = "returned" PROVE PhisSuffice
  BY DEF PhisSuffice
<1>1. ClosedUnderFrontier(idf)
  BY WorklistImpliesLeast DEF IDFIsLeastClosed
<1>2. /\ IsConnected(follows) /\ IsFiniteSet(Groups) /\ IsDominatorTree(follows, parent, level)
      /\ defs \subseteq Groups /\ idf \subseteq Groups
      /\ \A b \in Groups : df[b] = Frontier(follows, b)
  BY GroupsAssumption DEF FrontierInv, InputInv, TypeInv, TypeOK
<1>3. \A g \in defs \cup idf : Frontier(follows, g) \subseteq idf
  BY <1>1, <1>2 DEF ClosedUnderFrontier, ClosedUnder
<1>4. PICK In : In = CHOOSE g : g = [b \in Groups |->
                   IF b \in idf THEN <<"phi", b>>
                   ELSE IF b = Entry THEN <<"undef", b>>
                   ELSE IF parent[b] \in defs THEN <<"store", parent[b]>>
                   ELSE g[parent[b]]]
  OBVIOUS
<1>5. In = [b \in Groups |-> NameFrom(parent, idf, defs, b, In)]
  <2>1. NamesMeet(parent, idf, defs)
    BY <1>2, NamesExist
  <2>2. \E K : K = [b \in Groups |-> NameFrom(parent, idf, defs, b, K)]
    BY <2>1 DEF NamesMeet
  <2> QED
    BY <1>4, <2>2 DEF NameFrom
<1>6. ASSUME NEW b \in Groups \ idf, NEW p \in Predecessors(follows, b)
      PROVE  NameOut(In, defs, p) = In[b]
  <2>1. p \in Groups /\ b \in Successors(follows, p)
    BY DEF Predecessors
  <2> QED
    BY <1>2, <1>3, <1>5, <2>1, NamesAgree
<1>7. \A b \in Groups \ idf : \A p \in Predecessors(follows, b) :
        (IF p \in defs THEN <<"store", p>> ELSE In[p]) = In[b]
  BY <1>6 DEF NameOut
<1> QED
  BY <1>4, <1>7, Zenon DEF PhisSuffice

\* Whatever groups get_IDF is called with, phis in the groups it returns are enough: the
\* other groups get the same value of a variable from all their predecessors.
THEOREM PhisAreEnough == Spec => []PhisSuffice
<1>1. Init => WorklistInv
  BY DEF Init, WorklistInv, NothingIsForgotten, NothingIsSuperfluous, ReturnsWhenDone, InCall
<1> QED
  BY <1>1, InitTypeOK, NextTypeOK, WorklistStep, InitFrontiers, NextFrontiers, ClosedMeansEnough, PTL DEF Spec
=============================================================================
