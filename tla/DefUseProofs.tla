---------------------------- MODULE DefUseProofs ----------------------------
(***************************************************************************)
(* Proofs about DefUse, for any number of instructions and any bound on    *)
(* the sources of a phi: the use lists mirror the operands, no operand is  *)
(* destroyed before its users, nothing is kept alive by a ring or by a     *)
(* use left behind, and the loop of TryRemoveAllocIfStoreOnly stays in the *)
(* list it walks, with destructors running under it.  All follow from one  *)
(* inductive invariant, IInv.                                              *)
(***************************************************************************)
EXTENDS DefUse, SequenceTheorems, TLAPS

-----------------------------------------------------------------------------
(***************************************************************************)
(* The inductive invariant.                                                *)
(***************************************************************************)
\* The s-th operand of c, which exists, is v.
Uses(c, s, v) == c \in alive /\ s \in Slots(c) /\ operands[c][s] = v

\* UsersMirrorOperands, pair by pair.
Mirror == \A v, c \in Codes, s \in Nat : <<c, s>> \in users[v] <=> Uses(c, s, v)

\* Referenced, without users_, which then says nothing new.
Needed(v) == v \in listed \cup held \/ \E c \in alive : v \in Range(operands[c])

\* An instruction nothing refers to is about to be destroyed, and no other is.
Accounted == \A c \in alive : Needed(c) <=> c \notin dying

Nodes == Codes \X Nat  \* what may be in a list users_
Loops == [alloca : Codes, at : Nodes \cup {End, Gone}, next : Nodes \cup {End}, rest : SUBSET Nodes]

\* Operands are instructions with a result, as many as the loops rely on.
Shapes ==
    /\ \A c \in alive : kind[c] = "store" => DOMAIN operands[c] = {1, 2}
    /\ \A c \in alive : kind[c] \in {"phi", "assign"} => 1 \in DOMAIN operands[c]
    /\ \A c \in alive : \A s \in DOMAIN operands[c] : HasResult(operands[c][s])
    /\ \A v \in held : HasResult(v)

\* ~SiiIRPhi leaves its uses in the lists, so it must not run: until an assignment
\* mentions it, and keeps it, a phi is in its group.
PhisAreKept ==
    /\ \A c \in alive : kind[c] = "assign" => c \in listed /\ stage = "quit"
    /\ \A p \in alive : kind[p] = "phi" =>
          p \in listed \/ \E c \in listed : kind[c] = "assign" /\ operands[c][1] = p

\* Without a phi there is no ring of operands: one of a set is used by none of it.
NoRings ==
    \A set \in SUBSET alive :
        set # {} /\ (\A c \in set : kind[c] # "phi")
            => \E v \in set : \A c \in set : v \notin Range(operands[c])

\* The uses the loop has still to visit.
Ahead == ({loop.at, loop.next} \cup loop.rest) \ {End, Gone}

\* They are those in the list but for the one whose user is being destroyed, and
\* each is the destination of a store of its own.
LoopInv ==
    \/ loop = NoLoop
    \/ /\ loop \in Loops
       /\ stage = "promote"
       /\ loop.alloca \in listed /\ kind[loop.alloca] = "alloca"
       /\ \A u \in users[loop.alloca] : kind[u[1]] = "store" /\ u[2] = 2
       /\ Ahead \subseteq users[loop.alloca]
       /\ \A u \in users[loop.alloca] : u \in Ahead <=> u[1] \notin dying
       /\ loop.next \notin loop.rest
       /\ loop.at # End => loop.at \notin {loop.next} \cup loop.rest
       /\ loop.next = End => loop.rest = {}
       /\ loop.at = End => loop.next = End
       /\ dying # {} => loop.at = Gone

IInv == TypeOK /\ Mirror /\ OperandsExist /\ Accounted /\ Shapes /\ PhisAreKept /\ NoRings /\ LoopInv

-----------------------------------------------------------------------------
(***************************************************************************)
(* Lemmas about operands and references.                                   *)
(***************************************************************************)
\* The operands of an instruction are numbered, and are instructions.
LEMMA SlotsAreNumbers ==
    ASSUME NEW s \in Seq(Codes), NEW j \in DOMAIN s
    PROVE  j \in Nat /\ s[j] \in Codes
  BY LenProperties

\* The set of all uses of v, told pair by pair.
LEMMA UsesPointwise ==
    ASSUME NEW living \in SUBSET Codes, NEW ops \in [Codes -> Seq(Codes)],
           NEW set \in SUBSET (Codes \X Nat), NEW v
    PROVE  set = {u \in UNION {{<<c, s>> : s \in DOMAIN ops[c]} : c \in living} : ops[u[1]][u[2]] = v}
              <=> \A c \in Codes, s \in Nat :
                      <<c, s>> \in set <=> c \in living /\ s \in DOMAIN ops[c] /\ ops[c][s] = v
<1> DEFINE all == UNION {{<<c, s>> : s \in DOMAIN ops[c]} : c \in living}
           those == {u \in all : ops[u[1]][u[2]] = v}
<1>1. \A c \in Codes, s \in Nat : <<c, s>> \in all <=> c \in living /\ s \in DOMAIN ops[c]
  OBVIOUS
<1>2. all \subseteq Codes \X Nat
  BY SlotsAreNumbers
<1>3. \A c \in Codes, s \in Nat :
          <<c, s>> \in those <=> c \in living /\ s \in DOMAIN ops[c] /\ ops[c][s] = v
  BY <1>1
<1>4. those \subseteq Codes \X Nat
  BY <1>2
<1> HIDE DEF those
<1>5. set = those <=> \A c \in Codes, s \in Nat : <<c, s>> \in set <=> <<c, s>> \in those
  BY <1>4
<1> QED
  BY <1>3, <1>5 DEF those

\* The two forms of the mirror say the same.
LEMMA MirrorMeans == TypeOK => (UsersMirrorOperands <=> Mirror)
<1> SUFFICES ASSUME TypeOK PROVE UsersMirrorOperands <=> Mirror
  OBVIOUS
<1>1. alive \in SUBSET Codes /\ operands \in [Codes -> Seq(Codes)]
  BY DEF TypeOK
<1>2. ASSUME NEW v \in Codes
      PROVE  users[v] = UsesOf(v) <=> \A c \in Codes, s \in Nat : <<c, s>> \in users[v] <=> Uses(c, s, v)
  <2>1. users[v] \in SUBSET (Codes \X Nat)
    BY DEF TypeOK
  <2> QED
    BY <1>1, <2>1, UsesPointwise DEF UsesOf, UsesBy, Slots, Uses
<1> QED
  BY <1>2 DEF UsersMirrorOperands, Mirror

\* An instruction is referenced if a list, a map or an operand refers to it.
ReferencedIsNeeded == \A v \in Codes : Referenced(v) <=> Needed(v)

\* It follows from the mirror.
LEMMA ReferencedMeans == TypeOK /\ Mirror => ReferencedIsNeeded
<1> SUFFICES ASSUME TypeOK, Mirror, NEW v \in Codes
             PROVE  users[v] # {} <=> \E c \in alive : v \in Range(operands[c])
  BY DEF ReferencedIsNeeded, Referenced, Needed
<1>1. ASSUME users[v] # {} PROVE \E c \in alive : v \in Range(operands[c])
  <2>1. users[v] \subseteq Codes \X Nat
    BY DEF TypeOK
  <2>2. PICK u \in users[v] : u \in Codes \X Nat /\ u = <<u[1], u[2]>>
    BY <1>1, <2>1
  <2> QED
    BY <2>2 DEF Mirror, Uses, Slots, Range
<1>2. ASSUME NEW c \in alive, v \in Range(operands[c]) PROVE users[v] # {}
  <2>1. PICK s \in DOMAIN operands[c] : operands[c][s] = v
    BY <1>2 DEF Range
  <2>2. c \in Codes /\ s \in Nat
    BY <2>1, SlotsAreNumbers DEF TypeOK
  <2> QED
    BY <2>1, <2>2 DEF Mirror, Uses, Slots
<1> QED
  BY <1>1, <1>2

\* The client only acts when no destructor and no loop is running.
LEMMA IdleMeans == IInv /\ Idle => dying = {} /\ loop = NoLoop
  BY NullAssumption DEF IInv, LoopInv, Idle, Looping, Loops

-----------------------------------------------------------------------------
(***************************************************************************)
(* What a step does to references: one is made, replaced, released, or its *)
(* owner is destroyed.                                                     *)
(***************************************************************************)
\* The constructor of an instruction, which then goes into a group.
LEMMA BuildKeepsIInv ==
    ASSUME IInv, Idle, NEW c \in Codes, NEW k \in Kinds, NEW ops \in Seq(Codes),
           kind[c] = Null, Build(c, k, ops),
           listed' = listed \cup {c}, UNCHANGED <<held, dying, loop, stage>>,
           \A s \in DOMAIN ops : ops[s] \in alive /\ HasResult(ops[s]),
           k = "store" => DOMAIN ops = {1, 2},
           k \in {"phi", "assign"} => 1 \in DOMAIN ops,
           k = "assign" => stage = "quit"
    PROVE  IInv'
<1>1. dying = {} /\ loop = NoLoop
  BY IdleMeans
<1>2. TypeOK /\ c \notin alive
  BY DEF IInv, TypeOK
<1>3. /\ kind' = [kind EXCEPT ![c] = k]
      /\ operands' = [operands EXCEPT ![c] = ops]
      /\ users' = [v \in Codes |-> users[v] \cup {<<c, s>> : s \in {s \in DOMAIN ops : ops[s] = v}}]
      /\ alive' = alive \cup {c}
  BY DEF Build
<1>4. /\ kind'[c] = k /\ operands'[c] = ops
      /\ \A d \in alive : kind'[d] = kind[d] /\ operands'[d] = operands[d] /\ d # c /\ d \in Codes
  BY <1>2, <1>3 DEF TypeOK
<1>5. TypeOK'
  <2>1. \A v \in Codes : {<<c, s>> : s \in {s \in DOMAIN ops : ops[s] = v}} \subseteq Codes \X Nat
    BY SlotsAreNumbers
  <2>2. users' \in [Codes -> SUBSET (Codes \X Nat)]
    BY <1>2, <1>3, <2>1 DEF TypeOK
  <2>3. k # Null
    BY NullAssumption
  <2> QED
    <3>1. kind' \in [Codes -> Kinds \cup {Null}] /\ operands' \in [Codes -> Seq(Codes)]
      BY <1>2, <1>3 DEF TypeOK
    <3>2. alive' \subseteq {d \in Codes : kind'[d] # Null}
      BY <1>2, <1>3, <1>4, <2>3 DEF TypeOK
    <3> QED
      BY <1>2, <1>3, <2>2, <3>1, <3>2 DEF TypeOK
<1>6. Mirror'
  <2> SUFFICES ASSUME NEW v \in Codes, NEW d \in Codes, NEW s \in Nat
               PROVE  <<d, s>> \in users'[v] <=> Uses(d, s, v)'
    BY DEF Mirror
  <2>1. <<d, s>> \in users[v] <=> Uses(d, s, v)
    BY DEF IInv, Mirror
  <2>2. <<d, s>> \in users'[v] <=> <<d, s>> \in users[v] \/ (d = c /\ s \in DOMAIN ops /\ ops[s] = v)
    BY <1>3
  <2> QED
    BY <1>2, <1>3, <1>4, <2>1, <2>2 DEF Uses, Slots
<1>7. OperandsExist'
  <2> SUFFICES ASSUME NEW d \in alive', NEW s \in DOMAIN operands'[d] PROVE operands'[d][s] \in alive'
    BY DEF OperandsExist, Range
  <2> QED
    BY <1>3, <1>4 DEF IInv, OperandsExist, Range
<1>8. Accounted'
  <2> SUFFICES ASSUME NEW d \in alive' PROVE Needed(d)'
    BY <1>1 DEF Accounted
  <2>1. CASE d = c
    BY <2>1 DEF Needed
  <2>2. CASE d # c
    <3>1. Needed(d)
      BY <1>1, <1>3, <2>2 DEF IInv, Accounted
    <3> QED
      BY <1>3, <1>4, <3>1 DEF Needed
  <2> QED
    BY <2>1, <2>2
<1>9. Shapes'
  <2>1. \A d \in alive : HasResult(d)' = HasResult(d)
    BY <1>4 DEF HasResult
  <2>2. \A d \in alive' : d = c \/ d \in alive
    BY <1>3
  <2>3. \A d \in alive : \A s \in DOMAIN operands[d] : operands[d][s] \in alive
    BY DEF IInv, OperandsExist, Range
  <2>4. held \subseteq alive
    BY <1>2 DEF TypeOK
  <2> QED
    BY <1>4, <2>1, <2>2, <2>3, <2>4 DEF IInv, Shapes
<1>10. PhisAreKept'
  <2>1. c \in listed' /\ listed \subseteq listed' /\ listed \subseteq alive
    BY <1>2 DEF TypeOK
  <2>2. \A d \in alive' : d = c \/ d \in alive
    BY <1>3
  <2> QED
    BY <1>4, <2>1, <2>2 DEF IInv, PhisAreKept
<1>11. NoRings'
  <2> SUFFICES ASSUME NEW set \in SUBSET alive', set # {}, \A d \in set : kind'[d] # "phi"
               PROVE  \E v \in set : \A d \in set : v \notin Range(operands'[d])
    BY DEF NoRings
  <2>1. CASE c \in set
    <3>1. \A d \in alive : Range(operands[d]) \subseteq alive
      BY DEF IInv, OperandsExist
    <3>2. Range(ops) \subseteq alive
      BY DEF Range
    <3>3. ASSUME NEW d \in set PROVE c \notin Range(operands'[d])
      <4>1. CASE d = c
        BY <1>2, <1>4, <3>2, <4>1
      <4>2. CASE d # c
        <5>1. d \in alive
          BY <1>3, <4>2
        <5> QED
          BY <1>2, <1>4, <3>1, <5>1
      <4> QED
        BY <4>1, <4>2
    <3> QED
      BY <2>1, <3>3
  <2>2. CASE c \notin set
    <3>1. set \in SUBSET alive
      BY <1>3, <2>2
    <3>2. \A d \in set : kind[d] # "phi" /\ operands'[d] = operands[d]
      BY <1>4, <3>1
    <3>3. \E v \in set : \A d \in set : v \notin Range(operands[d])
      BY <3>1, <3>2 DEF IInv, NoRings
    <3> QED
      BY <3>2, <3>3
  <2> QED
    BY <2>1, <2>2
<1> QED
  BY <1>1, <1>5, <1>6, <1>7, <1>8, <1>9, <1>10, <1>11 DEF IInv, LoopInv

\* ReplaceTemporary, replace_src and use_setter.
LEMMA ReplaceOperandKeepsIInv ==
    ASSUME IInv, NEW c \in listed, NEW s \in Slots(c), NEW v \in Known, HasResult(v),
           ReplaceOperand(c, s, v)
    PROVE  IInv'
<1> DEFINE old == operands[c][s]
<1>1. /\ dying = {} /\ loop = NoLoop /\ stage = "promote"
      /\ operands' = [operands EXCEPT ![c][s] = v]
      /\ users' = [Unlink({<<c, s>>}) EXCEPT ![v] = @ \cup {<<c, s>>}]
      /\ UNCHANGED <<kind, alive, listed, held, loop, stage>>
      /\ dying' = Abandoned({old})
  BY IdleMeans DEF ReplaceOperand, In
<1>2. TypeOK /\ c \in alive /\ c \in Codes /\ v \in alive /\ v \in Codes
  BY DEF IInv, TypeOK, Known
<1>3. s \in DOMAIN operands[c] /\ s \in Nat /\ old \in Codes /\ old \in alive
  BY <1>2, SlotsAreNumbers DEF Slots, TypeOK, IInv, OperandsExist, Range
<1>4. operands' \in [Codes -> Seq(Codes)]
  <2>1. operands[c] \in Seq(Codes) /\ DOMAIN operands[c] = 1 .. Len(operands[c])
    BY <1>2, LenProperties DEF TypeOK
  <2>2. [operands[c] EXCEPT ![s] = v] \in Seq(Codes)
    BY <1>2, <1>3, <2>1, ExceptSeq
  <2> QED
    BY <1>1, <1>2, <2>2 DEF TypeOK
<1>5. \A d \in Codes : /\ DOMAIN operands'[d] = DOMAIN operands[d]
                       /\ \A t \in DOMAIN operands[d] :
                              operands'[d][t] = IF d = c /\ t = s THEN v ELSE operands[d][t]
  BY <1>1, <1>2, <1>3 DEF TypeOK
<1>6. TypeOK'
  <2>1. users' \in [Codes -> SUBSET (Codes \X Nat)]
    BY <1>1, <1>2, <1>3 DEF TypeOK, Unlink
  <2>2. dying' \subseteq alive'
    BY <1>1 DEF Abandoned
  <2> QED
    BY <1>1, <1>2, <1>4, <2>1, <2>2 DEF TypeOK
<1>7. Mirror'
  <2> SUFFICES ASSUME NEW w \in Codes, NEW d \in Codes, NEW t \in Nat
               PROVE  <<d, t>> \in users'[w] <=> Uses(d, t, w)'
    BY DEF Mirror
  <2>1. <<d, t>> \in users[w] <=> Uses(d, t, w)
    BY DEF IInv, Mirror
  <2>2. users'[w] = IF w = v THEN (users[w] \ {<<c, s>>}) \cup {<<c, s>>} ELSE users[w] \ {<<c, s>>}
    BY <1>1, <1>2 DEF Unlink
  <2>3. CASE d = c /\ t = s
    <3>1. <<d, t>> \in users'[w] <=> w = v
      BY <2>2, <2>3
    <3> QED
      BY <1>1, <1>2, <1>3, <1>5, <2>3, <3>1 DEF Uses, Slots
  <2>4. CASE ~(d = c /\ t = s)
    <3>1. <<d, t>> \in users'[w] <=> <<d, t>> \in users[w]
      BY <2>2, <2>4
    <3> QED
      BY ZenonT(30), <1>1, <1>5, <2>1, <2>4, <3>1 DEF Uses, Slots
  <2> QED
    BY <2>3, <2>4
<1>8. OperandsExist'
  <2> SUFFICES ASSUME NEW d \in alive, NEW t \in DOMAIN operands'[d] PROVE operands'[d][t] \in alive
    BY <1>1 DEF OperandsExist, Range
  <2> QED
    BY <1>2, <1>5 DEF IInv, OperandsExist, Range, TypeOK
<1>9. Accounted'
  <2> SUFFICES ASSUME NEW d \in alive PROVE Needed(d)' <=> d \notin dying'
    BY <1>1 DEF Accounted
  <2>1. d \in Codes /\ (d = old => (Referenced(d)' <=> Needed(d)'))
    <3>1. TypeOK' /\ Mirror' => ReferencedIsNeeded'
      BY ReferencedMeans, PTL
    <3> QED
      BY <1>2, <1>6, <1>7, <3>1 DEF TypeOK, ReferencedIsNeeded
  <2>2. CASE d = old
    BY <1>1, <2>1, <2>2 DEF Abandoned
  <2>3. CASE d # old
    <3>1. Needed(d)
      BY <1>1 DEF IInv, Accounted
    <3>2. ASSUME NEW e \in alive, d \in Range(operands[e]) PROVE d \in Range(operands'[e])
      BY ZenonT(30), <1>2, <1>5, <2>3, <3>2 DEF Range, TypeOK
    <3> QED
      BY <1>1, <2>3, <3>1, <3>2 DEF Needed, Abandoned
  <2> QED
    BY <2>2, <2>3
<1>10. Shapes'
  <2>1. \A d \in alive : d \in Codes /\ (HasResult(d)' <=> HasResult(d))
    BY <1>1, <1>2 DEF HasResult, TypeOK
  <2>2. ASSUME NEW d \in alive, NEW t \in DOMAIN operands'[d] PROVE HasResult(operands'[d][t])
    BY <1>2, <1>5, <2>1, <2>2 DEF IInv, Shapes
  <2> QED
    BY <1>1, <1>5, <2>1, <2>2 DEF IInv, Shapes, HasResult
<1>11. PhisAreKept'
  BY <1>1, <1>2 DEF IInv, PhisAreKept, TypeOK
<1>12. NoRings'
  <2> SUFFICES ASSUME NEW set \in SUBSET alive, set # {}, \A d \in set : kind[d] # "phi"
               PROVE  \E w \in set : \A d \in set : w \notin Range(operands'[d])
    BY <1>1 DEF NoRings
  <2>1. \A d \in Codes : d # c => operands'[d] = operands[d]
    BY <1>1, <1>2 DEF TypeOK
  <2>2. ASSUME NEW some \in SUBSET set, some # {}
        PROVE  \E w \in some : \A d \in some : w \notin Range(operands[d])
    BY <2>2 DEF IInv, NoRings
  <2>3. \A d \in set : d \in Codes
    BY <1>2 DEF TypeOK
  <2>4. CASE c \notin set
    <3>1. \E w \in set : \A d \in set : w \notin Range(operands[d])
      BY <2>2
    <3> QED
      BY <2>1, <2>3, <2>4, <3>1
  <2>5. CASE c \in set
    <3>1. ComesBefore(v, c)
      BY <2>5 DEF ReplaceOperand
    <3>2. PICK before \in SUBSET (Codes \ {c}) :
              v \in before /\ \A d \in before : kind[d] # "phi" => Range(operands[d]) \subseteq before
      BY <3>1 DEF ComesBefore
    <3>3. PICK some : some = set \ before
      OBVIOUS
    <3>4. c \in some /\ some \subseteq set
      BY <2>5, <3>2, <3>3
    <3>5. PICK w \in some : \A d \in some : w \notin Range(operands[d])
      BY <2>2, <3>4
    <3>6. w \in set /\ w \notin before /\ w # v
      BY <3>2, <3>3, <3>5
    <3>7. ASSUME NEW d \in set, d # c PROVE w \notin Range(operands'[d])
      <4>1. operands'[d] = operands[d]
        BY <2>1, <2>3, <3>7
      <4>2. d \in before => w \notin Range(operands[d])
        BY <3>2, <3>6
      <4>3. d \notin before => w \notin Range(operands[d])
        BY <3>3, <3>5
      <4> QED
        BY <4>1, <4>2, <4>3
    <3>8. w \notin Range(operands'[c])
      <4>1. w \notin Range(operands[c])
        BY <3>4, <3>5
      <4> SUFFICES ASSUME NEW t \in DOMAIN operands'[c] PROVE operands'[c][t] # w
        BY DEF Range
      <4>2. t \in DOMAIN operands[c] /\ operands'[c][t] = IF t = s THEN v ELSE operands[c][t]
        BY <1>2, <1>5
      <4>3. operands[c][t] # w
        BY <4>1, <4>2 DEF Range
      <4> QED
        BY <3>6, <4>2, <4>3
    <3> QED
      BY <3>6, <3>7, <3>8
  <2> QED
    BY <2>4, <2>5
<1> QED
  BY <1>1, <1>6, <1>7, <1>8, <1>9, <1>10, <1>11, <1>12 DEF IInv, LoopInv

\* Lists and maps let go of instructions, of which those nothing else refers to die.
LEMMA ReleaseKeepsIInv ==
    ASSUME IInv, dying = {}, UNCHANGED <<code, users, stage>>,
           NEW set \in SUBSET alive, dying' = Abandoned(set),
           listed' \subseteq listed, held' \subseteq alive, \A v \in held' : HasResult(v),
           (listed \cup held) \ set \subseteq listed' \cup held',
           PhisAreKept', LoopInv'
    PROVE  IInv'
<1>1. UNCHANGED <<kind, operands, alive, users, stage>>
  BY DEF code
<1>2. TypeOK'
  <2>1. loop'.alloca \in Codes \cup {Null}
    BY DEF LoopInv, NoLoop, Loops
  <2>2. dying' \subseteq alive'
    BY DEF Abandoned
  <2> QED
    BY <1>1, <2>1, <2>2 DEF IInv, TypeOK
<1>3. Mirror' /\ OperandsExist'
  BY <1>1 DEF IInv, Mirror, Uses, Slots, OperandsExist
<1>4. Accounted'
  <2> SUFFICES ASSUME NEW d \in alive PROVE Needed(d)' <=> d \notin dying'
    BY <1>1 DEF Accounted
  <2>1. Referenced(d)' <=> Needed(d)'
    <3>1. TypeOK' /\ Mirror' => ReferencedIsNeeded'
      BY ReferencedMeans, PTL
    <3> QED
      BY <1>2, <1>3, <3>1 DEF IInv, TypeOK, ReferencedIsNeeded
  <2>2. Needed(d)
    BY DEF IInv, Accounted
  <2> QED
    BY <1>1, <2>1, <2>2 DEF Needed, Abandoned
<1>5. Shapes'
  BY <1>1 DEF IInv, Shapes, HasResult
<1>6. NoRings'
  BY <1>1 DEF IInv, NoRings
<1> QED
  BY <1>2, <1>3, <1>4, <1>5, <1>6 DEF IInv

\* A destructor.
LEMMA DestroyKeepsIInv == ASSUME IInv, NEW c \in Codes, Destroy(c) PROVE IInv'
<1>1. /\ c \in dying
      /\ alive' = alive \ {c}
      /\ users' = Unlink(UnlinkedBy(c))
      /\ operands' = [operands EXCEPT ![c] = <<>>]
      /\ UNCHANGED <<kind, listed, held, loop, stage>>
      /\ dying' = (dying \ {c}) \cup Abandoned(Range(operands[c]))
  BY DEF Destroy
<1>2. TypeOK /\ c \in alive /\ ~Needed(c)
  BY <1>1 DEF IInv, TypeOK, Accounted
<1>3. c \notin listed \cup held /\ \A d \in alive : c \notin Range(operands[d])
  BY <1>2 DEF Needed
<1>4. kind[c] \notin {"phi", "assign"}
  <2>1. ASSUME kind[c] = "phi" PROVE FALSE
    <3>1. PICK d \in listed : kind[d] = "assign" /\ operands[d][1] = c
      BY <1>2, <1>3, <2>1 DEF IInv, PhisAreKept
    <3>2. d \in alive /\ 1 \in DOMAIN operands[d]
      BY <1>2, <3>1 DEF TypeOK, IInv, Shapes
    <3> QED
      BY <1>3, <3>1, <3>2 DEF Range
  <2> QED
    BY <1>2, <1>3, <2>1 DEF IInv, PhisAreKept
<1>5. \A d \in alive' : d \in alive /\ d # c /\ d \in Codes /\ operands'[d] = operands[d]
  BY <1>1, <1>2 DEF TypeOK
<1>6. TypeOK'
  <2>1. users' \in [Codes -> SUBSET (Codes \X Nat)]
    BY <1>1, <1>2 DEF TypeOK, Unlink
  <2>2. operands' \in [Codes -> Seq(Codes)]
    BY <1>1, <1>2, EmptySeq DEF TypeOK
  <2>3. dying' \subseteq alive'
    BY <1>1, <1>2 DEF Abandoned, TypeOK
  <2> QED
    BY <1>1, <1>2, <1>3, <2>1, <2>2, <2>3 DEF TypeOK
<1>7. Mirror'
  <2> SUFFICES ASSUME NEW w \in Codes, NEW d \in Codes, NEW t \in Nat
               PROVE  <<d, t>> \in users'[w] <=> Uses(d, t, w)'
    BY DEF Mirror
  <2>1. <<d, t>> \in users[w] <=> Uses(d, t, w)
    BY DEF IInv, Mirror
  <2>2. users'[w] = users[w] \ UnlinkedBy(c)
    BY <1>1 DEF Unlink
  <2>3. <<d, t>> \in UnlinkedBy(c) <=> d = c /\ t \in DOMAIN operands[c]
    BY <1>4 DEF UnlinkedBy, UsesBy, Slots
  <2> QED
    BY <1>1, <1>5, <2>1, <2>2, <2>3 DEF Uses, Slots
<1>8. OperandsExist'
  BY <1>1, <1>3, <1>5 DEF IInv, OperandsExist
<1>9. Accounted'
  <2> SUFFICES ASSUME NEW d \in alive' PROVE Needed(d)' <=> d \notin dying'
    BY DEF Accounted
  <2>1. d \in Codes /\ d \in alive /\ d # c /\ (Needed(d) <=> d \notin dying)
    BY <1>5 DEF IInv, Accounted
  <2>2. Referenced(d)' <=> Needed(d)'
    <3>1. TypeOK' /\ Mirror' => ReferencedIsNeeded'
      BY ReferencedMeans, PTL
    <3> QED
      BY <1>6, <1>7, <2>1, <3>1 DEF ReferencedIsNeeded
  <2>3. Needed(d)' => Needed(d)
    BY <1>1, <1>5 DEF Needed
  <2>4. CASE d \in Range(operands[c])
    <3>1. Needed(d)
      BY <1>2, <2>4 DEF Needed
    <3> QED
      BY <1>1, <2>1, <2>2, <2>4, <3>1 DEF Abandoned
  <2>5. CASE d \notin Range(operands[c])
    <3>1. Needed(d) => Needed(d)'
      BY <1>1, <1>5, <2>5 DEF Needed
    <3> QED
      BY <1>1, <2>1, <2>3, <2>5, <3>1 DEF Abandoned
  <2> QED
    BY <2>4, <2>5
<1>10. Shapes'
  BY <1>1, <1>5 DEF IInv, Shapes, HasResult
<1>11. PhisAreKept'
  <2>1. listed \subseteq alive'
    BY <1>1, <1>2, <1>3 DEF TypeOK
  <2> QED
    BY <1>1, <1>5, <2>1 DEF IInv, PhisAreKept
<1>12. LoopInv'
  <2>1. CASE loop = NoLoop
    BY <1>1, <2>1 DEF LoopInv
  <2>2. CASE loop # NoLoop
    <3> DEFINE a == loop.alloca
    <3>1. /\ loop \in Loops /\ stage = "promote" /\ a \in listed /\ kind[a] = "alloca" /\ loop.at = Gone
          /\ \A u \in users[a] : kind[u[1]] = "store" /\ u[2] = 2
          /\ Ahead \subseteq users[a]
          /\ \A u \in users[a] : u \in Ahead <=> u[1] \notin dying
          /\ loop.next \notin loop.rest
          /\ loop.at # End => loop.at \notin {loop.next} \cup loop.rest
          /\ loop.next = End => loop.rest = {}
          /\ loop.at = End => loop.next = End
      BY <1>1, <2>2 DEF IInv, LoopInv
    <3>2. a \in Codes /\ users[a] \subseteq Codes \X Nat
      BY <3>1 DEF Loops, IInv, TypeOK
    <3>3. users'[a] = users[a] \ UnlinkedBy(c)
      BY <1>1, <3>2 DEF Unlink
    <3>4. \A u \in UnlinkedBy(c) : u[1] = c
      BY DEF UnlinkedBy, UsesBy
    <3>5. \A u \in users[a] : u \notin UnlinkedBy(c) => u[1] # c
      <4> SUFFICES ASSUME NEW u \in users[a], u[1] = c PROVE u \in UnlinkedBy(c)
        OBVIOUS
      <4>1. u = <<c, u[2]>> /\ u[2] \in Nat
        BY <3>2
      <4>2. Uses(c, u[2], a)
        BY <3>2, <4>1 DEF IInv, Mirror
      <4> QED
        BY <1>4, <4>1, <4>2 DEF Uses, UnlinkedBy, UsesBy
    <3>6. \A u \in users'[a] : u[1] \in dying' <=> u[1] \in dying
      <4> SUFFICES ASSUME NEW u \in users'[a] PROVE u[1] \notin Range(operands[c])
        BY <1>1, <3>3, <3>5 DEF Abandoned
      <4>1. kind[u[1]] = "store"
        BY <3>1, <3>3
      <4> QED
        BY <1>2, <4>1 DEF IInv, Shapes, Range, HasResult
    <3>7. Ahead' = Ahead /\ Ahead \subseteq users'[a]
      BY <1>1, <3>1, <3>3, <3>4 DEF Ahead
    <3> QED
      BY <1>1, <3>1, <3>3, <3>6, <3>7 DEF LoopInv
  <2> QED
    BY <2>1, <2>2
<1>13. NoRings'
  <2> SUFFICES ASSUME NEW set \in SUBSET alive', set # {}, \A d \in set : kind[d] # "phi"
               PROVE  \E v \in set : \A d \in set : v \notin Range(operands'[d])
    BY <1>1 DEF NoRings
  <2>1. set \in SUBSET alive
    BY <1>1
  <2>2. \E v \in set : \A d \in set : v \notin Range(operands[d])
    BY <2>1 DEF IInv, NoRings
  <2> QED
    BY <1>5, <2>2
<1> QED
  BY <1>6, <1>7, <1>8, <1>9, <1>10, <1>11, <1>12, <1>13 DEF IInv

-----------------------------------------------------------------------------
(***************************************************************************)
(* The client.                                                             *)
(***************************************************************************)
\* What the client gives a constructor has the shape the instruction needs.
LEMMA OperandsForAreShaped ==
    ASSUME Known \subseteq Codes, NEW k \in Kinds \ {"assign"}, NEW ops \in OperandsFor(k)
    PROVE  /\ ops \in Seq(Codes)
           /\ \A s \in DOMAIN ops : ops[s] \in Known /\ HasResult(ops[s])
           /\ k = "store" => DOMAIN ops = {1, 2}
           /\ k = "phi" => 1 \in DOMAIN ops
<1> DEFINE values == {v \in Known : HasResult(v)}
           addresses == {v \in values : kind[v] = "alloca"}
<1>1. CASE k = "alloca"
  <2>1. ops = <<>>
    BY <1>1 DEF OperandsFor
  <2> QED
    BY <1>1, <2>1, EmptySeq
<1>2. CASE k = "load"
  <2>1. PICK v \in values : ops = <<v>>
    BY <1>2 DEF OperandsFor
  <2>2. ops \in Seq(Codes) /\ DOMAIN ops = {1} /\ ops[1] = v
    BY <2>1
  <2> QED
    BY <1>2, <2>2
<1>3. CASE k = "store"
  <2>1. PICK v \in values, a \in values : ops = <<v, a>>
    BY <1>3 DEF OperandsFor
  <2>2. ops \in Seq(Codes) /\ DOMAIN ops = {1, 2} /\ ops[1] = v /\ ops[2] = a
    BY <2>1
  <2> QED
    BY <1>3, <2>2
<1>4. CASE k = "phi"
  <2>1. PICK n \in 1 .. MaxSources, a \in addresses : ops = [s \in 1 .. n |-> a]
    BY <1>4 DEF OperandsFor
  <2>2. n \in Nat /\ 1 \in 1 .. n
    BY <2>1, MaxSourcesAssumption
  <2>3. ops \in Seq(Codes)
    BY <2>1, <2>2
  <2> QED
    BY <1>4, <2>1, <2>2, <2>3
<1> QED
  BY <1>1, <1>2, <1>3, <1>4 DEF Kinds

\* What the client can name exists.
LEMMA KnownExist == IInv => Known \subseteq alive /\ Known \subseteq Codes /\ listed \subseteq Codes /\ listed \subseteq alive
  BY DEF IInv, TypeOK, Known

\* Without a loop there is nothing to keep about it.
LEMMA NoLoopKept == loop = NoLoop /\ UNCHANGED loop => LoopInv'
  BY DEF LoopInv

\* The generator and the passes keep the invariant.
LEMMA ClientKeepsIInv == IInv /\ Client => IInv'
<1> SUFFICES ASSUME IInv, Client PROVE IInv'
  OBVIOUS
<1>0. Known \subseteq alive /\ Known \subseteq Codes /\ listed \subseteq Codes /\ listed \subseteq alive
  BY KnownExist
<1>1. ASSUME NEW c \in Codes, NEW k \in Kinds \ {"assign"}, NEW ops \in OperandsFor(k), BuildInGroup(c, k, ops)
      PROVE  IInv'
  <2>1. /\ Idle /\ kind[c] = Null /\ Build(c, k, ops)
        /\ listed' = listed \cup {c} /\ UNCHANGED <<held, dying, loop, stage>>
    BY <1>1 DEF BuildInGroup, In
  <2> QED
    BY <1>0, <2>1, OperandsForAreShaped, BuildKeepsIInv
<1>2. ASSUME NEW c \in listed, NEW s \in Slots(c), NEW v \in Known, HasResult(v), ReplaceOperand(c, s, v)
      PROVE  IInv'
  BY <1>2, ReplaceOperandKeepsIInv
<1>3. ASSUME NEW c \in listed, Hold(c) PROVE IInv'
  <2>1. /\ dying = {} /\ loop = NoLoop /\ kind[c] \in {"phi", "alloca"}
        /\ held' = held \cup {c}
        /\ UNCHANGED <<kind, operands, alive, users, listed, dying, loop, stage>>
    BY <1>3, IdleMeans DEF Hold, In, code
  <2>2. TypeOK' /\ Mirror' /\ OperandsExist'
    BY <1>0, <2>1 DEF IInv, TypeOK, Mirror, Uses, Slots, OperandsExist
  <2>3. Accounted' /\ Shapes' /\ PhisAreKept' /\ NoRings'
    BY <2>1 DEF IInv, Accounted, Needed, Shapes, HasResult, PhisAreKept, NoRings
  <2> QED
    BY <2>1, <2>2, <2>3, NoLoopKept DEF IInv
<1>4. ASSUME NEW c \in listed, NEW v \in Known, HasResult(v), EraseLoad(c, v) PROVE IInv'
  <2>1. /\ dying = {} /\ loop = NoLoop /\ kind[c] = "load"
        /\ listed' = listed \ {c} /\ held' = held \cup {v}
        /\ UNCHANGED <<code, users, loop, stage>> /\ dying' = Abandoned({c})
    BY <1>4, IdleMeans DEF EraseLoad, In
  <2>2. PhisAreKept'
    BY <1>0, <2>1 DEF IInv, PhisAreKept, code
  <2>3. held' \subseteq alive /\ \A w \in held' : HasResult(w)
    BY <1>0, <1>4, <2>1 DEF IInv, Shapes, Known
  <2> QED
    BY <1>0, <2>1, <2>2, <2>3, NoLoopKept, ReleaseKeepsIInv
<1>5. ASSUME NEW c \in listed, EraseStore(c) PROVE IInv'
  <2>1. /\ dying = {} /\ loop = NoLoop /\ kind[c] = "store"
        /\ listed' = listed \ {c} /\ held' = held \cup {operands[c][1]}
        /\ UNCHANGED <<code, users, loop, stage>> /\ dying' = Abandoned({c})
    BY <1>5, IdleMeans DEF EraseStore, In
  <2>2. PhisAreKept'
    BY <1>0, <2>1 DEF IInv, PhisAreKept, code
  <2>3. operands[c][1] \in alive /\ HasResult(operands[c][1])
    <3>1. 1 \in DOMAIN operands[c]
      BY <1>0, <2>1 DEF IInv, Shapes
    <3> QED
      BY <1>0, <3>1 DEF IInv, Shapes, OperandsExist, Range
  <2>4. held' \subseteq alive /\ \A w \in held' : HasResult(w)
    BY <1>0, <2>1, <2>3 DEF IInv, Shapes, Known
  <2> QED
    BY <1>0, <2>1, <2>2, <2>4, NoLoopKept, ReleaseKeepsIInv
<1>6. ASSUME NEW c \in listed, EraseAlloca(c) PROVE IInv'
  <2>1. /\ dying = {} /\ loop = NoLoop /\ kind[c] = "alloca"
        /\ listed' = listed \ {c}
        /\ UNCHANGED <<code, users, held, loop, stage>> /\ dying' = Abandoned({c})
    BY <1>6, IdleMeans DEF EraseAlloca, In
  <2>2. PhisAreKept'
    BY <1>0, <2>1 DEF IInv, PhisAreKept, code
  <2>3. held' \subseteq alive /\ \A w \in held' : HasResult(w)
    BY <1>0, <2>1 DEF IInv, Shapes, Known
  <2> QED
    BY <1>0, <2>1, <2>2, <2>3, NoLoopKept, ReleaseKeepsIInv
<1>7. ASSUME NEW c \in listed, ErasePhi(c) PROVE IInv'
  <2>1. /\ dying = {} /\ loop = NoLoop /\ kind[c] = "phi"
        /\ \A s \in Slots(c) : Assigned(c, s)
        /\ listed' = listed \ {c}
        /\ UNCHANGED <<code, users, held, loop, stage>> /\ dying' = Abandoned({c})
    BY <1>7, IdleMeans DEF ErasePhi, In
  <2>2. PhisAreKept'
    <3>1. 1 \in Slots(c)
      BY <1>0, <2>1 DEF IInv, Shapes, Slots
    <3>2. PICK d \in listed : kind[d] = "assign" /\ operands[d] = <<c, operands[c][1]>>
      BY <2>1, <3>1 DEF Assigned
    <3>3. d \in listed' /\ operands[d][1] = c
      BY <2>1, <3>2
    <3> QED
      BY <1>0, <2>1, <3>2, <3>3 DEF IInv, PhisAreKept, code
  <2>3. held' \subseteq alive /\ \A w \in held' : HasResult(w)
    BY <1>0, <2>1 DEF IInv, Shapes, Known
  <2> QED
    BY <1>0, <2>1, <2>2, <2>3, NoLoopKept, ReleaseKeepsIInv
<1>8. ASSUME EndRound PROVE IInv'
  <2>1. /\ dying = {} /\ loop = NoLoop
        /\ held' = {}
        /\ UNCHANGED <<code, users, listed, loop, stage>> /\ dying' = Abandoned(held)
    BY <1>8, IdleMeans DEF EndRound, In
  <2>2. PhisAreKept'
    BY <1>0, <2>1 DEF IInv, PhisAreKept, code
  <2>3. held \subseteq alive
    BY <1>0 DEF Known
  <2> QED
    BY <1>0, <2>1, <2>2, <2>3, NoLoopKept, ReleaseKeepsIInv
<1>9. ASSUME NEW p \in listed, NEW s \in Slots(p), NEW c \in Codes, AssignPhi(p, s, c) PROVE IInv'
  <2> DEFINE ops == <<p, operands[p][s]>>
  <2>1. /\ Idle /\ stage = "quit" /\ kind[p] = "phi" /\ kind[c] = Null /\ Build(c, "assign", ops)
        /\ listed' = listed \cup {c} /\ UNCHANGED <<held, dying, loop, stage>>
    BY <1>9 DEF AssignPhi, In
  <2>2. s \in DOMAIN operands[p] /\ operands[p][s] \in alive /\ HasResult(operands[p][s])
    BY <1>0 DEF Slots, IInv, Shapes, OperandsExist, Range
  <2>3. p \in alive /\ HasResult(p)
    BY <1>0, <2>1 DEF HasResult
  <2>4. p \in Codes /\ operands[p][s] \in Codes
    BY <1>0, <2>2 DEF IInv, TypeOK
  <2>5. ops \in Seq(Codes) /\ DOMAIN ops = {1, 2} /\ ops[1] = p /\ ops[2] = operands[p][s]
    BY <2>4
  <2>6. \A t \in DOMAIN ops : ops[t] \in alive /\ HasResult(ops[t])
    BY <2>2, <2>3, <2>5
  <2>7. "assign" \in Kinds
    BY DEF Kinds
  <2> HIDE DEF ops
  <2> QED
    BY <2>1, <2>5, <2>6, <2>7, BuildKeepsIInv
<1> QED
  BY <1>1, <1>2, <1>3, <1>4, <1>5, <1>6, <1>7, <1>8, <1>9 DEF Client

-----------------------------------------------------------------------------
(***************************************************************************)
(* TryRemoveAllocIfStoreOnly.                                              *)
(***************************************************************************)
\* The two places of the iterator that are no use.
LEMMA EndsAreNoNodes == End \notin Nodes /\ Gone \notin Nodes /\ End # Gone
  BY NullAssumption DEF End, Gone, Nodes

\* Where operator++ or begin() leaves the iterator.
LEMMA IteratorMeans ==
    ASSUME NEW a \in Codes, NEW at \in Nodes \cup {End}, NEW rest \in SUBSET Nodes,
           at = End => rest = {}, at \notin rest, NEW l \in Iterator(a, at, rest)
    PROVE  /\ l \in Loops /\ l.alloca = a /\ l.at = at
           /\ ({l.next} \cup l.rest) \ {End} = rest
           /\ l.next \notin l.rest
           /\ l.next = End => l.rest = {}
           /\ at = End => l.next = End
<1>1. CASE at = End
  <2>1. l = [alloca |-> a, at |-> End, next |-> End, rest |-> {}]
    BY <1>1 DEF Iterator
  <2>2. l \in Loops
    BY <2>1 DEF Loops
  <2> QED
    BY <1>1, <2>1, <2>2
<1>2. CASE at # End /\ rest = {}
  <2>1. l = [alloca |-> a, at |-> at, next |-> End, rest |-> {}]
    BY <1>2 DEF Iterator
  <2>2. l \in Loops
    BY <2>1 DEF Loops
  <2> QED
    BY <1>2, <2>1, <2>2
<1>3. CASE at # End /\ rest # {}
  <2>1. PICK n \in rest : l = [alloca |-> a, at |-> at, next |-> n, rest |-> rest \ {n}]
    BY <1>3 DEF Iterator
  <2>2. l.alloca = a /\ l.at = at /\ l.next = n /\ l.rest = rest \ {n} /\ n # End
    BY <2>1, EndsAreNoNodes
  <2>3. l \in Loops
    BY <2>1 DEF Loops
  <2>4. ({l.next} \cup l.rest) \ {End} = rest
    BY <2>2, EndsAreNoNodes
  <2> QED
    BY <2>2, <2>3, <2>4, <1>3
<1> QED
  BY <1>1, <1>2, <1>3

\* The loop keeps the invariant.
LEMMA RemovalKeepsIInv == IInv /\ Removal => IInv'
<1> SUFFICES ASSUME IInv, Removal PROVE IInv'
  OBVIOUS
<1>0. Known \subseteq alive /\ Known \subseteq Codes /\ listed \subseteq Codes /\ listed \subseteq alive
  BY KnownExist
<1>1. ASSUME NEW a \in listed, StartRemoval(a) PROVE IInv'
  <2>1. /\ dying = {} /\ loop = NoLoop /\ stage = "promote" /\ kind[a] = "alloca" /\ Removable(a)
        /\ UNCHANGED <<kind, operands, alive, users, listed, held, dying, stage>>
    BY <1>1, IdleMeans DEF StartRemoval, In, code, refs
  <2>2. PICK at \in IF users[a] = {} THEN {End} ELSE users[a] : loop' \in Iterator(a, at, users[a] \ {at})
    BY <1>1 DEF StartRemoval
  <2>3. a \in Codes /\ users[a] \subseteq Nodes
    BY <1>0 DEF IInv, TypeOK, Nodes
  <2>4. at \in Nodes \cup {End} /\ users[a] \ {at} \subseteq Nodes /\ (at = End => users[a] = {})
    BY <2>2, <2>3, EndsAreNoNodes
  <2>5. /\ loop' \in Loops /\ loop'.alloca = a /\ loop'.at = at
        /\ ({loop'.next} \cup loop'.rest) \ {End} = users[a] \ {at}
        /\ loop'.next \notin loop'.rest
        /\ loop'.next = End => loop'.rest = {}
        /\ at = End => loop'.next = End
    BY <2>2, <2>3, <2>4, IteratorMeans
  <2>6. Ahead' = users[a]
    <3>1. Ahead' = ({at} \cup {loop'.next} \cup loop'.rest) \ {End, Gone}
      BY <2>5 DEF Ahead
    <3> QED
      BY <2>2, <2>3, <2>5, <3>1, EndsAreNoNodes
  <2>7. ASSUME NEW u \in users[a] PROVE kind[u[1]] = "store" /\ u[2] = 2
    <3>1. u[1] \in Codes /\ u[2] \in Nat /\ u = <<u[1], u[2]>>
      BY <2>3 DEF Nodes
    <3>2. Uses(u[1], u[2], a)
      BY <2>3, <3>1 DEF IInv, Mirror
    <3>3. kind[u[1]] = "store" /\ operands[u[1]][1] # a
      BY <2>1 DEF Removable
    <3> QED
      BY <3>2, <3>3 DEF Uses, Slots, IInv, Shapes
  <2>8. LoopInv'
    BY <2>1, <2>2, <2>4, <2>5, <2>6, <2>7, EndsAreNoNodes DEF LoopInv
  <2>9. TypeOK' /\ Mirror' /\ OperandsExist'
    <3>1. loop'.alloca \in Codes
      BY <2>3, <2>5
    <3>2. TypeOK'
      BY <2>1, <3>1 DEF IInv, TypeOK
    <3>3. Mirror'
      BY <2>1 DEF IInv, Mirror, Uses, Slots
    <3>4. OperandsExist'
      BY <2>1 DEF IInv, OperandsExist
    <3> QED
      BY <3>2, <3>3, <3>4
  <2>10. Accounted' /\ Shapes' /\ PhisAreKept' /\ NoRings'
    BY <2>1 DEF IInv, Accounted, Needed, Shapes, HasResult, PhisAreKept, NoRings
  <2> QED
    BY <2>8, <2>9, <2>10 DEF IInv
<1> DEFINE a == loop.alloca
<1>2. ASSUME Looping
      PROVE  /\ loop \in Loops /\ a \in listed /\ kind[a] = "alloca" /\ a \in Codes /\ stage = "promote" /\ users[a] \subseteq Nodes
             /\ \A u \in users[a] : kind[u[1]] = "store" /\ u[2] = 2
             /\ Ahead \subseteq users[a]
             /\ \A u \in users[a] : u \in Ahead <=> u[1] \notin dying
             /\ loop.next \notin loop.rest
             /\ loop.at # End => loop.at \notin {loop.next} \cup loop.rest
             /\ loop.next = End => loop.rest = {}
             /\ loop.at = End => loop.next = End
  BY <1>0, <1>2 DEF Looping, NoLoop, IInv, LoopInv, TypeOK, Nodes
<1>3. ASSUME RemoveUser PROVE IInv'
  <2>0. PICK c : c = loop.at[1]
    OBVIOUS
  <2>1. /\ Looping /\ dying = {} /\ loop.at \notin {End, Gone}
        /\ listed' = listed \ {c} /\ loop' = [loop EXCEPT !.at = Gone]
        /\ UNCHANGED <<code, users, held, stage>> /\ dying' = Abandoned({c})
    BY <1>3, <2>0 DEF RemoveUser
  <2>2. loop.at \in users[a] /\ loop.at = <<c, 2>> /\ c \in Codes /\ kind[c] = "store"
    BY <1>2, <2>0, <2>1 DEF Ahead, Nodes
  <2>3. Uses(c, 2, a) /\ c \in alive
    <3>1. <<c, 2>> \in users[a]
      BY <2>2
    <3>2. Uses(c, 2, a)
      BY <1>2, <2>1, <2>2, <3>1 DEF IInv, Mirror
    <3> QED
      BY <3>2 DEF Uses
  <2>4. dying' = {c}
    <3>1. c \notin held /\ \A d \in alive : c \notin Range(operands[d])
      <4>1. ~HasResult(c)
        BY <2>2 DEF HasResult
      <4> QED
        BY <4>1 DEF IInv, Shapes, Range
    <3>2. ~Referenced(c)'
      <4>1. users[c] = {}
        <5> SUFFICES ASSUME NEW u \in users[c] PROVE FALSE
          OBVIOUS
        <5>1. u[1] \in Codes /\ u[2] \in Nat /\ u = <<u[1], u[2]>>
          BY <2>2 DEF IInv, TypeOK
        <5>2. Uses(u[1], u[2], c)
          BY <2>2, <5>1 DEF IInv, Mirror
        <5> QED
          BY <3>1, <5>2 DEF Uses, Slots, Range
      <4> QED
        BY <2>1, <3>1, <4>1 DEF Referenced, code
    <3> QED
      BY <2>1, <2>3, <3>2 DEF Abandoned, code
  <2>5. /\ loop' \in Loops /\ loop'.alloca = a /\ loop'.at = Gone
        /\ loop'.next = loop.next /\ loop'.rest = loop.rest
    BY <1>2, <2>1 DEF Loops
  <2>6. Ahead' = Ahead \ {loop.at}
    <3>1. Ahead' = ({Gone, loop.next} \cup loop.rest) \ {End, Gone}
      BY <2>5 DEF Ahead
    <3> QED
      BY <1>2, <2>1, <3>1 DEF Ahead
  <2>7. \A u \in users[a] : u[1] = c <=> u = loop.at
    BY <1>2, <2>1, <2>2 DEF Nodes
  <2>8. a \in listed'
    <3>1. kind[a] # "store"
      <4>1. HasResult(a)
        BY <2>3 DEF Uses, Slots, IInv, Shapes
      <4> QED
        BY <4>1 DEF HasResult
    <3> QED
      BY <1>2, <2>1, <2>2, <3>1
  <2>9. LoopInv'
    BY <1>2, <2>1, <2>4, <2>5, <2>6, <2>7, <2>8, EndsAreNoNodes DEF LoopInv, code, Loops
  <2>10. PhisAreKept'
    BY <1>0, <2>1, <2>2 DEF IInv, PhisAreKept, code
  <2>11. held' \subseteq alive /\ \A w \in held' : HasResult(w)
    BY <1>0, <2>1 DEF IInv, Shapes, Known
  <2>12. {c} \in SUBSET alive
    BY <2>3
  <2> QED
    BY <1>0, <2>1, <2>9, <2>10, <2>11, <2>12, ReleaseKeepsIInv
<1>4. ASSUME Advance PROVE IInv'
  <2>1. /\ Looping /\ dying = {} /\ loop.at = Gone
        /\ loop' \in Iterator(a, loop.next, loop.rest \cap users[a])
        /\ UNCHANGED <<kind, operands, alive, users, listed, held, dying, stage>>
    BY <1>4 DEF Advance, code, refs
  <2>2. /\ loop.rest \cap users[a] = loop.rest /\ loop.rest \subseteq Nodes
        /\ loop.next \in Nodes \cup {End}
    BY <1>2, <2>1, EndsAreNoNodes DEF Ahead, Loops
  <2>3. /\ loop' \in Loops /\ loop'.alloca = a /\ loop'.at = loop.next
        /\ ({loop'.next} \cup loop'.rest) \ {End} = loop.rest
        /\ loop'.next \notin loop'.rest
        /\ loop'.next = End => loop'.rest = {}
        /\ loop.next = End => loop'.next = End
    BY <1>2, <2>1, <2>2, IteratorMeans
  <2>4. Ahead' = Ahead
    <3>1. Ahead' = ({loop.next} \cup {loop'.next} \cup loop'.rest) \ {End, Gone}
      BY <2>3 DEF Ahead
    <3> QED
      BY <2>1, <2>3, <3>1, EndsAreNoNodes DEF Ahead
  <2>5. LoopInv'
    BY <1>2, <2>1, <2>2, <2>3, <2>4, EndsAreNoNodes DEF LoopInv
  <2>6. TypeOK' /\ Mirror' /\ OperandsExist'
    BY <1>2, <2>1, <2>3 DEF IInv, TypeOK, Mirror, Uses, Slots, OperandsExist
  <2>7. Accounted' /\ Shapes' /\ PhisAreKept' /\ NoRings'
    BY <2>1 DEF IInv, Accounted, Needed, Shapes, HasResult, PhisAreKept, NoRings
  <2> QED
    BY <2>5, <2>6, <2>7 DEF IInv
<1>5. ASSUME EndRemoval PROVE IInv'
  <2>0. PICK v : v = a
    OBVIOUS
  <2>1. /\ Looping /\ dying = {} /\ loop.at = End
        /\ listed' = listed \ {v} /\ loop' = NoLoop
        /\ UNCHANGED <<code, users, held, stage>> /\ dying' = Abandoned({v})
    BY <1>5, <2>0 DEF EndRemoval
  <2>2. PhisAreKept'
    BY <1>0, <1>2, <2>0, <2>1 DEF IInv, PhisAreKept, code
  <2>3. held' \subseteq alive /\ \A w \in held' : HasResult(w)
    BY <1>0, <2>1 DEF IInv, Shapes, Known
  <2>4. LoopInv'
    BY <2>1 DEF LoopInv
  <2>5. {v} \in SUBSET alive
    BY <1>0, <1>2, <2>0, <2>1
  <2> QED
    BY <1>0, <2>1, <2>2, <2>3, <2>4, <2>5, ReleaseKeepsIInv
<1> QED
  BY <1>1, <1>3, <1>4, <1>5 DEF Removal

-----------------------------------------------------------------------------
(***************************************************************************)
(* The theorems.                                                           *)
(***************************************************************************)
\* Before the first instruction is built.
LEMMA InitIInv == Init => IInv
<1> SUFFICES ASSUME Init PROVE IInv
  OBVIOUS
<1>1. TypeOK
  BY EmptySeq DEF Init, TypeOK, NoLoop
<1>2. Mirror /\ OperandsExist /\ Accounted /\ Shapes /\ PhisAreKept /\ NoRings /\ LoopInv
  BY DEF Init, Mirror, Uses, OperandsExist, Accounted, Shapes, PhisAreKept, NoRings, LoopInv
<1> QED
  BY <1>1, <1>2 DEF IInv

\* From the generator to the promotion of variables, and to QuitSSAPass.
LEMMA NextStageKeepsIInv == IInv /\ NextStage => IInv'
<1> SUFFICES ASSUME IInv, NextStage PROVE IInv'
  OBVIOUS
<1>1. /\ dying = {} /\ loop = NoLoop /\ stage # "quit" /\ stage' \in {"promote", "quit"}
      /\ UNCHANGED <<kind, operands, alive, users, listed, held, dying, loop>>
  BY IdleMeans DEF NextStage, code, refs
<1>2. TypeOK' /\ Mirror' /\ OperandsExist'
  BY <1>1 DEF IInv, TypeOK, Mirror, Uses, Slots, OperandsExist
<1>3. Accounted' /\ Shapes'
  BY <1>1 DEF IInv, Accounted, Needed, Shapes, HasResult
<1>4. PhisAreKept' /\ NoRings'
  BY <1>1 DEF IInv, PhisAreKept, NoRings
<1> QED
  BY <1>1, <1>2, <1>3, <1>4, NoLoopKept DEF IInv

\* The invariant speaks of the variables only.
LEMMA StutterKeepsIInv == IInv /\ UNCHANGED vars => IInv'
<1> SUFFICES ASSUME IInv, UNCHANGED vars PROVE IInv'
  OBVIOUS
<1>1. UNCHANGED <<kind, operands, users, alive, listed, held, dying, loop, stage>>
  BY DEF vars
<1>2. TypeOK' /\ Mirror' /\ OperandsExist'
  BY <1>1 DEF IInv, TypeOK, Mirror, Uses, Slots, OperandsExist
<1>3. Accounted' /\ Shapes' /\ PhisAreKept' /\ NoRings'
  BY <1>1 DEF IInv, Accounted, Needed, Shapes, HasResult, PhisAreKept, NoRings
<1>4. LoopInv'
  BY <1>1 DEF IInv, LoopInv, Ahead
<1> QED
  BY <1>2, <1>3, <1>4 DEF IInv

\* The invariant is inductive.
LEMMA NextKeepsIInv == IInv /\ [Next]_vars => IInv'
  BY ClientKeepsIInv, NextStageKeepsIInv, RemovalKeepsIInv, DestroyKeepsIInv, StutterKeepsIInv
     DEF Next, Rest

\* It holds at every moment.
LEMMA IInvHolds == Spec => []IInv
  BY InitIInv, NextKeepsIInv, PTL DEF Spec

\* And it says what is to be shown.
LEMMA IInvImplies == IInv => UsersMirrorOperands /\ NothingLeaks /\ RemovalLoopIsSafe
<1> SUFFICES ASSUME IInv PROVE UsersMirrorOperands /\ NothingLeaks /\ RemovalLoopIsSafe
  OBVIOUS
<1>1. UsersMirrorOperands
  BY MirrorMeans DEF IInv
<1>2. NothingLeaks
  <2> SUFFICES ASSUME NEW set \in SUBSET alive, listed \cup held \cup dying \subseteq set,
                      \A c \in set : Range(operands[c]) \subseteq set, set # alive
               PROVE  FALSE
    BY DEF NothingLeaks
  <2>1. PICK lost : lost = alive \ set
    OBVIOUS
  <2>2. lost # {} /\ lost \in SUBSET alive
    BY <2>1
  <2>3. ASSUME NEW v \in lost PROVE \E c \in lost : v \in Range(operands[c])
    <3>1. v \in alive /\ v \notin set
      BY <2>1
    <3>2. Needed(v) /\ v \notin listed \cup held
      BY <3>1 DEF IInv, Accounted
    <3>3. PICK c \in alive : v \in Range(operands[c])
      BY <3>2 DEF Needed
    <3>4. c \notin set
      BY <3>1, <3>3
    <3> QED
      BY <2>1, <3>3, <3>4
  <2>4. ASSUME NEW p \in lost, kind[p] = "phi" PROVE FALSE
    <3>1. p \in alive /\ p \notin set
      BY <2>1
    <3>2. PICK c \in listed : kind[c] = "assign" /\ operands[c][1] = p
      BY <2>4, <3>1 DEF IInv, PhisAreKept
    <3>3. c \in set /\ c \in alive
      BY <3>2
    <3>4. 1 \in DOMAIN operands[c]
      BY <3>2, <3>3 DEF IInv, Shapes
    <3>5. p \in Range(operands[c])
      BY <3>2, <3>4 DEF Range
    <3> QED
      BY <3>1, <3>3, <3>5
  <2>5. PICK v \in lost : \A c \in lost : v \notin Range(operands[c])
    BY <2>2, <2>4 DEF IInv, NoRings
  <2> QED
    BY <2>3, <2>5
<1>3. RemovalLoopIsSafe
  <2> SUFFICES ASSUME loop # NoLoop
               PROVE  /\ {loop.at, loop.next} \ {End, Gone} \subseteq users[loop.alloca]
                      /\ loop.at = End => users[loop.alloca] = {}
    BY DEF RemovalLoopIsSafe, Looping, NoLoop
  <2>1. {loop.at, loop.next} \ {End, Gone} \subseteq users[loop.alloca]
    BY DEF IInv, LoopInv, Ahead
  <2>2. ASSUME loop.at = End PROVE users[loop.alloca] = {}
    BY <2>2, EndsAreNoNodes DEF IInv, LoopInv, Ahead
  <2> QED
    BY <2>1, <2>2
<1> QED
  BY <1>1, <1>2, <1>3

\* Groups, maps, use lists and running destructors hold instructions that exist.
THEOREM DefUseTypeCorrect == Spec => []TypeOK
<1>1. IInv => TypeOK
  BY DEF IInv
<1> QED
  BY <1>1, IInvHolds, PTL

\* users_ of a value is, at every moment, exactly the set of the operands of living
\* instructions that name it: whoever walks it sees all users and no dead one.
THEOREM MirrorCorrect == Spec => []UsersMirrorOperands
<1>1. IInv => UsersMirrorOperands
  BY IInvImplies
<1> QED
  BY <1>1, IInvHolds, PTL

\* No destructor runs while an instruction that lives still has its value as an operand.
THEOREM OperandsOutliveUsers == Spec => []OperandsExist
<1>1. IInv => OperandsExist
  BY DEF IInv
<1> QED
  BY <1>1, IInvHolds, PTL

\* Every instruction that exists can be reached from a group, a map or a running
\* destructor: no use left in a list and no ring of operands keeps one alive.
THEOREM LeaksNothing == Spec => []NothingLeaks
<1>1. IInv => NothingLeaks
  BY IInvImplies
<1> QED
  BY <1>1, IInvHolds, PTL

\* The loop over users_ in TryRemoveAllocIfStoreOnly never stands on, nor goes to, a
\* node that has left the list, and it ends with a list that is empty.
THEOREM RemovalLoopCorrect == Spec => []RemovalLoopIsSafe
<1>1. IInv => RemovalLoopIsSafe
  BY IInvImplies
<1> QED
  BY <1>1, IInvHolds, PTL
=============================================================================
