----------------------- MODULE FunctionBuilderProofs -----------------------
(***************************************************************************)
(* Proofs about CodeBuilder and FunctionBuilder together, for any finite   *)
(* set of labels and any number of codes: BuildFunction never throws, the  *)
(* groups it makes hold each reachable code once and nothing else, control *)
(* flows through them as through the codes passed in, their edges are      *)
(* mirrored and their jumps name the groups they lead to.  All follow from *)
(* one inductive invariant, IInv.                                          *)
(***************************************************************************)
EXTENDS FunctionBuilder, SequenceTheorems, FiniteSetTheorems, TLAPS

-----------------------------------------------------------------------------
(***************************************************************************)
(* The calls of the client, which only CodeBuilder sees.                   *)
(***************************************************************************)
ListedKinds == {"plain", "return", "goto", "branch"}
ListedCodes == [kind : ListedKinds, label : Labels \cup {NoLabel}, to : Seq(Labels)]
AllocaCode == Code("alloca", NoLabel, <<>>)

\* Only jumps name labels.
NamesFitKind(c) == c.kind \in {"plain", "return"} => c.to = <<>>

BuilderTypes ==
    /\ alloca_list \in Seq({AllocaCode})
    /\ code_list \in Seq(ListedCodes)
    /\ \A n \in DOMAIN code_list : NamesFitKind(code_list[n])
    /\ dest_code \in [Labels -> Nat]
    /\ appended \in SUBSET Labels
    /\ appended_label \in appended \cup {NoLabel}
    /\ finished \in BOOLEAN

\* Every label but the one that waits has taken at most one code of its own.
ListsAreShort ==
    /\ Len(alloca_list) <= MaxAllocas
    /\ Len(code_list) <= MaxCodes + Cardinality(appended \ {appended_label})

\* What the client's discipline comes to.
NothingDangles == finished => appended_label = NoLabel /\ Referenced \subseteq appended

BuilderInv == BuilderTypes /\ ListsAreShort /\ LabelsHaveTheirCode /\ NothingDangles

-----------------------------------------------------------------------------
\* A new builder has no codes and no labels.
LEMMA InitBuilderInv == InitBuilder /\ IsFiniteSet(Labels) => BuilderInv
<1> SUFFICES ASSUME InitBuilder, IsFiniteSet(Labels) PROVE BuilderInv
  OBVIOUS
<1> USE DEF InitBuilder
<1>0. <<>> \in Seq({AllocaCode}) /\ <<>> \in Seq(ListedCodes) /\ DOMAIN <<>> = {} /\ Len(<<>>) = 0
  BY EmptySeq, LenProperties
<1>1. BuilderTypes
  BY <1>0 DEF BuilderTypes
<1>2. ListsAreShort
  BY <1>0, BoundsAssumption, FS_EmptySet DEF ListsAreShort
<1>3. LabelsHaveTheirCode
  BY <1>0 DEF LabelsHaveTheirCode
<1> QED
  BY <1>1, <1>2, <1>3 DEF BuilderInv, NothingDangles

\* A code that is appended takes the label that waits: its types, its place, and the
\* labels that have their code now.
LEMMA AppendedCode ==
    ASSUME BuilderTypes, LabelsHaveTheirCode,
           NEW k \in ListedKinds, NEW to \in Seq(Labels), NamesFitKind([kind |-> k, to |-> to]),
           AppendNewCode(k, to)
    PROVE  /\ code_list' \in Seq(ListedCodes)
           /\ \A n \in DOMAIN code_list' : NamesFitKind(code_list'[n])
           /\ dest_code' \in [Labels -> Nat]
           /\ Len(code_list') = Len(code_list) + 1
           /\ \A l \in Labels :
                {n \in DOMAIN code_list' : code_list'[n].label = l}
                    = IF l \in appended THEN {dest_code'[l]} ELSE {}
<1> DEFINE code == Code(k, appended_label, to)
           last == Len(code_list) + 1
<1>1. code \in ListedCodes /\ NamesFitKind(code) /\ code.label = appended_label
  BY DEF BuilderTypes, ListedCodes, Code, NamesFitKind
<1>2. code_list' = Append(code_list, code) /\ Len(code_list) \in Nat
  BY DEF AppendNewCode, BuilderTypes
<1> HIDE DEF code
<1>3. /\ code_list' \in Seq(ListedCodes)
      /\ Len(code_list') = last
      /\ DOMAIN code_list' = DOMAIN code_list \cup {last}
      /\ last \notin DOMAIN code_list
      /\ code_list'[last] = code
      /\ \A n \in DOMAIN code_list : code_list'[n] = code_list[n]
  BY <1>1, <1>2, AppendProperties DEF BuilderTypes
<1>4. \A n \in DOMAIN code_list' : NamesFitKind(code_list'[n])
  BY <1>1, <1>3 DEF BuilderTypes
<1>5. dest_code' \in [Labels -> Nat]
  BY <1>2 DEF AppendNewCode, BuilderTypes
<1>6. ASSUME NEW l \in Labels
      PROVE  {n \in DOMAIN code_list' : code_list'[n].label = l}
                = IF l \in appended THEN {dest_code'[l]} ELSE {}
  <2>1. {n \in DOMAIN code_list' : code_list'[n].label = l}
            = {n \in DOMAIN code_list : code_list[n].label = l}
                \cup (IF l = appended_label THEN {last} ELSE {})
    BY <1>1, <1>3
  <2>2. CASE l = appended_label
    BY <2>1, <2>2, <1>2, LabelsAssumption DEF LabelsHaveTheirCode, AppendNewCode, BuilderTypes
  <2>3. CASE l # appended_label
    <3>1. dest_code'[l] = dest_code[l]
      BY <2>3 DEF AppendNewCode, BuilderTypes
    <3> QED
      BY <2>1, <2>3, <3>1 DEF LabelsHaveTheirCode
  <2> QED
    BY <2>2, <2>3
<1> QED
  BY <1>3, <1>4, <1>5, <1>6

\* The codes the client asks for.
LEMMA AppendableCode ==
    ASSUME NEW c \in Appendable
    PROVE  /\ c.kind \in ListedKinds
           /\ c.to \in Seq(Labels)
           /\ NamesFitKind([kind |-> c.kind, to |-> c.to])
<1>1. CASE c \in [kind : {"plain", "return"}, to : {<<>>}]
  <2>1. c.kind \in {"plain", "return"} /\ c.to = <<>>
    BY <1>1
  <2> QED
    BY <2>1 DEF ListedKinds, NamesFitKind
<1>2. CASE c \in [kind : {"goto"}, to : {<<l>> : l \in Labels}]
  <2>1. c.kind = "goto" /\ \E l \in Labels : c.to = <<l>>
    BY <1>2
  <2> QED
    BY <2>1 DEF ListedKinds, NamesFitKind
<1>3. CASE c \in [kind : {"branch"}, to : {<<t, f>> : t, f \in Labels}]
  <2>1. c.kind = "branch" /\ \E t, f \in Labels : c.to = <<t, f>>
    BY <1>3
  <2> QED
    BY <2>1 DEF ListedKinds, NamesFitKind
<1> QED
  BY <1>1, <1>2, <1>3 DEF Appendable

\* Labels are counted one by one.
LEMMA CountLabels ==
    ASSUME IsFiniteSet(Labels), NEW S \in SUBSET Labels
    PROVE  /\ IsFiniteSet(S)
           /\ Cardinality(S) \in Nat
           /\ Cardinality(S) <= Cardinality(Labels)
           /\ \A l \in S : Cardinality(S) = Cardinality(S \ {l}) + 1
<1>1. IsFiniteSet(S) /\ Cardinality(S) <= Cardinality(Labels)
  BY FS_Subset
<1>2. Cardinality(S) \in Nat
  BY <1>1, FS_CardinalityType
<1>3. ASSUME NEW l \in S PROVE Cardinality(S) = Cardinality(S \ {l}) + 1
  <2>1. IsFiniteSet(S \ {l}) /\ Cardinality(S \ {l}) = Cardinality(S) - 1
    BY <1>1, FS_RemoveElement
  <2>2. Cardinality(S \ {l}) \in Nat
    BY <2>1, FS_CardinalityType
  <2> QED
    BY <2>1, <2>2, <1>2
<1> QED
  BY <1>1, <1>2, <1>3

\* Every call of the client keeps the invariant.
LEMMA NextBuilderInv ==
    ASSUME BuilderInv, NextBuilder, IsFiniteSet(Labels)
    PROVE  BuilderInv'
<1> USE BoundsAssumption DEF BuilderInv
<1>0. /\ Len(code_list) \in Nat /\ Len(alloca_list) \in Nat
      /\ appended \ {appended_label} \in SUBSET Labels
      /\ appended \in SUBSET Labels
      /\ Cardinality(appended \ {appended_label}) \in Nat
      /\ Cardinality(appended) \in Nat
  BY CountLabels DEF BuilderTypes
<1>1. ASSUME NEW c \in Appendable, AppendCode(c) PROVE BuilderInv'
  <2>1. AppendNewCode(c.kind, c.to) /\ Room /\ appended_label' = NoLabel
        /\ UNCHANGED <<alloca_list, appended, finished>>
    BY <1>1 DEF AppendCode, NewCode
  <2>2. /\ code_list' \in Seq(ListedCodes)
        /\ \A n \in DOMAIN code_list' : NamesFitKind(code_list'[n])
        /\ dest_code' \in [Labels -> Nat]
        /\ Len(code_list') = Len(code_list) + 1
        /\ \A l \in Labels :
              {n \in DOMAIN code_list' : code_list'[n].label = l}
                  = IF l \in appended THEN {dest_code'[l]} ELSE {}
    BY <2>1, AppendedCode, AppendableCode
  <2>3. BuilderTypes'
    BY <2>1, <2>2 DEF BuilderTypes
  <2>4. ListsAreShort'
    <3>1. (appended \ {appended_label})' \in SUBSET Labels
      BY <2>1, <1>0
    <3>2. Cardinality((appended \ {appended_label})') \in Nat
      BY <3>1, CountLabels
    <3> QED
      BY <2>1, <2>2, <3>2, <1>0 DEF ListsAreShort, Room
  <2>5. LabelsHaveTheirCode'
    BY <2>1, <2>2, LabelsAssumption DEF LabelsHaveTheirCode
  <2>6. NothingDangles'
    BY <2>1 DEF NothingDangles, Room
  <2> QED
    BY <2>3, <2>4, <2>5, <2>6
<1>2. ASSUME NEW l \in Labels, AppendLabel(l) PROVE BuilderInv'
  <2>1. /\ l \notin appended /\ ~finished
        /\ appended_label' = l /\ appended' = appended \cup {l}
        /\ UNCHANGED <<alloca_list, finished>>
    BY <1>2 DEF AppendLabel, PlaceLabel
  <2>2. NothingDangles'
    BY <2>1 DEF NothingDangles
  <2>3. Cardinality((appended \ {appended_label})') = Cardinality(appended)
    <3>1. (appended \ {appended_label})' = appended
      BY <2>1
    <3> QED
      BY <3>1, Zenon
  <2>4. CASE appended_label # NoLabel
    <3>1. AppendNewCode("goto", <<l>>)
      BY <1>2, <2>4 DEF AppendLabel, PlaceLabel
    <3>2. "goto" \in ListedKinds /\ <<l>> \in Seq(Labels) /\ NamesFitKind([kind |-> "goto", to |-> <<l>>])
      BY DEF ListedKinds, NamesFitKind
    <3>3. /\ code_list' \in Seq(ListedCodes)
          /\ \A n \in DOMAIN code_list' : NamesFitKind(code_list'[n])
          /\ dest_code' \in [Labels -> Nat]
          /\ Len(code_list') = Len(code_list) + 1
          /\ \A m \in Labels :
                {n \in DOMAIN code_list' : code_list'[n].label = m}
                    = IF m \in appended THEN {dest_code'[m]} ELSE {}
      BY <3>1, <3>2, AppendedCode
    <3>4. BuilderTypes'
      BY <2>1, <3>3 DEF BuilderTypes
    <3>5. ListsAreShort'
      <4>1. Cardinality(appended) = Cardinality(appended \ {appended_label}) + 1
        BY <2>4, CountLabels DEF BuilderTypes
      <4> QED
        BY <2>1, <2>3, <3>3, <4>1, <1>0 DEF ListsAreShort
    <3>6. LabelsHaveTheirCode'
      BY <2>1, <3>3 DEF LabelsHaveTheirCode
    <3> QED
      BY <2>2, <3>4, <3>5, <3>6
  <2>5. CASE appended_label = NoLabel
    <3>1. UNCHANGED <<code_list, dest_code>>
      BY <1>2, <2>5 DEF AppendLabel, PlaceLabel
    <3>2. BuilderTypes'
      BY <2>1, <3>1 DEF BuilderTypes
    <3>3. ListsAreShort'
      <4>1. Cardinality(appended \ {appended_label}) = Cardinality(appended)
        <5>1. appended \ {appended_label} = appended
          BY <2>5, LabelsAssumption DEF BuilderTypes
        <5> QED
          BY <5>1, Zenon
      <4> QED
        BY <2>1, <2>3, <3>1, <4>1 DEF ListsAreShort
    <3>4. LabelsHaveTheirCode'
      BY <2>1, <2>5, <3>1, LabelsAssumption DEF LabelsHaveTheirCode
    <3> QED
      BY <2>2, <3>2, <3>3, <3>4
  <2> QED
    BY <2>4, <2>5
<1>3. CASE AppendAlloca
  <2>1. /\ alloca_list' = Append(alloca_list, AllocaCode)
        /\ Len(alloca_list) < MaxAllocas
        /\ UNCHANGED <<code_list, appended_label, dest_code, appended, finished>>
    BY <1>3 DEF AppendAlloca, NewAlloca, AllocaCode
  <2>2. alloca_list' \in Seq({AllocaCode}) /\ Len(alloca_list') = Len(alloca_list) + 1
    BY <2>1, AppendProperties DEF BuilderTypes
  <2>3. BuilderTypes'
    BY <2>1, <2>2 DEF BuilderTypes
  <2>4. ListsAreShort'
    BY <2>1, <2>2, <1>0 DEF ListsAreShort
  <2> QED
    BY <2>1, <2>3, <2>4 DEF LabelsHaveTheirCode, NothingDangles, Referenced
<1>4. CASE Finish
  <2>1. /\ Referenced \subseteq appended /\ ~finished
        /\ finished' = TRUE /\ appended_label' = NoLabel
        /\ UNCHANGED <<alloca_list, appended>>
    BY <1>4 DEF Finish, EndCodes
  <2>2. Cardinality((appended \ {appended_label})') = Cardinality(appended)
    <3>1. (appended \ {appended_label})' = appended
      BY <2>1, LabelsAssumption DEF BuilderTypes
    <3> QED
      BY <3>1, Zenon
  <2>3. CASE appended_label # NoLabel
    <3>1. AppendNewCode("plain", <<>>)
      BY <1>4, <2>3 DEF Finish, EndCodes
    <3>2. "plain" \in ListedKinds /\ <<>> \in Seq(Labels) /\ NamesFitKind([kind |-> "plain", to |-> <<>>])
      BY DEF ListedKinds, NamesFitKind
    <3>3. /\ code_list' \in Seq(ListedCodes)
          /\ \A n \in DOMAIN code_list' : NamesFitKind(code_list'[n])
          /\ dest_code' \in [Labels -> Nat]
          /\ Len(code_list') = Len(code_list) + 1
          /\ \A l \in Labels :
                {n \in DOMAIN code_list' : code_list'[n].label = l}
                    = IF l \in appended THEN {dest_code'[l]} ELSE {}
      BY <3>1, <3>2, AppendedCode
    <3>4. BuilderTypes'
      BY <2>1, <3>3 DEF BuilderTypes
    <3>5. ListsAreShort'
      <4>1. Cardinality(appended) = Cardinality(appended \ {appended_label}) + 1
        BY <2>3, CountLabels DEF BuilderTypes
      <4> QED
        BY <2>1, <2>2, <3>3, <4>1, <1>0 DEF ListsAreShort
    <3>6. LabelsHaveTheirCode'
      BY <2>1, <3>3, LabelsAssumption DEF LabelsHaveTheirCode
    <3>7. Referenced' \subseteq appended
      <4>1. code_list' = Append(code_list, Code("plain", appended_label, <<>>))
        BY <3>1 DEF AppendNewCode
      <4>2. ASSUME NEW n \in DOMAIN code_list', NEW t \in DOMAIN code_list'[n].to
            PROVE  code_list'[n].to[t] \in Referenced
        <5>1. CASE n \in DOMAIN code_list
          <6>1. code_list'[n] = code_list[n]
            BY <4>1, <5>1, AppendProperties DEF BuilderTypes
          <6> QED
            BY <4>2, <5>1, <6>1 DEF Referenced
        <5>2. CASE n \notin DOMAIN code_list
          <6>1. code_list'[n].to = <<>>
            BY <4>1, <5>2, <4>2, <1>0 DEF BuilderTypes, Code
          <6> QED
            BY <4>2, <6>1
        <5> QED
          BY <5>1, <5>2
      <4> QED
        BY <4>2, <2>1 DEF Referenced
    <3> QED
      BY <2>1, <3>4, <3>5, <3>6, <3>7 DEF NothingDangles
  <2>4. CASE appended_label = NoLabel
    <3>1. UNCHANGED <<code_list, dest_code>>
      BY <1>4, <2>4 DEF Finish, EndCodes
    <3>2. BuilderTypes'
      BY <2>1, <3>1 DEF BuilderTypes
    <3>3. ListsAreShort'
      BY <2>1, <2>4, <3>1 DEF ListsAreShort
    <3> QED
      BY <2>1, <2>4, <3>1, <3>2, <3>3 DEF LabelsHaveTheirCode, NothingDangles, Referenced
  <2> QED
    BY <2>3, <2>4
<1> QED
  BY <1>1, <1>2, <1>3, <1>4, NextBuilder DEF NextBuilder

-----------------------------------------------------------------------------
(***************************************************************************)
(* What the recursion reads and never writes.                              *)
(***************************************************************************)
Before == Len(alloca_list)
First == Before + 1
Size == Len(source_codes)

\* The codes that carry a label: only these start a group.
Labelled == {n \in First .. Size : HasLabel(n)}
Jumps(n) == source_codes[n].kind \in {"goto", "branch", "return"}

SourceCodes == [kind : ListedKinds \cup {"alloca"}, label : Labels \cup {NoLabel, FirstLabel}, to : Seq(Labels)]
GroupItems == [pos : {0} \cup Positions, to : Seq(Labels \cup {FirstLabel})]
Frames == [group : {EntryGroup} \cup Positions, line : Positions \cup {NoGroup},
           ended : BOOLEAN, targets : Seq(Positions)]

\* The allocas come first, the first other code carries a label, and every label
\* a code jumps to is carried by the code BuildFunction looks up for it.
SourceInv ==
    /\ Size = Before + Len(code_list)
    /\ First <= Size => HasLabel(First)
    /\ \A n \in First .. Size :
        /\ source_codes[n].kind \in ListedKinds
        /\ NamesFitKind(source_codes[n])
        /\ \A t \in DOMAIN source_codes[n].to :
            /\ PositionOf(source_codes[n].to[t]) \in First .. Size
            /\ source_codes[PositionOf(source_codes[n].to[t])].label = source_codes[n].to[t]

-----------------------------------------------------------------------------
(***************************************************************************)
(* What a group may hold: the codes from its own to the first that jumps,  *)
(* the last, or the one before the next label.                             *)
(***************************************************************************)
\* The codes from g to e, as items.
Run(g, e) == [j \in 1 .. e + 1 - g |-> Item(g + j - 1)]

\* No label after g and no jump before e.
Straight(g, e) ==
    /\ g \in Labelled
    /\ \A n \in g + 1 .. e : ~HasLabel(n)
    /\ \A n \in g .. e - 1 : ~Jumps(n)

\* The group from g that is being filled, before code line.
Partial ==
    {x \in [group : Positions, line : Nat, codes : Seq(GroupItems)] :
        /\ x.line \in x.group .. Size + 1
        /\ Straight(x.group, x.line - 1)
        /\ \A n \in x.group .. x.line - 1 : ~Jumps(n)
        /\ x.codes = Run(x.group, x.line - 1)}

EndsAt(x, e) ==
    /\ Straight(x.group, e)
    /\ x.next = SourceNext(e)
    /\ \/ /\ Jumps(e) \/ e = Size
          /\ x.codes = Run(x.group, e)
       \/ /\ ~Jumps(e)
          /\ e < Size
          /\ HasLabel(e + 1)
          /\ x.codes = Append(Run(x.group, e), NewGoto(source_codes[e + 1].label))

\* The whole group from g, and where control goes after it.
Ended ==
    {x \in [group : Positions, codes : Seq(GroupItems), next : Seq(Positions)] :
        \E e \in x.group .. Size : EndsAt(x, e)}

\* The entry: the allocas, and a goto to the first other code.
Entries ==
    LET allocas == [n \in 1 .. Before |-> [pos |-> n, to |-> <<>>]]
    IN  {x \in [codes : Seq(GroupItems), next : Seq(Positions)] :
            IF First <= Size
            THEN /\ x.codes = Append(allocas, NewGoto(source_codes[First].label))
                 /\ x.next = <<First>>
            ELSE /\ x.codes = allocas
                 /\ x.next = <<>>}

\* The sets that hold every code control can reach.
ClosedSets == {S \in SUBSET DOMAIN source_codes : ClosedUnderNext(S)}

-----------------------------------------------------------------------------
(***************************************************************************)
(* The inductive invariant.                                                *)
(***************************************************************************)
TypeInv ==
    /\ status \in {"appending", "building", "threw", "built"}
    /\ source_codes \in Seq(SourceCodes)
    /\ DOMAIN source_codes \subseteq Positions
    /\ stack \in Seq(Frames)
    /\ groups \in SUBSET Positions
    /\ codes \in [{EntryGroup} \cup Positions -> Seq(GroupItems)]
    /\ follows \in [{EntryGroup} \cup Positions -> Seq(Positions)]
    /\ precedes \in [{EntryGroup} \cup Positions -> Seq({EntryGroup} \cup Positions)]
    /\ DOMAIN group_label = {EntryGroup} \cup Positions
    /\ group_of \in [Positions -> {EntryGroup, NoGroup} \cup Positions]
    /\ basic_groups \in Seq({EntryGroup} \cup Positions)

\* How often x is in a list.
Count(s, x) == Cardinality({k \in DOMAIN s : s[k] = x})

\* EdgesAreMirrored, of the groups still to come too.
Mirrored ==
    \A g, h \in {EntryGroup} \cup Positions : Count(follows[g], h) = Count(precedes[h], g)

NothingBuilt ==
    /\ source_codes = <<>> /\ stack = <<>> /\ groups = {} /\ basic_groups = <<EntryGroup>>
    /\ codes = [g \in {EntryGroup} \cup Positions |-> <<>>]
    /\ follows = [g \in {EntryGroup} \cup Positions |-> <<>>]

\* A call: what its group holds and what it still has to link.
FrameInv(f) ==
    LET g == stack[f].group
    IN  /\ f = 1 <=> g = EntryGroup
        /\ f < Len(stack) => stack[f].ended
        /\ stack[f].line \in First .. Size + 1
        /\ stack[f].targets \in Seq(Labelled)
        /\ f = 1 => /\ stack[f].ended
                    /\ [codes |-> codes[g], next |-> follows[g] \o stack[f].targets] \in Entries
        /\ f > 1 => /\ g \in groups
                    /\ g \notin ToSet(basic_groups)
                    /\ stack[f].ended =>
                        [group |-> g, codes |-> codes[g], next |-> follows[g] \o stack[f].targets] \in Ended
                    /\ ~stack[f].ended =>
                        /\ stack[f].targets = <<>>
                        /\ follows[g] = <<>>
                        /\ [group |-> g, line |-> stack[f].line, codes |-> codes[g]] \in Partial

\* A group is being built or in basic_groups_, and not both.
GroupInv ==
    /\ groups \subseteq Labelled
    /\ \A f, h \in 1 .. Len(stack) : stack[f].group = stack[h].group => f = h
    /\ \A g \in groups : g \in ToSet(basic_groups) \/ \E f \in 1 .. Len(stack) : stack[f].group = g
    /\ \A g \in ToSet(basic_groups) \ {EntryGroup} :
        /\ g \in groups
        /\ [group |-> g, codes |-> codes[g], next |-> follows[g]] \in Ended
    /\ EntryGroup \in ToSet(basic_groups)
    /\ IsInjective(basic_groups)
    /\ \A g \in {EntryGroup} \cup Positions : follows[g] \in Seq(groups)
    /\ \A g \in Positions \ groups : codes[g] = <<>> /\ follows[g] = <<>>

\* Nothing but what control can reach has been put into a group or is about to be.
ReachInv ==
    \A S \in ClosedSets :
        /\ groups \subseteq S
        /\ \A g \in groups : \A j \in DOMAIN codes[g] : codes[g][j].pos \in S \cup {0}
        /\ \A f \in 1 .. Len(stack) :
            /\ ToSet(stack[f].targets) \subseteq S
            /\ ~stack[f].ended => stack[f].line \in S \cup {Size + 1}

BuildingInv ==
    /\ SourceInv
    /\ stack # <<>>
    /\ \A f \in 1 .. Len(stack) : FrameInv(f)
    /\ GroupInv
    /\ ReachInv

BuiltInv ==
    /\ stack = <<>>
    /\ ControlFlowIsKept
    /\ ReachableCodesHaveOneGroup
    /\ JumpsNameTheirGroups

IInv ==
    /\ BuilderInv
    /\ TypeInv
    /\ Mirrored
    /\ NeverThrows
    /\ status # "appending" => finished
    /\ status = "appending" => NothingBuilt
    /\ status = "building" => BuildingInv
    /\ status = "built" => BuiltInv

-----------------------------------------------------------------------------
(***************************************************************************)
(* Lemmas about sequences.                                                 *)
(***************************************************************************)
LEMMA FunctionIsSequence ==
    ASSUME NEW S, NEW n \in Nat, NEW f \in [1 .. n -> S]
    PROVE  f \in Seq(S) /\ Len(f) = n /\ DOMAIN f = 1 .. n
  BY SeqDef

\* ToSet of a sequence is what stands at its positions, also after an Append.
LEMMA RangeOfSequence ==
    ASSUME NEW S, NEW s \in Seq(S)
    PROVE  /\ ToSet(s) \subseteq S
           /\ s \in Seq(ToSet(s))
           /\ \A T : ToSet(s) \subseteq T => s \in Seq(T)
<1>1. Len(s) \in Nat /\ s \in [1 .. Len(s) -> S] /\ DOMAIN s = 1 .. Len(s)
  BY LenProperties
<1>2. ASSUME NEW T, ToSet(s) \subseteq T PROVE s \in Seq(T)
  <2>1. s \in [1 .. Len(s) -> T]
    BY <1>1, <1>2 DEF ToSet
  <2> QED
    BY <1>1, <2>1, FunctionIsSequence
<1> QED
  BY <1>1, <1>2 DEF ToSet

\* What a sequence holds after an append, and how often.
LEMMA AppendHolds ==
    ASSUME NEW S, NEW s \in Seq(S), NEW e \in S
    PROVE  /\ Append(s, e) \in Seq(S)
           /\ DOMAIN Append(s, e) = DOMAIN s \cup {Len(s) + 1}
           /\ Len(s) + 1 \notin DOMAIN s
           /\ \A j \in DOMAIN s : Append(s, e)[j] = s[j]
           /\ Append(s, e)[Len(s) + 1] = e
           /\ ToSet(Append(s, e)) = ToSet(s) \cup {e}
<1>1. /\ Append(s, e) \in Seq(S)
      /\ DOMAIN Append(s, e) = DOMAIN s \cup {Len(s) + 1}
      /\ Len(s) + 1 \notin DOMAIN s
      /\ \A j \in DOMAIN s : Append(s, e)[j] = s[j]
      /\ Append(s, e)[Len(s) + 1] = e
  BY AppendProperties, LenProperties
<1>2. ToSet(Append(s, e)) = ToSet(s) \cup {e}
  BY <1>1, Zenon DEF ToSet
<1> QED
  BY <1>1, <1>2

\* One more element is counted once more, and no other is.
LEMMA AppendCount ==
    ASSUME NEW S, NEW s \in Seq(S), NEW e \in S, NEW x
    PROVE  /\ Count(Append(s, e), x) = Count(s, x) + (IF e = x THEN 1 ELSE 0)
           /\ Count(s, x) \in Nat
<1> DEFINE old == {k \in DOMAIN s : s[k] = x}
           new == {k \in DOMAIN Append(s, e) : Append(s, e)[k] = x}
<1>1. IsFiniteSet(old) /\ Cardinality(old) \in Nat
  <2>1. IsFiniteSet(1 .. Len(s))
    BY LenProperties, FS_Interval
  <2>2. old \subseteq 1 .. Len(s)
    BY LenProperties
  <2> QED
    BY <2>1, <2>2, FS_Subset, FS_CardinalityType
<1>2. ASSUME e = x PROVE Cardinality(new) = Cardinality(old) + 1
  <2>1. new = old \cup {Len(s) + 1} /\ Len(s) + 1 \notin old
    BY <1>2, AppendHolds
  <2>2. Cardinality(old \cup {Len(s) + 1}) = Cardinality(old) + 1
    BY <1>1, <2>1, FS_AddElement
  <2>3. Cardinality(new) = Cardinality(old \cup {Len(s) + 1})
    BY <2>1, Zenon
  <2> QED
    BY <2>2, <2>3
<1>3. ASSUME e # x PROVE Cardinality(new) = Cardinality(old)
  <2>1. new = old
    BY <1>3, AppendHolds
  <2> QED
    BY <2>1, Zenon
<1> HIDE DEF old, new
<1>4. Cardinality(new) = Cardinality(old) + (IF e = x THEN 1 ELSE 0)
  BY <1>1, <1>2, <1>3
<1> QED
  BY <1>1, <1>4 DEF old, new, Count

\* What is linked and what is left to link, when the next is linked.
LEMMA MoveHead ==
    ASSUME NEW S, NEW s \in Seq(S), NEW t \in Seq(S), t # <<>>
    PROVE  /\ Head(t) \in S /\ Tail(t) \in Seq(S)
           /\ Append(s, Head(t)) \o Tail(t) = s \o t
           /\ \A T : t \in Seq(T) => Head(t) \in T /\ Tail(t) \in Seq(T)
           /\ ToSet(Tail(t)) \subseteq ToSet(t) /\ Head(t) \in ToSet(t)
<1>1. Head(t) \in S /\ Tail(t) \in Seq(S)
  BY HeadTailProperties
<1>2. Append(s, Head(t)) \o Tail(t) = s \o t
  <2> DEFINE u == Append(s, Head(t))
             left == u \o Tail(t)
             right == s \o t
  <2>1. Len(s) \in Nat /\ Len(t) \in Nat \ {0} /\ Len(Tail(t)) = Len(t) - 1
    BY EmptySeq, LenProperties, HeadTailProperties
  <2>2. u \in Seq(S) /\ Len(u) = Len(s) + 1
        /\ (\A j \in 1 .. Len(s) : u[j] = s[j]) /\ u[Len(s) + 1] = t[1]
    BY <1>1, AppendProperties
  <2> HIDE DEF u
  <2>3. /\ left \in Seq(S) /\ Len(left) = Len(u) + Len(Tail(t))
        /\ \A j \in 1 .. Len(u) + Len(Tail(t)) :
              left[j] = IF j <= Len(u) THEN u[j] ELSE Tail(t)[j - Len(u)]
    BY <1>1, <2>2, ConcatProperties
  <2>4. /\ right \in Seq(S) /\ Len(right) = Len(s) + Len(t)
        /\ \A j \in 1 .. Len(s) + Len(t) :
              right[j] = IF j <= Len(s) THEN s[j] ELSE t[j - Len(s)]
    BY ConcatProperties
  <2> HIDE DEF left, right
  <2>5. ASSUME NEW j \in 1 .. Len(left) PROVE left[j] = right[j]
    <3>1. CASE j <= Len(s)
      <4>1. j \in 1 .. Len(u) + Len(Tail(t)) /\ j <= Len(u) /\ j \in 1 .. Len(s) /\ j \in 1 .. Len(s) + Len(t)
        BY <3>1, <2>1, <2>2, <2>3
      <4> QED
        BY <3>1, <4>1, <2>2, <2>3, <2>4
    <3>2. CASE j = Len(s) + 1
      <4>0. j \in 1 .. Len(u) + Len(Tail(t)) /\ j <= Len(u)
        BY <3>2, <2>1, <2>2, <2>3
      <4>1. left[j] = t[1]
        BY <3>2, <4>0, <2>2, <2>3
      <4>2. j \in 1 .. Len(s) + Len(t) /\ ~(j <= Len(s)) /\ j - Len(s) = 1
        BY <3>2, <2>1
      <4>3. right[j] = t[j - Len(s)]
        BY <4>2, <2>4
      <4> QED
        BY <4>1, <4>2, <4>3
    <3>3. CASE j > Len(s) + 1
      <4>1. j - Len(u) \in 1 .. Len(Tail(t)) /\ j - Len(u) + 1 = j - Len(s)
        BY <3>3, <2>1, <2>2, <2>3
      <4>2. Tail(t)[j - Len(u)] = t[j - Len(u) + 1]
        BY <4>1, HeadTailProperties
      <4> QED
        BY <3>3, <4>1, <4>2, <2>1, <2>2, <2>3, <2>4
    <3> QED
      BY <3>1, <3>2, <3>3, <2>1, <2>2, <2>3
  <2>6. left \in Seq(S) /\ right \in Seq(S) /\ Len(left) = Len(right)
    BY <2>1, <2>2, <2>3, <2>4
  <2>7. left = right
    BY <2>5, <2>6, SeqEqual
  <2> QED
    BY <2>7 DEF left, right, u
<1>3. ASSUME NEW T, t \in Seq(T) PROVE Head(t) \in T /\ Tail(t) \in Seq(T)
  BY <1>3, HeadTailProperties
<1>4. ToSet(Tail(t)) \subseteq ToSet(t) /\ Head(t) \in ToSet(t)
  <2>1. t \in Seq(ToSet(t))
    BY RangeOfSequence
  <2>2. Head(t) \in ToSet(t) /\ Tail(t) \in Seq(ToSet(t))
    BY <2>1, HeadTailProperties
  <2> QED
    BY <2>2, RangeOfSequence
<1> QED
  BY <1>1, <1>2, <1>3, <1>4

-----------------------------------------------------------------------------
(***************************************************************************)
(* Lemmas about the codes passed in.                                       *)
(***************************************************************************)
Capacity == MaxAllocas + MaxCodes + Cardinality(Labels)

\* The positions are numbers, and neither the entry nor "no group" is one of them.
LEMMA Numbers ==
    ASSUME BuilderInv, TypeInv
    PROVE  /\ Before \in Nat /\ First \in Nat \ {0} /\ Size \in Nat
           /\ Capacity \in Nat /\ Size <= Capacity
           /\ Positions = 1 .. Capacity /\ NoGroup = Capacity + 1
           /\ Labelled \subseteq Positions /\ Labelled \subseteq First .. Size
           /\ First .. Size \subseteq Positions
           /\ EntryGroup \notin Positions
           /\ DOMAIN source_codes = 1 .. Size
           /\ \A n \in 1 .. Size : source_codes[n] \in SourceCodes
<1>1. Before \in Nat /\ Size \in Nat /\ DOMAIN source_codes = 1 .. Size
      /\ \A n \in 1 .. Size : source_codes[n] \in SourceCodes
  BY LenProperties, ElementOfSeq DEF BuilderInv, BuilderTypes, TypeInv, Before, Size
<1>2. Capacity \in Nat /\ Positions = 1 .. Capacity /\ NoGroup = Capacity + 1
  BY BoundsAssumption, FiniteAssumption, FS_CardinalityType DEF Capacity, Positions, NoGroup
<1>3. 1 .. Size \subseteq 1 .. Capacity
  BY <1>1, <1>2 DEF TypeInv
<1>4. Size <= Capacity
  BY <1>1, <1>2, <1>3
<1>5. Labelled \subseteq First .. Size
  BY DEF Labelled
<1> QED
  BY <1>1, <1>2, <1>3, <1>4, <1>5 DEF First, EntryGroup

\* What neither the client nor the recursion changes any more.
LEMMA FrozenSource ==
    ASSUME UNCHANGED <<builder, source_codes>>
    PROVE  /\ SourceInv' = SourceInv /\ Labelled' = Labelled
           /\ Partial' = Partial /\ Ended' = Ended /\ Entries' = Entries
           /\ ClosedSets' = ClosedSets /\ First' = First /\ Size' = Size
<1> USE DEF builder, First, Size, Before, HasLabel, Jumps
<1>1. Labelled' = Labelled /\ First' = First /\ Size' = Size
  BY DEF Labelled
<1>2. SourceInv' = SourceInv
  BY DEF SourceInv, PositionOf
<1>3. Partial' = Partial
  BY DEF Partial, Straight, Labelled, Run, Item
<1>4. Ended' = Ended
  BY DEF Ended, EndsAt, Straight, Labelled, Run, Item, SourceNext, PositionOf
<1>5. Entries' = Entries
  BY DEF Entries
<1>6. ClosedSets' = ClosedSets
  BY DEF ClosedSets, ClosedUnderNext, SourceNext, PositionOf
<1> QED
  BY <1>1, <1>2, <1>3, <1>4, <1>5, <1>6

\* Where control goes after a code.
LEMMA NextOfCode ==
    ASSUME BuilderInv, TypeInv, SourceInv, NEW n \in First .. Size
    PROVE  /\ Jumps(n) => /\ SourceNext(n) = [t \in DOMAIN source_codes[n].to |-> PositionOf(source_codes[n].to[t])]
                          /\ SourceNext(n) \in Seq(Labelled)
           /\ ~Jumps(n) => /\ SourceNext(n) = IF n < Size THEN <<n + 1>> ELSE <<>>
                           /\ source_codes[n].to = <<>>
           /\ SourceNext(n) \in Seq(Positions)
           /\ Item(n) \in GroupItems
           /\ source_codes[n].to \in Seq(Labels)
<1>1. /\ n \in 1 .. Size /\ n \in Positions /\ source_codes[n] \in SourceCodes
      /\ source_codes[n].kind \in ListedKinds
      /\ NamesFitKind(source_codes[n])
      /\ Size \in Nat
  BY Numbers DEF SourceInv
<1>2. source_codes[n].to \in Seq(Labels)
  BY <1>1 DEF SourceCodes
<1>3. Item(n) \in GroupItems
  BY <1>1, <1>2, SeqMonotonic DEF Item, GroupItems
<1>4. CASE Jumps(n)
  <2> DEFINE next == [t \in DOMAIN source_codes[n].to |-> PositionOf(source_codes[n].to[t])]
  <2>1. SourceNext(n) = next
    <3>1. CASE source_codes[n].kind \in {"goto", "branch"}
      BY <3>1 DEF SourceNext
    <3>2. CASE source_codes[n].kind = "return"
      <4>1. source_codes[n].to = <<>>
        BY <1>1, <3>2 DEF NamesFitKind
      <4>2. DOMAIN source_codes[n].to = {}
        BY <4>1, EmptySeq, LenProperties
      <4>3. next = <<>>
        BY <4>2, EmptySeq, LenProperties
      <4> QED
        BY <3>2, <4>3 DEF SourceNext
    <3> QED
      BY <1>4, <3>1, <3>2 DEF Jumps
  <2>2. \A t \in DOMAIN source_codes[n].to : PositionOf(source_codes[n].to[t]) \in Labelled
    <3> SUFFICES ASSUME NEW t \in DOMAIN source_codes[n].to
                 PROVE  PositionOf(source_codes[n].to[t]) \in Labelled
      OBVIOUS
    <3>1. source_codes[n].to[t] \in Labels
      BY <1>2, ElementOfSeq, LenProperties
    <3>2. /\ PositionOf(source_codes[n].to[t]) \in First .. Size
          /\ source_codes[PositionOf(source_codes[n].to[t])].label = source_codes[n].to[t]
      BY DEF SourceInv
    <3> QED
      BY <3>1, <3>2, LabelsAssumption DEF Labelled, HasLabel
  <2>3. next \in Seq(Labelled)
    <3>1. Len(source_codes[n].to) \in Nat /\ DOMAIN source_codes[n].to = 1 .. Len(source_codes[n].to)
      BY <1>2, LenProperties
    <3>2. next \in [1 .. Len(source_codes[n].to) -> Labelled]
      BY <2>2, <3>1
    <3> QED
      BY <3>1, <3>2, FunctionIsSequence
  <2>4. next \in Seq(Positions)
    BY <2>3, Numbers, SeqMonotonic
  <2> QED
    BY <1>2, <1>3, <1>4, <2>1, <2>3, <2>4
<1>5. CASE ~Jumps(n)
  <2>1. source_codes[n].kind = "plain"
    BY <1>1, <1>5 DEF Jumps, ListedKinds
  <2>2. SourceNext(n) = (IF n < Size THEN <<n + 1>> ELSE <<>>) /\ source_codes[n].to = <<>>
    BY <1>1, <2>1 DEF SourceNext, Size, NamesFitKind
  <2>3. n < Size => n + 1 \in Positions
    BY <1>1, Numbers
  <2>4. SourceNext(n) \in Seq(Positions)
    <3>1. CASE n < Size
      BY <3>1, <2>2, <2>3
    <3>2. CASE ~(n < Size)
      BY <3>2, <2>2, EmptySeq
    <3> QED
      BY <3>1, <3>2
  <2> QED
    BY <1>2, <1>3, <1>5, <2>2, <2>4
<1> QED
  BY <1>4, <1>5

-----------------------------------------------------------------------------
(***************************************************************************)
(* Lemmas about the groups.                                                *)
(***************************************************************************)
\* The codes of a run, one by one.
LEMMA RunOfCodes ==
    ASSUME BuilderInv, TypeInv, SourceInv,
           NEW g \in First .. Size, NEW e \in g - 1 .. Size
    PROVE  /\ Run(g, e) \in Seq(GroupItems)
           /\ Len(Run(g, e)) = e + 1 - g
           /\ \A j \in 1 .. e + 1 - g : Run(g, e)[j] = Item(g + j - 1)
<1>1. First \in Nat /\ Size \in Nat
  BY Numbers
<1>2. e + 1 - g \in Nat /\ \A j \in 1 .. e + 1 - g : g + j - 1 \in First .. Size
  BY <1>1
<1>3. \A j \in 1 .. e + 1 - g : Item(g + j - 1) \in GroupItems
  BY <1>2, NextOfCode
<1>4. Run(g, e) \in [1 .. e + 1 - g -> GroupItems]
  BY <1>3 DEF Run
<1> QED
  BY ZenonT(30), <1>2, <1>4, FunctionIsSequence DEF Run

\* The codes of a group that takes the next code are those up to that code.
LEMMA RunGrows ==
    ASSUME BuilderInv, TypeInv, SourceInv,
           NEW g \in First .. Size, NEW e \in g .. Size
    PROVE  Append(Run(g, e - 1), Item(e)) = Run(g, e)
<1>1. First \in Nat /\ Size \in Nat /\ e \in First .. Size /\ e - 1 \in g - 1 .. Size /\ e \in g - 1 .. Size
  BY Numbers
<1>2. /\ Run(g, e - 1) \in Seq(GroupItems) /\ Len(Run(g, e - 1)) = e - g
      /\ \A j \in 1 .. e - g : Run(g, e - 1)[j] = Item(g + j - 1)
  BY <1>1, RunOfCodes
<1>3. /\ Run(g, e) \in Seq(GroupItems) /\ Len(Run(g, e)) = e - g + 1
      /\ \A j \in 1 .. e - g + 1 : Run(g, e)[j] = Item(g + j - 1)
  BY <1>1, RunOfCodes
<1>4. Item(e) \in GroupItems
  BY <1>1, NextOfCode
<1> DEFINE new == Append(Run(g, e - 1), Item(e))
<1>5. /\ new \in Seq(GroupItems) /\ Len(new) = e - g + 1
      /\ \A j \in 1 .. e - g : new[j] = Run(g, e - 1)[j]
      /\ new[e - g + 1] = Item(e)
  BY <1>2, <1>4, AppendProperties
<1> HIDE DEF new
<1>6. ASSUME NEW j \in 1 .. Len(new) PROVE new[j] = Run(g, e)[j]
  <2>1. CASE j = e - g + 1
    <3>1. g + j - 1 = e
      BY <2>1, <1>1
    <3> QED
      BY <2>1, <3>1, <1>1, <1>3, <1>5
  <2>2. CASE j # e - g + 1
    <3>1. j \in 1 .. e - g /\ j \in 1 .. e - g + 1
      BY <2>2, <1>1, <1>5
    <3> QED
      BY <3>1, <1>2, <1>3, <1>5
  <2> QED
    BY <2>1, <2>2
<1>7. Len(new) = Len(Run(g, e))
  BY <1>3, <1>5
<1>8. new = Run(g, e)
  BY <1>3, <1>5, <1>6, <1>7, SeqEqual
<1> QED
  BY <1>8 DEF new

\* A call starts with nothing in its group.
LEMMA PartialStarts ==
    ASSUME BuilderInv, TypeInv, SourceInv, NEW g \in Labelled
    PROVE  [group |-> g, line |-> g, codes |-> <<>>] \in Partial
<1>1. g \in First .. Size /\ g \in Positions /\ First \in Nat /\ Size \in Nat
  BY Numbers
<1>2. Run(g, g - 1) = <<>>
  <2>1. g - 1 \in g - 1 .. Size
    BY <1>1
  <2>2. Run(g, g - 1) \in Seq(GroupItems) /\ Len(Run(g, g - 1)) = g - 1 + 1 - g
    BY <1>1, <2>1, RunOfCodes
  <2>3. Len(Run(g, g - 1)) = 0
    BY <1>1, <2>2
  <2> QED
    BY <2>2, <2>3, EmptySeq
<1>3. Straight(g, g - 1) /\ \A n \in g .. g - 1 : ~Jumps(n)
  BY <1>1 DEF Straight
<1>4. <<>> \in Seq(GroupItems) /\ g \in Nat /\ g \in g .. Size + 1
  BY <1>1, EmptySeq
<1> QED
  BY <1>1, <1>2, <1>3, <1>4 DEF Partial

\* The facts a partial group is made of.
LEMMA PartialParts ==
    ASSUME BuilderInv, TypeInv, SourceInv, NEW g, NEW n, NEW c,
           [group |-> g, line |-> n, codes |-> c] \in Partial
    PROVE  /\ g \in Labelled /\ g \in First .. Size /\ g \in Positions
           /\ n \in g .. Size + 1 /\ n \in Nat
           /\ Straight(g, n - 1)
           /\ \A m \in g .. n - 1 : ~Jumps(m)
           /\ c = Run(g, n - 1) /\ c \in Seq(GroupItems)
<1>1. /\ g \in Positions /\ n \in Nat /\ c \in Seq(GroupItems)
      /\ n \in g .. Size + 1
      /\ Straight(g, n - 1)
      /\ \A m \in g .. n - 1 : ~Jumps(m)
      /\ c = Run(g, n - 1)
  BY DEF Partial
<1>2. g \in Labelled
  BY <1>1 DEF Straight
<1> QED
  BY <1>1, <1>2, Numbers

\* A call takes a code, which ends the group if it jumps.
LEMMA PartialGrows ==
    ASSUME BuilderInv, TypeInv, SourceInv, NEW g, NEW n, NEW c,
           [group |-> g, line |-> n, codes |-> c] \in Partial,
           n <= Size, n = g \/ ~HasLabel(n)
    PROVE  /\ ~Jumps(n) => [group |-> g, line |-> n + 1, codes |-> Append(c, Item(n))] \in Partial
           /\ Jumps(n) => [group |-> g, codes |-> Append(c, Item(n)), next |-> SourceNext(n)] \in Ended
<1>1. /\ g \in Labelled /\ g \in First .. Size /\ g \in Positions
      /\ n \in g .. Size + 1 /\ n \in Nat
      /\ Straight(g, n - 1)
      /\ \A m \in g .. n - 1 : ~Jumps(m)
      /\ c = Run(g, n - 1)
  BY PartialParts
<1>2. First \in Nat /\ Size \in Nat /\ n \in g .. Size /\ n \in First .. Size /\ g \in Nat
  BY <1>1, Numbers
<1>3. Append(c, Item(n)) = Run(g, n)
  BY <1>1, <1>2, RunGrows
<1>4. Run(g, n) \in Seq(GroupItems)
  BY <1>1, <1>2, RunOfCodes
<1>5. Straight(g, n)
  <2>1. \A m \in g + 1 .. n : ~HasLabel(m)
    BY <1>1, <1>2 DEF Straight
  <2> QED
    BY <1>1, <2>1 DEF Straight
<1>6. ASSUME ~Jumps(n) PROVE [group |-> g, line |-> n + 1, codes |-> Append(c, Item(n))] \in Partial
  <2>1. \A m \in g .. n : ~Jumps(m)
    BY <1>1, <1>2, <1>6
  <2> DEFINE x == [group |-> g, line |-> n + 1, codes |-> Append(c, Item(n))]
  <2>2. n + 1 \in Nat /\ n + 1 \in g .. Size + 1 /\ n + 1 - 1 = n
    BY <1>2
  <2>3. x.group = g /\ x.line = n + 1 /\ x.codes = Run(g, n)
    BY <1>3
  <2>4. x \in [group : Positions, line : Nat, codes : Seq(GroupItems)]
    BY <1>1, <1>3, <1>4, <2>2
  <2> HIDE DEF x
  <2>5. x.line - 1 = n
    BY <1>1, <2>2, <2>3
  <2>6. x \in Partial
    BY <1>5, <2>1, <2>2, <2>3, <2>4, <2>5 DEF Partial
  <2> QED
    BY <2>6 DEF x
<1>7. ASSUME Jumps(n)
      PROVE  [group |-> g, codes |-> Append(c, Item(n)), next |-> SourceNext(n)] \in Ended
  <2> DEFINE x == [group |-> g, codes |-> Append(c, Item(n)), next |-> SourceNext(n)]
  <2>1. SourceNext(n) \in Seq(Positions)
    BY <1>2, NextOfCode
  <2>2. x \in [group : Positions, codes : Seq(GroupItems), next : Seq(Positions)]
    BY <1>1, <1>3, <1>4, <2>1
  <2>3. x.group = g /\ x.codes = Run(g, n) /\ x.next = SourceNext(n)
    BY <1>3
  <2> HIDE DEF x
  <2>4. EndsAt(x, n)
    BY <1>5, <1>7, <2>3 DEF EndsAt
  <2>5. n \in x.group .. Size
    BY <1>2, <2>3
  <2>6. x \in Ended
    BY <2>2, <2>4, <2>5 DEF Ended
  <2> QED
    BY <2>6 DEF x
<1> QED
  BY <1>6, <1>7

\* A call meets the next label.
LEMMA PartialFalls ==
    ASSUME BuilderInv, TypeInv, SourceInv, NEW g, NEW n, NEW c,
           [group |-> g, line |-> n, codes |-> c] \in Partial,
           n <= Size, n # g, HasLabel(n)
    PROVE  /\ [group |-> g, codes |-> Append(c, NewGoto(source_codes[n].label)), next |-> <<n>>] \in Ended
           /\ n \in Labelled
           /\ NewGoto(source_codes[n].label) \in GroupItems
<1>1. /\ g \in Labelled /\ g \in First .. Size /\ g \in Positions
      /\ n \in g .. Size + 1 /\ n \in Nat
      /\ Straight(g, n - 1)
      /\ \A m \in g .. n - 1 : ~Jumps(m)
      /\ c = Run(g, n - 1) /\ c \in Seq(GroupItems)
  BY PartialParts
<1>2. /\ First \in Nat /\ Size \in Nat /\ g \in Nat
      /\ n - 1 \in g .. Size /\ n - 1 < Size /\ n - 1 + 1 = n /\ n \in First .. Size
      /\ n - 1 \in First .. Size /\ n \in Positions /\ n \in 1 .. Size
  BY <1>1, Numbers
<1>3. n \in Labelled
  BY <1>2 DEF Labelled
<1>4. NewGoto(source_codes[n].label) \in GroupItems
  <2>1. source_codes[n].label \in Labels \cup {FirstLabel}
    BY <1>2, Numbers DEF SourceCodes, HasLabel
  <2> QED
    BY <2>1 DEF NewGoto, GroupItems
<1> DEFINE x == [group |-> g, codes |-> Append(c, NewGoto(source_codes[n].label)), next |-> <<n>>]
<1>5. x \in [group : Positions, codes : Seq(GroupItems), next : Seq(Positions)]
  BY <1>1, <1>2, <1>4, AppendProperties
<1>6. x.group = g /\ x.codes = Append(c, NewGoto(source_codes[n].label)) /\ x.next = <<n>>
  OBVIOUS
<1> HIDE DEF x
<1>7. EndsAt(x, n - 1)
  <2>1. ~Jumps(n - 1)
    BY <1>1, <1>2
  <2>2. SourceNext(n - 1) = <<n>>
    BY <1>2, <2>1, NextOfCode
  <2> QED
    BY <1>1, <1>2, <1>6, <2>1, <2>2 DEF EndsAt
<1>8. x \in Ended
  BY <1>2, <1>5, <1>6, <1>7 DEF Ended
<1> QED
  BY <1>3, <1>4, <1>8 DEF x

\* A call runs off the end of the codes.
LEMMA PartialStops ==
    ASSUME BuilderInv, TypeInv, SourceInv, NEW g, NEW n, NEW c,
           [group |-> g, line |-> n, codes |-> c] \in Partial, n > Size
    PROVE  [group |-> g, codes |-> c, next |-> <<>>] \in Ended
<1>1. /\ g \in Labelled /\ g \in First .. Size /\ g \in Positions
      /\ n \in g .. Size + 1 /\ n \in Nat
      /\ Straight(g, n - 1)
      /\ \A m \in g .. n - 1 : ~Jumps(m)
      /\ c = Run(g, n - 1) /\ c \in Seq(GroupItems)
  BY PartialParts
<1>2. /\ First \in Nat /\ Size \in Nat /\ g \in Nat /\ n - 1 = Size
      /\ Size \in g .. Size /\ Size \in First .. Size /\ Size \in g .. n - 1
  BY SMTT(30), <1>1, Numbers
<1> DEFINE x == [group |-> g, codes |-> c, next |-> <<>>]
<1>3. x \in [group : Positions, codes : Seq(GroupItems), next : Seq(Positions)]
  BY <1>1, EmptySeq
<1>4. x.group = g /\ x.codes = c /\ x.next = <<>>
  OBVIOUS
<1> HIDE DEF x
<1>5. EndsAt(x, Size)
  <2>1. ~Jumps(Size)
    BY <1>1, <1>2
  <2>2. SourceNext(Size) = <<>>
    BY <1>2, <2>1, NextOfCode
  <2> QED
    BY <1>1, <1>2, <1>4, <2>1, <2>2 DEF EndsAt
<1>6. x \in Ended
  BY <1>2, <1>3, <1>4, <1>5 DEF Ended
<1> QED
  BY <1>6 DEF x

-----------------------------------------------------------------------------
(***************************************************************************)
(* The steps before the recursion.                                         *)
(***************************************************************************)
LEMMA InitIInv == Init => IInv
<1> SUFFICES ASSUME Init PROVE IInv
  OBVIOUS
<1> USE DEF Init, edges, marks
<1>1. BuilderInv
  BY InitBuilderInv, FiniteAssumption
<1>2. DOMAIN <<>> = {} /\ \A S : <<>> \in Seq(S)
  BY EmptySeq, LenProperties
<1>3. TypeInv
  <2>1. <<EntryGroup>> \in Seq({EntryGroup} \cup Positions)
    OBVIOUS
  <2> QED
    BY <1>2, <2>1 DEF TypeInv
<1>4. Mirrored
  <2>1. ASSUME NEW x PROVE Count(<<>>, x) = Cardinality({})
    <3>1. {k \in DOMAIN <<>> : <<>>[k] = x} = {}
      BY <1>2
    <3> QED
      BY <3>1, Zenon DEF Count
  <2>2. \A g \in {EntryGroup} \cup Positions : follows[g] = <<>> /\ precedes[g] = <<>>
    OBVIOUS
  <2> QED
    BY <2>1, <2>2 DEF Mirrored
<1> QED
  BY <1>1, <1>3, <1>4 DEF IInv, NeverThrows, NothingBuilt

\* The client appends: nothing is built yet, so only the builder's invariant matters.
LEMMA AppendCodesIInv == IInv /\ AppendCodes => IInv'
<1> SUFFICES ASSUME IInv, AppendCodes PROVE IInv'
  OBVIOUS
<1> USE DEF AppendCodes, edges, marks
<1>1. ~finished
  BY DEF NextBuilder, AppendCode, AppendLabel, AppendAlloca, Finish, Room
<1>2. status = "appending" /\ NothingBuilt
  BY <1>1 DEF IInv, TypeInv, NeverThrows
<1>3. BuilderInv'
  BY NextBuilderInv, FiniteAssumption DEF IInv
<1>4. TypeInv'
  BY DEF IInv, TypeInv
<1>5. Mirrored'
  BY DEF IInv, Mirrored
<1>6. NothingBuilt'
  BY <1>2 DEF NothingBuilt
<1> QED
  BY <1>2, <1>3, <1>4, <1>5, <1>6 DEF IInv, NeverThrows

\* The codes finish() returns: the allocas, then the others, as many as fit.
LEMMA ResultOfBuilder ==
    ASSUME BuilderInv, finished
    PROVE  /\ Before \in Nat /\ First \in Nat \ {0} /\ Len(code_list) \in Nat
           /\ Len(Result) = Before + Len(code_list) /\ DOMAIN Result = 1 .. Len(Result)
           /\ Result \in Seq([kind : ListedKinds \cup {"alloca"}, label : Labels \cup {NoLabel}, to : Seq(Labels)])
           /\ \A n \in 1 .. Before : Result[n].kind = "alloca"
           /\ \A n \in First .. Len(Result) :
                /\ n - Before \in DOMAIN code_list
                /\ Result[n] = code_list[n - Before]
                /\ Result[n].kind \in ListedKinds
                /\ NamesFitKind(Result[n])
           /\ 1 .. Len(Result) \subseteq Positions
<1> DEFINE All == [kind : ListedKinds \cup {"alloca"}, label : Labels \cup {NoLabel}, to : Seq(Labels)]
<1>1. /\ Before \in Nat /\ First \in Nat \ {0} /\ Len(code_list) \in Nat
      /\ DOMAIN code_list = 1 .. Len(code_list)
  BY LenProperties DEF BuilderInv, BuilderTypes, Before, First
<1>2. ListedCodes \subseteq All /\ AllocaCode \in All /\ {AllocaCode} \subseteq All
  BY EmptySeq DEF ListedCodes, AllocaCode, Code
<1>3. alloca_list \in Seq(All) /\ code_list \in Seq(All)
  BY <1>2, SeqMonotonic, Zenon DEF BuilderInv, BuilderTypes
<1> HIDE DEF All
<1>4. /\ Result \in Seq(All) /\ Len(Result) = Before + Len(code_list)
      /\ \A n \in 1 .. Before + Len(code_list) :
            Result[n] = IF n <= Before THEN alloca_list[n] ELSE code_list[n - Before]
  BY <1>3, ConcatProperties DEF Result, Before
<1>5. ASSUME NEW n \in 1 .. Before PROVE Result[n].kind = "alloca"
  <2>1. alloca_list[n] = AllocaCode
    BY <1>5, ElementOfSeq DEF BuilderInv, BuilderTypes, Before
  <2> QED
    BY <1>1, <1>4, <2>1 DEF AllocaCode, Code
<1>6. ASSUME NEW n \in First .. Len(Result)
      PROVE  /\ n - Before \in DOMAIN code_list
             /\ Result[n] = code_list[n - Before]
             /\ Result[n].kind \in ListedKinds
             /\ NamesFitKind(Result[n])
  <2>1. n - Before \in DOMAIN code_list /\ n \in 1 .. Before + Len(code_list) /\ ~(n <= Before)
    BY <1>1, <1>4 DEF First
  <2>2. Result[n] = code_list[n - Before]
    BY <1>4, <2>1
  <2>3. code_list[n - Before] \in ListedCodes /\ NamesFitKind(code_list[n - Before])
    BY <1>1, <2>1, ElementOfSeq DEF BuilderInv, BuilderTypes
  <2> QED
    BY <2>1, <2>2, <2>3 DEF ListedCodes
<1>7. 1 .. Len(Result) \subseteq Positions
  <2>1. Cardinality(appended \ {appended_label}) <= Cardinality(Labels)
        /\ Cardinality(appended \ {appended_label}) \in Nat
    <3>1. appended \ {appended_label} \in SUBSET Labels
      BY DEF BuilderInv, BuilderTypes
    <3> QED
      BY <3>1, FiniteAssumption, CountLabels
  <2>2. Cardinality(Labels) \in Nat
    BY FiniteAssumption, FS_CardinalityType
  <2>3. Len(Result) <= MaxAllocas + MaxCodes + Cardinality(Labels)
    BY <1>1, <1>4, <2>1, <2>2, BoundsAssumption DEF BuilderInv, ListsAreShort, Before
  <2> QED
    BY <1>1, <1>4, <2>2, <2>3, BoundsAssumption DEF Positions
<1>8. DOMAIN Result = 1 .. Len(Result)
  BY <1>4, LenProperties
<1> QED
  BY <1>1, <1>4, <1>5, <1>6, <1>7, <1>8 DEF All

\* The client's discipline makes every label a jump names lead to its code.
LEMMA NamesLeadToCodes ==
    ASSUME BuilderInv, finished, NEW n \in First .. Len(Result), NEW t \in DOMAIN Result[n].to
    PROVE  /\ Before + dest_code[Result[n].to[t]] \in First .. Len(Result)
           /\ Result[Before + dest_code[Result[n].to[t]]].label = Result[n].to[t]
           /\ Result[n].to[t] # NoLabel
<1>1. /\ Before \in Nat /\ Len(code_list) \in Nat /\ Len(Result) = Before + Len(code_list)
      /\ n - Before \in DOMAIN code_list /\ Result[n] = code_list[n - Before]
      /\ DOMAIN code_list = 1 .. Len(code_list)
  BY ResultOfBuilder, LenProperties DEF BuilderInv, BuilderTypes
<1>2. PICK l : l = Result[n].to[t]
  OBVIOUS
<1>3. l \in Referenced
  BY <1>1, <1>2 DEF Referenced
<1>4. l \in appended /\ l \in Labels /\ l # appended_label /\ l # NoLabel
  BY <1>3, LabelsAssumption DEF BuilderInv, BuilderTypes, NothingDangles
<1>5. dest_code[l] \in DOMAIN code_list /\ code_list[dest_code[l]].label = l
  <2>1. {m \in DOMAIN code_list : code_list[m].label = l} = {dest_code[l]}
    BY <1>4 DEF BuilderInv, LabelsHaveTheirCode
  <2> QED
    BY <2>1
<1>6. dest_code[l] \in 1 .. Len(code_list)
  BY <1>1, <1>5
<1>7. Before + dest_code[l] \in First .. Len(Result) /\ Before + dest_code[l] - Before = dest_code[l]
  BY <1>1, <1>6 DEF First
<1>8. Result[Before + dest_code[l]] = code_list[dest_code[l]]
  <2>1. PICK m : m = Before + dest_code[l]
    OBVIOUS
  <2>2. m \in First .. Len(Result) /\ m - Before = dest_code[l]
    BY <1>1, <1>6, <1>7, <2>1
  <2>3. Result[m] = code_list[m - Before]
    BY <2>2, ResultOfBuilder
  <2> QED
    BY <2>1, <2>2, <2>3
<1> QED
  BY <1>2, <1>4, <1>5, <1>7, <1>8

\* build() finds the first code after the allocas, and no alloca after it.
LEMMA StartBuildFinds ==
    ASSUME BuilderInv, StartBuild
    PROVE  LET more == First <= Len(Result)
               label == IF more /\ Result[First].label # NoLabel THEN Result[First].label ELSE FirstLabel
               allocas == [n \in 1 .. Before |-> [pos |-> n, to |-> <<>>]]
           IN  /\ finished /\ status = "appending"
               /\ status' = "building"
               /\ source_codes' = IF more THEN [Result EXCEPT ![First].label = label] ELSE Result
               /\ codes' = [codes EXCEPT ![EntryGroup] =
                                IF more THEN Append(allocas, NewGoto(label)) ELSE allocas]
               /\ stack' = <<[group |-> EntryGroup, line |-> First, ended |-> TRUE,
                              targets |-> IF more THEN <<First>> ELSE <<>>]>>
               /\ UNCHANGED <<builder, groups, edges, marks, basic_groups>>
<1>1. finished /\ status = "appending"
  BY DEF StartBuild
<1>2. /\ Before \in Nat /\ First = Before + 1 /\ Len(Result) \in Nat /\ Before <= Len(Result)
      /\ \A n \in 1 .. Before : Result[n].kind = "alloca"
  BY <1>1, ResultOfBuilder DEF First
<1>3. ASSUME NEW n \in First .. Len(Result) PROVE Result[n].kind # "alloca"
  BY <1>1, ResultOfBuilder DEF ListedKinds
<1>4. FirstOther = First
  <2> DEFINE Sought(n) == /\ n = Len(Result) + 1 \/ Result[n].kind # "alloca"
                          /\ \A m \in 1 .. n - 1 : Result[m].kind = "alloca"
  <2>1. First \in 1 .. Len(Result) + 1 /\ Sought(First)
    <3>1. First \in 1 .. Len(Result) + 1 /\ First - 1 = Before
      BY <1>2
    <3>2. First # Len(Result) + 1 => First \in First .. Len(Result)
      BY <1>2
    <3> QED
      BY <1>2, <1>3, <3>1, <3>2
  <2>2. ASSUME NEW n \in 1 .. Len(Result) + 1, Sought(n) PROVE n = First
    <3>1. CASE n < First
      <4>1. n \in 1 .. Before /\ n # Len(Result) + 1
        BY <1>2, <3>1
      <4> QED
        BY <1>2, <2>2, <4>1
    <3>2. CASE n > First
      <4>1. First \in 1 .. n - 1 /\ First \in First .. Len(Result)
        BY <1>2, <3>2
      <4> QED
        BY <1>3, <2>2, <4>1
    <3> QED
      BY <1>2, <3>1, <3>2
  <2> QED
    BY <2>1, <2>2 DEF FirstOther
<1>5. ~LateAlloca
  BY <1>3, <1>4 DEF LateAlloca
<1>6. First - 1 = Before
  BY <1>2
<1> QED
  BY <1>1, <1>4, <1>5, <1>6 DEF StartBuild

\* build() starts: the entry has the allocas and a goto, and waits for its one group.
LEMMA StartBuildIInv == IInv /\ StartBuild => IInv'
<1> SUFFICES ASSUME IInv, StartBuild PROVE IInv'
  OBVIOUS
<1> DEFINE more == First <= Len(Result)
           label == IF more /\ Result[First].label # NoLabel THEN Result[First].label ELSE FirstLabel
           allocas == [n \in 1 .. Before |-> [pos |-> n, to |-> <<>>]]
           ahead == IF more THEN <<First>> ELSE <<>>
           entry == IF more THEN Append(allocas, NewGoto(label)) ELSE allocas
           frame == [group |-> EntryGroup, line |-> First, ended |-> TRUE, targets |-> ahead]
<1>1. /\ finished /\ status = "appending" /\ status' = "building"
      /\ source_codes' = IF more THEN [Result EXCEPT ![First].label = label] ELSE Result
      /\ codes' = [codes EXCEPT ![EntryGroup] = entry]
      /\ stack' = <<frame>>
      /\ UNCHANGED <<builder, groups, edges, marks, basic_groups>>
  BY StartBuildFinds DEF IInv
<1>2. /\ Before \in Nat /\ First \in Nat \ {0} /\ Len(code_list) \in Nat
      /\ Len(Result) = Before + Len(code_list) /\ DOMAIN Result = 1 .. Len(Result)
      /\ 1 .. Len(Result) \subseteq Positions
      /\ \A n \in First .. Len(Result) : Result[n].kind \in ListedKinds /\ NamesFitKind(Result[n])
      /\ Result \in Seq([kind : ListedKinds \cup {"alloca"}, label : Labels \cup {NoLabel}, to : Seq(Labels)])
  BY <1>1, ResultOfBuilder DEF IInv
<1>3. more => First \in 1 .. Len(Result) /\ First \in Positions
  BY <1>2
<1>4. NothingBuilt /\ TypeInv /\ BuilderInv /\ Mirrored
  BY <1>1 DEF IInv
<1>5. label \in Labels \cup {FirstLabel} /\ label # NoLabel
  <2>1. CASE more
    <3>1. Result[First].label \in Labels \cup {NoLabel}
      <4>1. Result[First] \in [kind : ListedKinds \cup {"alloca"}, label : Labels \cup {NoLabel}, to : Seq(Labels)]
        BY <1>2, <1>3, <2>1, ElementOfSeq
      <4> QED
        BY <4>1
    <3> QED
      BY <3>1, NamesAssumption
  <2>2. CASE ~more
    BY <2>2, NamesAssumption
  <2> QED
    BY <2>1, <2>2
<1> HIDE DEF label
\* The codes passed in: the label of the first other code apart, the client's.
<1>6. /\ DOMAIN source_codes' = 1 .. Len(Result)
      /\ source_codes' \in Seq(SourceCodes)
      /\ Len(source_codes') = Len(Result)
      /\ \A n \in 1 .. Len(Result) :
            /\ source_codes'[n].kind = Result[n].kind /\ source_codes'[n].to = Result[n].to
            /\ Result[n].label # NoLabel => source_codes'[n].label = Result[n].label
      /\ more => source_codes'[First].label = label
  <2> DEFINE Given == [kind : ListedKinds \cup {"alloca"}, label : Labels \cup {NoLabel}, to : Seq(Labels)]
  <2>1. Given \subseteq SourceCodes
    BY DEF SourceCodes
  <2>2. Result \in Seq(SourceCodes)
    BY <1>2, <2>1, SeqMonotonic
  <2>3. CASE more
    <3>1. Result[First] \in SourceCodes
      BY <1>2, <1>3, <2>2, <2>3, ElementOfSeq
    <3>2. [Result[First] EXCEPT !.label = label] \in SourceCodes
      BY <3>1, <1>5 DEF SourceCodes
    <3>3. source_codes' = [Result EXCEPT ![First] = [Result[First] EXCEPT !.label = label]]
      BY <1>1, <2>3
    <3>4. /\ source_codes' \in Seq(SourceCodes) /\ Len(source_codes') = Len(Result)
          /\ \A n \in 1 .. Len(Result) :
                source_codes'[n] = IF n = First THEN [Result[First] EXCEPT !.label = label] ELSE Result[n]
      BY <1>3, <2>2, <2>3, <3>2, <3>3, ExceptSeq
    <3>5. /\ [Result[First] EXCEPT !.label = label].kind = Result[First].kind
          /\ [Result[First] EXCEPT !.label = label].to = Result[First].to
          /\ [Result[First] EXCEPT !.label = label].label = label
      BY <3>1 DEF SourceCodes
    <3>6. Result[First].label # NoLabel => label = Result[First].label
      BY <2>3 DEF label
    <3>7. DOMAIN source_codes' = 1 .. Len(Result)
      BY <3>4, LenProperties
    <3> QED
      BY <1>3, <2>3, <3>4, <3>5, <3>6, <3>7
  <2>4. CASE ~more
    BY <1>1, <1>2, <2>2, <2>4
  <2> QED
    BY <2>3, <2>4
<1>7. First' = First /\ Before' = Before /\ Size' = Len(Result)
  BY <1>1, <1>6 DEF First, Before, Size, builder
<1>8. SourceInv'
  <2>1. Size' = Before' + Len(code_list')
    BY <1>1, <1>2, <1>7 DEF builder
  <2>2. First' <= Size' => HasLabel(First)'
    <3>1. CASE more
      BY <3>1, <1>5, <1>6, <1>7 DEF HasLabel
    <3>2. CASE ~more
      BY <3>2, <1>7
    <3> QED
      BY <3>1, <3>2
  <2>3. ASSUME NEW n \in First .. Len(Result)
        PROVE  /\ source_codes'[n].kind \in ListedKinds
               /\ NamesFitKind(source_codes'[n])
               /\ \A t \in DOMAIN source_codes'[n].to :
                    LET p == CHOOSE m \in DOMAIN source_codes' :
                                m = Len(alloca_list') + dest_code'[source_codes'[n].to[t]]
                    IN  p \in First .. Len(Result) /\ source_codes'[p].label = source_codes'[n].to[t]
    <3>1. n \in 1 .. Len(Result)
      BY <1>2
    <3>2. source_codes'[n].kind = Result[n].kind /\ source_codes'[n].to = Result[n].to
      BY <1>6, <3>1
    <3>3. source_codes'[n].kind \in ListedKinds /\ NamesFitKind(source_codes'[n])
      BY <1>2, <3>2 DEF NamesFitKind
    <3>4. ASSUME NEW t \in DOMAIN source_codes'[n].to
          PROVE  LET p == CHOOSE m \in DOMAIN source_codes' :
                              m = Len(alloca_list') + dest_code'[source_codes'[n].to[t]]
                 IN  p \in First .. Len(Result) /\ source_codes'[p].label = source_codes'[n].to[t]
      <4>1. PICK q : q = Before + dest_code[Result[n].to[t]]
        OBVIOUS
      <4>2. q \in First .. Len(Result) /\ Result[q].label = Result[n].to[t] /\ Result[n].to[t] # NoLabel
        BY <1>1, <3>2, <4>1, NamesLeadToCodes DEF IInv
      <4>3. q \in 1 .. Len(Result)
        BY <1>2, <4>2
      <4>4. source_codes'[q].label = Result[n].to[t]
        BY <1>6, <4>2, <4>3
      <4>5. q = Len(alloca_list') + dest_code'[source_codes'[n].to[t]]
        BY <1>1, <3>2, <4>1 DEF builder, Before
      <4>6. (CHOOSE m \in DOMAIN source_codes' : m = Len(alloca_list') + dest_code'[source_codes'[n].to[t]]) = q
        BY <1>6, <4>3, <4>5
      <4> QED
        BY <3>2, <4>2, <4>4, <4>6
    <3> QED
      BY <3>3, <3>4
  <2> QED
    BY ZenonT(30), <1>7, <2>1, <2>2, <2>3 DEF SourceInv, PositionOf
\* The frame of build() and the entry group.
<1>9. ahead \in Seq(Labelled)' /\ ahead \in Seq(Positions)
  <2>1. more => First \in Labelled'
    <3> SUFFICES ASSUME more PROVE First \in Labelled'
      OBVIOUS
    <3>1. First \in First' .. Size'
      BY <1>2, <1>7
    <3>2. source_codes'[First].label # NoLabel
      BY <1>5, <1>6
    <3> QED
      BY <3>1, <3>2 DEF Labelled, HasLabel
  <2>2. CASE more
    BY <1>3, <2>1, <2>2
  <2>3. CASE ~more
    BY <2>3, EmptySeq
  <2> QED
    BY <2>2, <2>3
<1>10. entry \in Seq(GroupItems) /\ allocas \in Seq(GroupItems)
  <2>1. allocas \in Seq(GroupItems)
    <3>1. 1 .. Before \subseteq Positions
      BY SMTT(30), <1>2
    <3>2. allocas \in [1 .. Before -> GroupItems]
      BY <3>1, EmptySeq DEF GroupItems
    <3> QED
      BY <1>2, <3>2, FunctionIsSequence
  <2>2. NewGoto(label) \in GroupItems
    BY <1>5 DEF NewGoto, GroupItems
  <2> HIDE DEF allocas
  <2> QED
    BY <2>1, <2>2, AppendProperties
<1> HIDE DEF entry
<1>11. frame \in Frames
  <2>1. First \in Positions \cup {NoGroup}
    <3>1. CASE more
      BY <1>3, <3>1
    <3>2. CASE ~more
      <4>1. First = Len(Result) + 1
        BY <1>2, <3>2 DEF First
      <4>2. First <= Capacity + 1
        <5>1. Capacity \in Nat /\ Positions = 1 .. Capacity
          BY <1>4, Numbers
        <5>2. Len(Result) <= Capacity
          BY <1>2, <5>1
        <5> QED
          BY <4>1, <5>1, <5>2, <1>2
      <4> QED
        BY <1>2, <1>4, <4>2, Numbers
    <3> QED
      BY <3>1, <3>2
  <2> QED
    BY <1>9, <2>1 DEF Frames
<1> HIDE DEF frame
<1>12. TypeInv'
  <2>1. codes' \in [{EntryGroup} \cup Positions -> Seq(GroupItems)]
    BY <1>1, <1>4, <1>10 DEF TypeInv
  <2>2. stack' \in Seq(Frames)
    BY <1>1, <1>11
  <2> QED
    BY <1>1, <1>2, <1>4, <1>6, <2>1, <2>2 DEF TypeInv, edges, marks
<1>13. Mirrored'
  BY <1>1, <1>4 DEF Mirrored, edges
<1>14. Len(stack') = 1 /\ stack'[1] = frame /\ stack' # <<>>
  BY <1>1
<1>15. frame.group = EntryGroup /\ frame.line = First /\ frame.ended /\ frame.targets = ahead
  BY DEF frame
<1>16. [codes |-> codes'[EntryGroup], next |-> follows'[EntryGroup] \o ahead] \in Entries'
  <2>1. codes'[EntryGroup] = entry
    BY <1>1, <1>4 DEF TypeInv
  <2>2. follows'[EntryGroup] \o ahead = ahead
    <3>1. follows'[EntryGroup] = <<>>
      BY <1>1, <1>4 DEF NothingBuilt, edges
    <3> QED
      BY <1>9, <3>1, ConcatEmptySeq
  <2>3. more => label = source_codes'[First].label
    BY <1>6
  <2>4. PICK x : x = [codes |-> entry, next |-> ahead]
    OBVIOUS
  <2>5. x \in [codes : Seq(GroupItems), next : Seq(Positions)] /\ x.codes = entry /\ x.next = ahead
    BY <2>4, <1>9, <1>10
  <2>6. x \in Entries'
    BY <1>7, <2>3, <2>5 DEF Entries, entry
  <2> QED
    BY <2>1, <2>2, <2>4, <2>6
<1>17. ASSUME NEW f \in 1 .. Len(stack') PROVE FrameInv(f)'
  <2>1. f = 1 /\ stack'[f] = frame /\ Len(stack') = 1
    BY <1>14
  <2>2. frame.line \in First' .. Size' + 1
    BY <1>2, <1>7, <1>15 DEF First
  <2>3. /\ stack'[f].group = EntryGroup /\ stack'[f].ended /\ stack'[f].targets = ahead
        /\ stack'[f].line \in First' .. Size' + 1 /\ ~(f > 1) /\ ~(f < Len(stack'))
    BY <1>15, <2>1, <2>2
  <2>4. [codes |-> codes'[stack'[f].group], next |-> follows'[stack'[f].group] \o stack'[f].targets] \in Entries'
    BY <1>16, <2>3
  <2> QED
    BY <1>9, <2>1, <2>3, <2>4 DEF FrameInv
<1>18. GroupInv'
  <2>1. /\ groups' = {} /\ basic_groups' = <<EntryGroup>>
        /\ ToSet(basic_groups)' = {EntryGroup} /\ IsInjective(basic_groups)'
    <3>1. groups' = {} /\ basic_groups' = <<EntryGroup>>
      BY <1>1, <1>4 DEF NothingBuilt
    <3> QED
      BY <3>1 DEF ToSet, IsInjective
  <2>2. \A g \in {EntryGroup} \cup Positions : follows'[g] = <<>>
    BY <1>1, <1>4 DEF NothingBuilt, edges
  <2>3. \A g \in Positions : codes'[g] = <<>>
    <3>1. EntryGroup \notin Positions
      BY <1>4, Numbers
    <3> QED
      BY <1>1, <1>4, <3>1 DEF NothingBuilt
  <2>4. \A f, h \in 1 .. Len(stack') : f = h
    BY <1>14
  <2> QED
    BY <2>1, <2>2, <2>3, <2>4, EmptySeq DEF GroupInv
<1>19. ReachInv'
  <2> SUFFICES ASSUME NEW S \in ClosedSets'
               PROVE  ToSet(ahead) \subseteq S
    BY <1>1, <1>4, <1>14, <1>15 DEF ReachInv, NothingBuilt
  <2>1. CASE more
    <3>1. First \in DOMAIN source_codes'
      BY <1>3, <1>6, <2>1
    <3>2. Before' + 1 = First
      BY <1>7 DEF First
    <3>3. First \in S
      BY <3>1, <3>2 DEF ClosedSets, ClosedUnderNext, Before
    <3> QED
      BY <2>1, <3>3 DEF ToSet
  <2>2. CASE ~more
    BY <2>2 DEF ToSet
  <2> QED
    BY <2>1, <2>2
<1>20. BuildingInv'
  BY <1>8, <1>14, <1>17, <1>18, <1>19 DEF BuildingInv
<1>21. BuilderInv' /\ finished'
  BY <1>1, <1>4 DEF builder, BuilderInv, BuilderTypes, ListsAreShort, LabelsHaveTheirCode, NothingDangles, Referenced
<1> QED
  BY <1>1, <1>12, <1>13, <1>20, <1>21 DEF IInv, NeverThrows

-----------------------------------------------------------------------------
(***************************************************************************)
(* The steps of the recursion that work on the last frame.                 *)
(***************************************************************************)
LEMMA MirroredStays ==
    ASSUME Mirrored, UNCHANGED edges
    PROVE  Mirrored'
  BY DEF Mirrored, edges

\* A frame that is not touched, nor its group.
LEMMA FrameStays ==
    ASSUME UNCHANGED <<builder, source_codes>>, NEW f, FrameInv(f), stack'[f] = stack[f],
           f < Len(stack') => stack[f].ended,
           codes'[stack[f].group] = codes[stack[f].group],
           follows'[stack[f].group] = follows[stack[f].group],
           f > 1 => stack[f].group \in groups' /\ stack[f].group \notin ToSet(basic_groups')
    PROVE  FrameInv(f)'
<1>1. /\ Labelled' = Labelled /\ Partial' = Partial /\ Ended' = Ended /\ Entries' = Entries
      /\ First' = First /\ Size' = Size
  BY FrozenSource
<1>2. PICK h : h = stack[f].group
  OBVIOUS
<1>3. PICK F : F = stack[f]
  OBVIOUS
<1>4. /\ stack'[f] = F /\ F.group = h
      /\ codes'[h] = codes[h] /\ follows'[h] = follows[h]
  BY <1>2, <1>3
<1>5. /\ f = 1 <=> h = EntryGroup
      /\ f < Len(stack') => F.ended
      /\ F.line \in First' .. Size' + 1
  BY <1>1, <1>2, <1>3 DEF FrameInv
<1>6. F.targets \in Seq(Labelled)'
  <2>1. F.targets \in Seq(Labelled)
    BY <1>3 DEF FrameInv
  <2> QED
    BY <1>1, <2>1, Zenon
<1>7. f = 1 => /\ F.ended
               /\ [codes |-> codes'[h], next |-> follows'[h] \o F.targets] \in Entries'
  <2>1. f = 1 => /\ F.ended
                 /\ [codes |-> codes[h], next |-> follows[h] \o F.targets] \in Entries
    BY <1>2, <1>3 DEF FrameInv
  <2> QED
    BY <1>1, <1>4, <2>1
<1>8. f > 1 => /\ h \in groups' /\ h \notin ToSet(basic_groups)'
               /\ F.ended =>
                    [group |-> h, codes |-> codes'[h], next |-> follows'[h] \o F.targets] \in Ended'
               /\ ~F.ended =>
                    /\ F.targets = <<>>
                    /\ follows'[h] = <<>>
                    /\ [group |-> h, line |-> F.line, codes |-> codes'[h]] \in Partial'
  <2>1. f > 1 => /\ F.ended =>
                      [group |-> h, codes |-> codes[h], next |-> follows[h] \o F.targets] \in Ended
                 /\ ~F.ended =>
                      /\ F.targets = <<>>
                      /\ follows[h] = <<>>
                      /\ [group |-> h, line |-> F.line, codes |-> codes[h]] \in Partial
    BY <1>2, <1>3 DEF FrameInv
  <2> QED
    BY <1>1, <1>2, <1>4, <2>1
<1>9. stack'[f] = F /\ stack'[f].group = h
  BY <1>4
<1> QED
  BY <1>5, <1>6, <1>7, <1>8, <1>9 DEF FrameInv

\* A frame of a non-empty stack that is rewritten.
LEMMA LastFrameSet ==
    ASSUME NEW s \in Seq(Frames), s # <<>>, NEW F \in Frames
    PROVE  LET u == [s EXCEPT ![Len(s)] = F]
           IN  /\ u \in Seq(Frames) /\ u # <<>>
               /\ Len(u) = Len(s) /\ u[Len(s)] = F
               /\ \A f \in 1 .. Len(s) : f # Len(s) => u[f] = s[f]
<1>1. Len(s) \in Nat \ {0} /\ Len(s) \in 1 .. Len(s)
  BY EmptySeq
<1> DEFINE u == [s EXCEPT ![Len(s)] = F]
<1>2. /\ u \in Seq(Frames) /\ Len(u) = Len(s)
      /\ \A f \in 1 .. Len(s) : u[f] = IF f = Len(s) THEN F ELSE s[f]
  BY <1>1, ExceptSeq
<1>3. u # <<>>
  BY <1>1, <1>2, EmptySeq
<1> QED
  BY <1>1, <1>2, <1>3

\* The three ways the last frame is rewritten.
LEMMA FrameEnds ==
    ASSUME stack \in Seq(Frames), stack # <<>>, NEW t \in Seq(Positions), EndGroup(t)
    PROVE  LET L == Len(stack)
           IN  /\ stack'[L] \in Frames /\ stack' = [stack EXCEPT ![L] = stack'[L]]
               /\ stack'[L].group = stack[L].group /\ stack'[L].line = stack[L].line
               /\ stack'[L].ended = TRUE /\ stack'[L].targets = t
<1> DEFINE L == Len(stack)
           F == [[stack[L] EXCEPT !.ended = TRUE] EXCEPT !.targets = t]
<1>1. stack[L] \in Frames /\ L \in DOMAIN stack
  BY EmptySeq, ElementOfSeq, LenProperties
<1>2. stack' = [stack EXCEPT ![L] = F]
  BY <1>1 DEF EndGroup
<1>3. F \in Frames
  BY <1>1 DEF Frames
<1>4. F.group = stack[L].group /\ F.line = stack[L].line /\ F.ended = TRUE /\ F.targets = t
  BY <1>1 DEF Frames
<1> HIDE DEF F
<1>5. stack'[L] = F
  BY <1>1, <1>2
<1> QED
  BY <1>2, <1>3, <1>4, <1>5

\* A call that takes a code leaves all other calls as they are.
LEMMA FrameAdvances ==
    ASSUME NEW s \in Seq(Frames), NEW L \in 1 .. Len(s), s[L].line + 1 \in Positions \cup {NoGroup},
           NEW u, u = [s EXCEPT ![L].line = @ + 1]
    PROVE  /\ u[L] \in Frames /\ u = [s EXCEPT ![L] = u[L]]
           /\ u[L].group = s[L].group /\ u[L].line = s[L].line + 1
           /\ u[L].ended = s[L].ended /\ u[L].targets = s[L].targets
<1> DEFINE F == [s[L] EXCEPT !.line = @ + 1]
<1>1. s[L] \in Frames /\ L \in DOMAIN s
  BY ElementOfSeq, LenProperties
<1>2. u = [s EXCEPT ![L] = F]
  BY <1>1
<1>3. F \in Frames
  BY <1>1 DEF Frames
<1>4. F.group = s[L].group /\ F.line = s[L].line + 1 /\ F.ended = s[L].ended /\ F.targets = s[L].targets
  BY <1>1 DEF Frames
<1> HIDE DEF F
<1>5. u[L] = F
  BY <1>1, <1>2
<1> QED
  BY <1>2, <1>3, <1>4, <1>5

\* A call that has linked a target leaves all other calls as they are.
LEMMA FrameLinks ==
    ASSUME stack \in Seq(Frames), stack # <<>>, Frame.targets # <<>>,
           stack' = [stack EXCEPT ![Len(stack)].targets = Tail(@)]
    PROVE  LET L == Len(stack)
           IN  /\ stack'[L] \in Frames /\ stack' = [stack EXCEPT ![L] = stack'[L]]
               /\ stack'[L].group = stack[L].group /\ stack'[L].line = stack[L].line
               /\ stack'[L].ended = stack[L].ended /\ stack'[L].targets = Tail(stack[L].targets)
<1> DEFINE L == Len(stack)
           F == [stack[L] EXCEPT !.targets = Tail(@)]
<1>1. stack[L] \in Frames /\ L \in DOMAIN stack
  BY EmptySeq, ElementOfSeq, LenProperties
<1>2. stack' = [stack EXCEPT ![L] = F]
  BY <1>1
<1>3. Tail(stack[L].targets) \in Seq(Positions)
  BY <1>1, HeadTailProperties DEF Frames, Frame, Last
<1>4. F \in Frames
  BY <1>1, <1>3 DEF Frames
<1>5. F.group = stack[L].group /\ F.line = stack[L].line /\ F.ended = stack[L].ended
      /\ F.targets = Tail(stack[L].targets)
  BY <1>1 DEF Frames
<1> HIDE DEF F
<1>6. stack'[L] = F
  BY <1>1, <1>2
<1> QED
  BY <1>2, <1>4, <1>5, <1>6

\* What the frames of a stack are made of.
LEMMA StackParts ==
    ASSUME TypeInv, stack # <<>>
    PROVE  /\ Len(stack) \in Nat \ {0} /\ Len(stack) \in 1 .. Len(stack)
           /\ DOMAIN stack = 1 .. Len(stack)
           /\ Frame = stack[Len(stack)]
           /\ \A f \in 1 .. Len(stack) :
                /\ stack[f] \in Frames
                /\ stack[f].group \in {EntryGroup} \cup Positions
                /\ stack[f].targets \in Seq(Positions)
                /\ stack[f].ended \in BOOLEAN
                /\ stack[f] = [group |-> stack[f].group, line |-> stack[f].line,
                               ended |-> stack[f].ended, targets |-> stack[f].targets]
<1>1. Len(stack) \in Nat \ {0} /\ Len(stack) \in 1 .. Len(stack) /\ DOMAIN stack = 1 .. Len(stack)
  BY EmptySeq, LenProperties DEF TypeInv
<1>2. \A f \in 1 .. Len(stack) : stack[f] \in Frames
  BY ElementOfSeq DEF TypeInv
<1>3. Frame = stack[Len(stack)]
  BY DEF Frame, Last
<1> QED
  BY <1>1, <1>2, <1>3 DEF Frames

\* The call that fills a group: where it stands.
LEMMA ScanningParts ==
    ASSUME IInv, Scanning
    PROVE  /\ BuildingInv /\ TypeInv /\ BuilderInv /\ Mirrored /\ finished
           /\ Len(stack) \in Nat \ {0} /\ Len(stack) > 1
           /\ Frame.group \in groups /\ Frame.group \in Positions
           /\ Frame.group \notin ToSet(basic_groups)
           /\ Frame.line \in Nat /\ Frame.line \in First .. Size + 1
           /\ Frame.targets = <<>> /\ follows[Frame.group] = <<>>
           /\ [group |-> Frame.group, line |-> Frame.line, codes |-> codes[Frame.group]] \in Partial
           /\ \A f \in 1 .. Len(stack) : f # Len(stack) => stack[f].group # Frame.group
<1>1. BuildingInv /\ TypeInv /\ BuilderInv /\ Mirrored /\ finished /\ ~Frame.ended
  BY DEF IInv, Scanning
<1>2. stack # <<>>
  BY <1>1 DEF BuildingInv
<1>3. Len(stack) \in Nat \ {0} /\ Len(stack) \in 1 .. Len(stack) /\ Frame = stack[Len(stack)]
  BY <1>1, <1>2, StackParts
<1>4. FrameInv(Len(stack))
  BY <1>1, <1>3 DEF BuildingInv
<1>5. Len(stack) # 1 /\ Len(stack) > 1
  <2>1. Len(stack) = 1 => stack[Len(stack)].ended
    BY <1>4 DEF FrameInv
  <2> QED
    BY SMTT(30), <1>1, <1>3, <2>1
<1>6. /\ Frame.group \in groups
      /\ Frame.group \notin ToSet(basic_groups)
      /\ Frame.line \in First .. Size + 1
      /\ Frame.targets = <<>> /\ follows[Frame.group] = <<>>
      /\ [group |-> Frame.group, line |-> Frame.line, codes |-> codes[Frame.group]] \in Partial
  BY <1>1, <1>3, <1>4, <1>5 DEF FrameInv
<1>7. Frame.line \in Nat /\ Frame.group \in Positions
  <2>1. First \in Nat /\ Size \in Nat
    BY <1>1, Numbers
  <2>2. groups \subseteq Positions
    BY <1>1 DEF TypeInv
  <2> QED
    BY <1>6, <2>1, <2>2
<1>8. \A f \in 1 .. Len(stack) : f # Len(stack) => stack[f].group # Frame.group
  BY <1>1, <1>3 DEF BuildingInv, GroupInv
<1> QED
  BY <1>1, <1>3, <1>5, <1>6, <1>7, <1>8

\* A step that rewrites the last frame, for the same group, and that group's codes:
\* the invariant of the frames and the groups it does not touch.
LEMMA ScanningFrames ==
    ASSUME IInv, Scanning, UNCHANGED <<builder, status, source_codes, groups, edges, marks, basic_groups>>,
           NEW F \in Frames, stack' = [stack EXCEPT ![Len(stack)] = F], F.group = Frame.group,
           NEW c \in Seq(GroupItems), codes' = [codes EXCEPT ![Frame.group] = c],
           FrameInv(Len(stack))',
           \A S \in ClosedSets :
               /\ \A j \in DOMAIN c : c[j].pos \in S \cup {0}
               /\ ToSet(F.targets) \subseteq S
               /\ ~F.ended => F.line \in S \cup {Size + 1}
    PROVE  IInv'
<1> DEFINE G == Frame.group
<1>1. /\ BuildingInv /\ TypeInv /\ BuilderInv /\ Mirrored /\ finished
      /\ Len(stack) \in Nat \ {0} /\ Len(stack) > 1
      /\ G \in groups /\ G \in Positions /\ G \notin ToSet(basic_groups)
      /\ \A f \in 1 .. Len(stack) : f # Len(stack) => stack[f].group # G
  BY ScanningParts
<1>2. /\ SourceInv' = SourceInv /\ Labelled' = Labelled
      /\ Partial' = Partial /\ Ended' = Ended /\ Entries' = Entries
      /\ ClosedSets' = ClosedSets /\ First' = First /\ Size' = Size
  BY FrozenSource
<1>3. stack \in Seq(Frames) /\ stack # <<>>
  BY <1>1 DEF TypeInv, BuildingInv
<1>4. /\ stack' \in Seq(Frames) /\ stack' # <<>>
      /\ Len(stack') = Len(stack) /\ stack'[Len(stack)] = F
      /\ \A f \in 1 .. Len(stack) : f # Len(stack) => stack'[f] = stack[f]
  BY <1>3, LastFrameSet
<1>5. stack[Len(stack)].group = G
  BY <1>1, <1>3, StackParts
<1>6. /\ codes' \in [{EntryGroup} \cup Positions -> Seq(GroupItems)]
      /\ codes'[G] = c
      /\ \A g \in {EntryGroup} \cup Positions : g # G => codes'[g] = codes[g]
  BY <1>1 DEF TypeInv
<1>7. UNCHANGED <<follows, precedes, groups, basic_groups>> /\ ToSet(basic_groups)' = ToSet(basic_groups)
  BY DEF edges, ToSet
<1>8. \A f \in 1 .. Len(stack) : stack'[f].group = stack[f].group
  BY <1>4, <1>5
<1>9. TypeInv'
  BY <1>1, <1>4, <1>6 DEF TypeInv, edges, marks
<1>10. ASSUME NEW f \in 1 .. Len(stack') PROVE FrameInv(f)'
  <2>1. CASE f = Len(stack)
    BY <2>1
  <2>2. CASE f # Len(stack)
    <3>1. f \in 1 .. Len(stack) /\ stack'[f] = stack[f] /\ stack[f].group # G
      BY <1>1, <1>4, <2>2
    <3>2. stack[f].group \in {EntryGroup} \cup Positions
      BY <1>1, <1>3, <3>1, StackParts
    <3>3. codes'[stack[f].group] = codes[stack[f].group]
      BY <1>6, <3>1, <3>2
    <3>4. FrameInv(f)
      BY <1>1, <3>1 DEF BuildingInv
    <3> QED
      BY <1>1, <1>4, <1>7, <3>1, <3>3, <3>4, FrameStays DEF FrameInv
  <2> QED
    BY <2>1, <2>2
<1>11. GroupInv'
  <2>1. GroupInv
    BY <1>1 DEF BuildingInv
  <2>2. /\ groups \subseteq Labelled'
        /\ EntryGroup \in ToSet(basic_groups)' /\ IsInjective(basic_groups)'
        /\ \A g \in {EntryGroup} \cup Positions : follows'[g] \in Seq(groups)
    BY <2>1, <1>2, <1>7 DEF GroupInv, IsInjective
  <2>3. /\ \A f, h \in 1 .. Len(stack') : stack'[f].group = stack'[h].group => f = h
        /\ \A g \in groups : g \in ToSet(basic_groups)' \/ \E f \in 1 .. Len(stack') : stack'[f].group = g
    <3>1. \A f, h \in 1 .. Len(stack) : stack[f].group = stack[h].group => f = h
      BY <2>1 DEF GroupInv
    <3>2. \A g \in groups : g \in ToSet(basic_groups) \/ \E f \in 1 .. Len(stack) : stack[f].group = g
      BY <2>1 DEF GroupInv
    <3>3. Len(stack') = Len(stack) /\ ToSet(basic_groups)' = ToSet(basic_groups)
      BY <1>4, <1>7
    <3> QED
      BY ZenonT(30), <1>8, <3>1, <3>2, <3>3
  <2>4. \A g \in ToSet(basic_groups)' \ {EntryGroup} :
          g \in groups /\ [group |-> g, codes |-> codes'[g], next |-> follows'[g]] \in Ended'
    BY ZenonT(30), <2>1, <1>1, <1>2, <1>6, <1>7 DEF GroupInv, TypeInv
  <2>5. \A g \in Positions \ groups : codes'[g] = <<>> /\ follows'[g] = <<>>
    BY <2>1, <1>1, <1>6, <1>7 DEF GroupInv
  <2> QED
    BY <1>7, <2>2, <2>3, <2>4, <2>5 DEF GroupInv
<1>12. ReachInv'
  <2> SUFFICES ASSUME NEW S \in ClosedSets
               PROVE  /\ groups \subseteq S
                      /\ \A g \in groups : \A j \in DOMAIN codes'[g] : codes'[g][j].pos \in S \cup {0}
                      /\ \A f \in 1 .. Len(stack') :
                          /\ ToSet(stack'[f].targets) \subseteq S
                          /\ ~stack'[f].ended => stack'[f].line \in S \cup {Size + 1}
    BY <1>2, <1>7 DEF ReachInv, ToSet
  <2>1. ReachInv
    BY <1>1 DEF BuildingInv
  <2>2. groups \subseteq S
    BY <2>1 DEF ReachInv
  <2>3. \A g \in groups : \A j \in DOMAIN codes'[g] : codes'[g][j].pos \in S \cup {0}
    BY <2>1, <1>1, <1>6 DEF ReachInv, TypeInv
  <2>4. ASSUME NEW f \in 1 .. Len(stack')
        PROVE  /\ ToSet(stack'[f].targets) \subseteq S
               /\ ~stack'[f].ended => stack'[f].line \in S \cup {Size + 1}
    <3>1. CASE f = Len(stack)
      BY <3>1, <1>4
    <3>2. CASE f # Len(stack)
      BY <3>2, <1>4, <2>1 DEF ReachInv
    <3> QED
      BY <3>1, <3>2
  <2> QED
    BY <2>2, <2>3, <2>4
<1>13. BuildingInv'
  BY <1>1, <1>2, <1>4, <1>10, <1>11, <1>12 DEF BuildingInv
<1>14. BuilderInv' /\ finished'
  BY <1>1 DEF builder, BuilderInv, BuilderTypes, ListsAreShort, LabelsHaveTheirCode, NothingDangles, Referenced
<1>15. Mirrored'
  BY <1>1, MirroredStays
<1>16. status' = "building"
  BY DEF Scanning
<1> QED
  BY <1>9, <1>13, <1>14, <1>15, <1>16 DEF IInv, NeverThrows

\* A group ends: what follows it is still to be linked.
LEMMA EndGroupIInv ==
    ASSUME IInv, Scanning, UNCHANGED <<builder, status, source_codes, groups, edges, marks, basic_groups>>,
           NEW t \in Seq(Labelled), EndGroup(t),
           NEW c \in Seq(GroupItems), codes' = [codes EXCEPT ![Frame.group] = c],
           [group |-> Frame.group, codes |-> c, next |-> t] \in Ended,
           \A S \in ClosedSets : (\A j \in DOMAIN c : c[j].pos \in S \cup {0}) /\ ToSet(t) \subseteq S
    PROVE  IInv'
<1> DEFINE F == stack'[Len(stack)]
<1>1. /\ BuildingInv /\ TypeInv /\ BuilderInv
      /\ Len(stack) \in Nat \ {0} /\ Len(stack) > 1
      /\ Frame.group \in groups /\ Frame.group \in Positions /\ Frame.group \notin ToSet(basic_groups)
      /\ Frame.line \in First .. Size + 1 /\ follows[Frame.group] = <<>>
  BY ScanningParts
<1>2. stack # <<>> /\ stack \in Seq(Frames)
  BY <1>1 DEF BuildingInv, TypeInv
<1>3. /\ Frame = stack[Len(stack)] /\ Frame \in Frames /\ Len(stack) \in 1 .. Len(stack)
      /\ DOMAIN stack = 1 .. Len(stack)
  BY <1>1, <1>2, StackParts
<1>4. t \in Seq(Positions)
  BY <1>1, Numbers, SeqMonotonic
<1>5. F \in Frames /\ F.group = Frame.group /\ F.line = Frame.line /\ F.ended /\ F.targets = t
      /\ stack' = [stack EXCEPT ![Len(stack)] = F]
  BY <1>2, <1>3, <1>4, FrameEnds
<1>6. F = stack'[Len(stack)]
  OBVIOUS
<1> HIDE DEF F
<1>7. Len(stack') = Len(stack) /\ stack'[Len(stack)] = F
  BY <1>2, <1>5, <1>6, LastFrameSet
<1>8. FrameInv(Len(stack))'
  <2>1. PICK f : f = Len(stack)
    OBVIOUS
  <2>2. PICK g : g = Frame.group
    OBVIOUS
  <2>3. /\ Labelled' = Labelled /\ Ended' = Ended /\ First' = First /\ Size' = Size
    BY FrozenSource
  <2>4. /\ stack'[f] = F /\ F.group = g /\ f > 1 /\ ~(f < Len(stack')) /\ f # 1
    BY <1>1, <1>5, <1>7, <2>1, <2>2
  <2>5. g # EntryGroup
    BY <1>1, <2>2, Numbers
  <2>6. codes'[g] = c /\ follows'[g] = <<>>
    BY <1>1, <2>2 DEF TypeInv, edges
  <2>7. <<>> \o t = t
    BY ConcatEmptySeq
  <2>8. [group |-> g, codes |-> codes'[g], next |-> follows'[g] \o F.targets] \in Ended'
    BY <1>5, <2>2, <2>3, <2>6, <2>7
  <2>9. F.targets \in Seq(Labelled)'
    BY <1>5, <2>3, Zenon
  <2>10. g \in groups' /\ g \notin ToSet(basic_groups)' /\ F.line \in First' .. Size' + 1
    BY <1>1, <1>5, <2>2, <2>3 DEF ToSet
  <2>11. FrameInv(f)'
    BY <1>5, <2>4, <2>5, <2>8, <2>9, <2>10 DEF FrameInv
  <2>12. f = Len(stack')
    BY <1>7, <2>1
  <2> QED
    BY <2>11, <2>12
<1> QED
  BY <1>5, <1>8, ScanningFrames

\* The next code carries a label, which the code before the label leads to.
LEMMA FallIntoLabelIInv == IInv /\ FallIntoLabel => IInv'
<1> SUFFICES ASSUME IInv, FallIntoLabel PROVE IInv'
  OBVIOUS
<1> DEFINE c == Append(codes[Frame.group], NewGoto(source_codes[Frame.line].label))
<1>1. Scanning /\ AtNextLabel
      /\ UNCHANGED <<builder, status, source_codes, groups, edges, marks, basic_groups>>
      /\ EndGroup(<<Frame.line>>)
      /\ codes' = [codes EXCEPT ![Frame.group] = c]
  BY DEF FallIntoLabel, AddItem
<1>2. /\ BuildingInv /\ TypeInv /\ BuilderInv
      /\ Frame.group \in groups /\ Frame.group \in Positions
      /\ Frame.line \in First .. Size + 1 /\ Frame.line \in Nat
      /\ [group |-> Frame.group, line |-> Frame.line, codes |-> codes[Frame.group]] \in Partial
      /\ stack # <<>> /\ ~Frame.ended
  BY <1>1, ScanningParts DEF BuildingInv, Scanning
<1>3. Frame.line <= Size /\ Frame.line # Frame.group /\ HasLabel(Frame.line) /\ Size \in Nat
  BY <1>1, <1>2, Numbers DEF AtNextLabel, AtEnd, Size
<1>4. /\ [group |-> Frame.group, codes |-> c, next |-> <<Frame.line>>] \in Ended
      /\ Frame.line \in Labelled
      /\ NewGoto(source_codes[Frame.line].label) \in GroupItems
  BY <1>2, <1>3, PartialFalls DEF BuildingInv
<1>5. codes[Frame.group] \in Seq(GroupItems)
  BY <1>2 DEF TypeInv
<1>6. c \in Seq(GroupItems) /\ DOMAIN c = DOMAIN codes[Frame.group] \cup {Len(codes[Frame.group]) + 1}
      /\ (\A j \in DOMAIN codes[Frame.group] : c[j] = codes[Frame.group][j])
      /\ c[Len(codes[Frame.group]) + 1] = NewGoto(source_codes[Frame.line].label)
  BY <1>4, <1>5, AppendHolds
<1>7. <<Frame.line>> \in Seq(Labelled)
  BY <1>4
<1> HIDE DEF c
<1>8. ASSUME NEW S \in ClosedSets
      PROVE  (\A j \in DOMAIN c : c[j].pos \in S \cup {0}) /\ ToSet(<<Frame.line>>) \subseteq S
  <2>1. \A j \in DOMAIN codes[Frame.group] : codes[Frame.group][j].pos \in S \cup {0}
    BY <1>2 DEF BuildingInv, ReachInv
  <2>2. Frame.line \in S
    <3>1. Len(stack) \in 1 .. Len(stack) /\ Frame = stack[Len(stack)]
      BY <1>2, StackParts
    <3>2. Frame.line \in S \cup {Size + 1}
      BY <1>2, <3>1 DEF BuildingInv, ReachInv
    <3> QED
      BY <1>2, <1>3, <3>2
  <2>3. NewGoto(source_codes[Frame.line].label).pos = 0
    BY DEF NewGoto
  <2> QED
    BY <1>6, <2>1, <2>2, <2>3 DEF ToSet
<1> QED
  BY <1>1, <1>4, <1>6, <1>7, <1>8, EndGroupIInv

\* A group that the last code belongs to ends without targets.
LEMMA RunOffTheEndIInv == IInv /\ RunOffTheEnd => IInv'
<1> SUFFICES ASSUME IInv, RunOffTheEnd PROVE IInv'
  OBVIOUS
<1> DEFINE c == codes[Frame.group]
<1>1. Scanning /\ AtEnd
      /\ UNCHANGED <<builder, status, source_codes, groups, edges, marks, basic_groups>>
      /\ EndGroup(<<>>)
      /\ codes' = codes
  BY DEF RunOffTheEnd
<1>2. /\ BuildingInv /\ TypeInv /\ BuilderInv
      /\ Frame.group \in groups /\ Frame.group \in Positions
      /\ [group |-> Frame.group, line |-> Frame.line, codes |-> c] \in Partial
  BY <1>1, ScanningParts
<1>3. [group |-> Frame.group, codes |-> c, next |-> <<>>] \in Ended
  BY <1>1, <1>2, PartialStops DEF BuildingInv, AtEnd, Size
<1>4. c \in Seq(GroupItems) /\ codes' = [codes EXCEPT ![Frame.group] = c]
  BY <1>1, <1>2 DEF TypeInv
<1>5. ASSUME NEW S \in ClosedSets PROVE \A j \in DOMAIN c : c[j].pos \in S \cup {0}
  BY <1>2 DEF BuildingInv, ReachInv
<1>6. <<>> \in Seq(Labelled) /\ ToSet(<<>>) = {}
  BY EmptySeq DEF ToSet
<1> HIDE DEF c
<1> QED
  BY <1>1, <1>3, <1>4, <1>5, <1>6, EndGroupIInv

\* The call takes the next code: control that reaches it goes on to the next line, or,
\* when it jumps, to its targets.
LEMMA TakeCodeIInv == IInv /\ TakeCode => IInv'
<1> SUFFICES ASSUME IInv, TakeCode PROVE IInv'
  OBVIOUS
<1> DEFINE n == Frame.line
           c == Append(codes[Frame.group], Item(n))
<1>1. Scanning /\ ~AtEnd /\ ~AtNextLabel
      /\ UNCHANGED <<builder, status, source_codes, groups, edges, marks, basic_groups>>
      /\ codes' = [codes EXCEPT ![Frame.group] = c]
  BY DEF TakeCode, AddItem
<1>2. /\ BuildingInv /\ TypeInv /\ BuilderInv /\ SourceInv
      /\ Len(stack) \in Nat \ {0} /\ Len(stack) > 1
      /\ Frame.group \in groups /\ Frame.group \in Positions /\ Frame.group \notin ToSet(basic_groups)
      /\ n \in First .. Size + 1 /\ n \in Nat /\ follows[Frame.group] = <<>> /\ Frame.targets = <<>>
      /\ [group |-> Frame.group, line |-> n, codes |-> codes[Frame.group]] \in Partial
      /\ stack # <<>> /\ ~Frame.ended
  BY <1>1, ScanningParts DEF BuildingInv, Scanning
<1>3. n <= Size /\ (n = Frame.group \/ ~HasLabel(n)) /\ Size \in Nat /\ First \in Nat /\ n \in First .. Size
  BY <1>1, <1>2, Numbers DEF AtNextLabel, AtEnd, Size
<1>4. /\ Len(stack) \in 1 .. Len(stack) /\ Frame = stack[Len(stack)] /\ Frame \in Frames
      /\ DOMAIN stack = 1 .. Len(stack) /\ stack \in Seq(Frames)
  BY <1>2, StackParts DEF TypeInv
<1>5. codes[Frame.group] \in Seq(GroupItems) /\ Item(n) \in GroupItems
  BY <1>2, <1>3, NextOfCode DEF TypeInv
<1>6. c \in Seq(GroupItems) /\ DOMAIN c = DOMAIN codes[Frame.group] \cup {Len(codes[Frame.group]) + 1}
      /\ (\A j \in DOMAIN codes[Frame.group] : c[j] = codes[Frame.group][j])
      /\ c[Len(codes[Frame.group]) + 1] = Item(n)
  BY <1>5, AppendHolds
<1>7. /\ ~Jumps(n) => [group |-> Frame.group, line |-> n + 1, codes |-> c] \in Partial
      /\ Jumps(n) => [group |-> Frame.group, codes |-> c, next |-> SourceNext(n)] \in Ended
  BY <1>2, <1>3, PartialGrows
<1> HIDE DEF c
<1>8. ASSUME NEW S \in ClosedSets
      PROVE  /\ \A j \in DOMAIN c : c[j].pos \in S \cup {0}
             /\ n \in S
             /\ ToSet(SourceNext(n)) \subseteq S
  <2>1. \A j \in DOMAIN codes[Frame.group] : codes[Frame.group][j].pos \in S \cup {0}
    BY <1>2 DEF BuildingInv, ReachInv
  <2>2. n \in S
    <3>1. n \in S \cup {Size + 1}
      BY <1>2, <1>4 DEF BuildingInv, ReachInv
    <3> QED
      BY <1>2, <1>3, <3>1
  <2>3. Item(n).pos = n
    BY DEF Item
  <2>4. ToSet(SourceNext(n)) \subseteq S
    BY <2>2 DEF ClosedSets, ClosedUnderNext
  <2> QED
    BY <1>6, <2>1, <2>2, <2>3, <2>4
<1>9. CASE Jumps(n)
  <2>1. /\ SourceNext(n) = [t \in DOMAIN source_codes[n].to |-> PositionOf(source_codes[n].to[t])]
        /\ SourceNext(n) \in Seq(Labelled)
    BY <1>2, <1>3, <1>9, NextOfCode
  <2>2. EndGroup(SourceNext(n))
    BY <1>9, <2>1 DEF TakeCode, Jumps
  <2> QED
    BY <1>1, <1>6, <1>7, <1>8, <1>9, <2>1, <2>2, EndGroupIInv
<1>10. CASE ~Jumps(n)
  <2> DEFINE F == stack'[Len(stack)]
  <2>1. stack' = [stack EXCEPT ![Len(stack)].line = @ + 1]
    BY <1>10 DEF TakeCode, Jumps
  <2>3. n + 1 \in First .. Size + 1 /\ n + 1 \in Positions \cup {NoGroup}
    <3>1. Capacity \in Nat /\ Size <= Capacity /\ Positions = 1 .. Capacity /\ NoGroup = Capacity + 1
      BY <1>2, Numbers
    <3> QED
      BY <1>3, <3>1
  <2>4. F \in Frames /\ F.group = Frame.group /\ F.line = n + 1 /\ ~F.ended /\ F.targets = <<>>
        /\ stack' = [stack EXCEPT ![Len(stack)] = F]
    <3>1. PICK u : u = stack'
      OBVIOUS
    <3>2. u = [stack EXCEPT ![Len(stack)].line = @ + 1] /\ stack[Len(stack)].line + 1 \in Positions \cup {NoGroup}
      BY <1>4, <2>1, <2>3, <3>1
    <3>3. /\ u[Len(stack)] \in Frames /\ u = [stack EXCEPT ![Len(stack)] = u[Len(stack)]]
          /\ u[Len(stack)].group = stack[Len(stack)].group /\ u[Len(stack)].line = stack[Len(stack)].line + 1
          /\ u[Len(stack)].ended = stack[Len(stack)].ended /\ u[Len(stack)].targets = stack[Len(stack)].targets
      BY <1>4, <3>2, FrameAdvances
    <3> QED
      BY <1>2, <1>4, <3>1, <3>3
  <2>2. F = stack'[Len(stack)]
    OBVIOUS
  <2> HIDE DEF F
  <2>5. Len(stack') = Len(stack) /\ stack'[Len(stack)] = F
    BY <1>4, <1>2, <2>2, <2>4, LastFrameSet
  <2>6. FrameInv(Len(stack))'
    <3>1. PICK f : f = Len(stack)
      OBVIOUS
    <3>2. PICK g : g = Frame.group
      OBVIOUS
    <3>3. /\ Labelled' = Labelled /\ Partial' = Partial /\ First' = First /\ Size' = Size
      BY <1>1, FrozenSource
    <3>4. /\ stack'[f] = F /\ F.group = g /\ f > 1 /\ ~(f < Len(stack')) /\ f # 1
      BY <1>2, <2>4, <2>5, <3>1, <3>2
    <3>5. g # EntryGroup
      BY <1>2, <3>2, Numbers
    <3>6. codes'[g] = c /\ follows'[g] = <<>>
      BY <1>1, <1>2, <3>2 DEF TypeInv, edges
    <3>7. [group |-> g, line |-> F.line, codes |-> codes'[g]] \in Partial'
      BY <1>7, <1>10, <2>4, <3>2, <3>3, <3>6
    <3>8. F.targets \in Seq(Labelled)'
      BY <2>4, EmptySeq
    <3>9. g \in groups' /\ g \notin ToSet(basic_groups)' /\ F.line \in First' .. Size' + 1
      BY <1>1, <1>2, <2>3, <2>4, <3>2, <3>3 DEF ToSet
    <3>10. FrameInv(f)'
      BY <2>4, <3>4, <3>5, <3>6, <3>7, <3>8, <3>9 DEF FrameInv
    <3>11. f = Len(stack')
      BY <2>5, <3>1
    <3> QED
      BY <3>10, <3>11
  <2>7. ASSUME NEW S \in ClosedSets
        PROVE  /\ \A j \in DOMAIN c : c[j].pos \in S \cup {0}
               /\ ToSet(F.targets) \subseteq S
               /\ ~F.ended => F.line \in S \cup {Size + 1}
    <3>1. ToSet(F.targets) = {}
      BY <2>4 DEF ToSet
    <3>2. F.line \in S \cup {Size + 1}
      <4>1. CASE n < Size
        <5>1. SourceNext(n) = <<n + 1>>
          BY <1>2, <1>3, <1>10, <4>1, NextOfCode
        <5>2. n + 1 \in ToSet(SourceNext(n))
          BY <5>1 DEF ToSet
        <5> QED
          BY <1>8, <2>4, <5>2
      <4>2. CASE ~(n < Size)
        BY <1>3, <2>4, <4>2
      <4> QED
        BY <4>1, <4>2
    <3> QED
      BY <1>8, <3>1, <3>2
  <2> QED
    BY <1>1, <1>6, <2>4, <2>6, <2>7, ScanningFrames
<1> QED
  BY <1>9, <1>10

-----------------------------------------------------------------------------
(***************************************************************************)
(* The steps of the recursion that link a group.                           *)
(***************************************************************************)
\* The call that links its group: where it stands.
LEMMA LinkingParts ==
    ASSUME IInv, Linking
    PROVE  /\ BuildingInv /\ TypeInv /\ BuilderInv /\ Mirrored /\ SourceInv /\ GroupInv /\ ReachInv
           /\ finished /\ status = "building"
           /\ stack # <<>> /\ stack \in Seq(Frames)
           /\ Len(stack) \in Nat \ {0} /\ Len(stack) \in 1 .. Len(stack)
           /\ Frame = stack[Len(stack)] /\ Frame \in Frames /\ Frame.ended
           /\ \A f \in 1 .. Len(stack) : FrameInv(f) /\ stack[f].ended
           /\ Frame.group \in {EntryGroup} \cup groups /\ Frame.group \in {EntryGroup} \cup Positions
           /\ groups \subseteq Positions /\ EntryGroup \notin groups
           /\ Frame.group = EntryGroup <=> Len(stack) = 1
           /\ Frame.group # EntryGroup => Frame.group \notin ToSet(basic_groups)
           /\ Frame.targets \in Seq(Labelled) /\ Frame.targets \in Seq(Positions)
           /\ \A f \in 1 .. Len(stack) : f # Len(stack) => stack[f].group # Frame.group
           /\ \A f \in 1 .. Len(stack) : stack[f].group \in {EntryGroup} \cup groups
<1>1. /\ BuildingInv /\ TypeInv /\ BuilderInv /\ Mirrored /\ finished /\ Frame.ended /\ status = "building"
  BY DEF IInv, Linking
<1>2. stack # <<>> /\ stack \in Seq(Frames) /\ SourceInv /\ GroupInv /\ ReachInv
  BY <1>1 DEF BuildingInv, TypeInv
<1>3. Len(stack) \in Nat \ {0} /\ Len(stack) \in 1 .. Len(stack) /\ Frame = stack[Len(stack)] /\ Frame \in Frames
  BY <1>1, <1>2, StackParts
<1>4. \A f \in 1 .. Len(stack) : FrameInv(f)
  BY <1>1 DEF BuildingInv
<1>5. ASSUME NEW f \in 1 .. Len(stack)
      PROVE  /\ stack[f].ended
             /\ stack[f].group \in {EntryGroup} \cup groups
             /\ stack[f].targets \in Seq(Labelled)
             /\ stack[f].group = EntryGroup <=> f = 1
             /\ f > 1 => stack[f].group \notin ToSet(basic_groups)
  <2>1. FrameInv(f)
    BY <1>4
  <2>2. f \in Nat /\ f > 0 /\ f <= Len(stack)
    BY <1>3
  <2>3. stack[f].ended
    <3>1. CASE f = Len(stack)
      BY <1>1, <1>3, <3>1
    <3>2. CASE f # Len(stack)
      <4>1. f < Len(stack)
        BY <1>3, <2>2, <3>2
      <4> QED
        BY <2>1, <4>1 DEF FrameInv
    <3> QED
      BY <3>1, <3>2
  <2>4. f = 1 \/ f > 1
    BY <2>2
  <2> QED
    BY <2>1, <2>3, <2>4 DEF FrameInv
<1>6. groups \subseteq Positions /\ EntryGroup \notin groups
  BY <1>1, Numbers DEF TypeInv
<1>7. \A f \in 1 .. Len(stack) : f # Len(stack) => stack[f].group # Frame.group
  BY <1>2, <1>3 DEF GroupInv
<1>8. Frame.targets \in Seq(Positions)
  BY <1>3 DEF Frames
<1>9. Len(stack) # 1 => Len(stack) > 1
  <2>1. PICK k : k = Len(stack)
    OBVIOUS
  <2>2. k \in Nat /\ k # 0
    BY <1>3, <2>1
  <2>3. k # 1 => k > 1
    BY ONLY <2>2
  <2> QED
    BY <2>1, <2>3
<1> QED
  BY <1>1, <1>2, <1>3, <1>4, <1>5, <1>6, <1>7, <1>8, <1>9

\* Both ends of an edge are entered in one step, and the target is no longer pending.
LEMMA LinkTargetIInv == IInv /\ LinkTarget => IInv'
<1> SUFFICES ASSUME IInv, LinkTarget PROVE IInv'
  OBVIOUS
<1> DEFINE L == Len(stack)
           G == Frame.group
           h == Head(Frame.targets)
           F == stack'[L]
<1>1. /\ Linking /\ Frame.targets # <<>> /\ h \in groups
      /\ follows' = [follows EXCEPT ![G] = Append(@, h)]
      /\ precedes' = [precedes EXCEPT ![h] = Append(@, G)]
      /\ stack' = [stack EXCEPT ![L].targets = Tail(@)]
      /\ UNCHANGED <<builder, status, source_codes, groups, codes, marks, basic_groups>>
  BY DEF LinkTarget
<1>2. /\ BuildingInv /\ TypeInv /\ BuilderInv /\ Mirrored /\ SourceInv /\ GroupInv /\ ReachInv
      /\ finished /\ status = "building"
      /\ stack # <<>> /\ stack \in Seq(Frames)
      /\ L \in Nat \ {0} /\ L \in 1 .. L
      /\ Frame = stack[L] /\ Frame.ended
      /\ \A f \in 1 .. L : FrameInv(f) /\ stack[f].ended
      /\ G \in {EntryGroup} \cup groups /\ G \in {EntryGroup} \cup Positions
      /\ groups \subseteq Positions /\ EntryGroup \notin groups
      /\ G # EntryGroup => G \notin ToSet(basic_groups)
      /\ Frame.targets \in Seq(Labelled) /\ Frame.targets \in Seq(Positions)
      /\ \A f \in 1 .. L : f # L => stack[f].group # G
      /\ \A f \in 1 .. L : stack[f].group \in {EntryGroup} \cup groups
  BY <1>1, LinkingParts
<1>3. /\ follows[G] \in Seq(Positions) /\ precedes[h] \in Seq({EntryGroup} \cup Positions)
      /\ follows[G] \in Seq(groups) /\ h \in Positions
  BY <1>1, <1>2 DEF TypeInv, GroupInv
<1>4. /\ Tail(Frame.targets) \in Seq(Labelled)
      /\ Append(follows[G], h) \o Tail(Frame.targets) = follows[G] \o Frame.targets
      /\ ToSet(Tail(Frame.targets)) \subseteq ToSet(Frame.targets)
  <2>1. /\ Append(follows[G], h) \o Tail(Frame.targets) = follows[G] \o Frame.targets
        /\ ToSet(Tail(Frame.targets)) \subseteq ToSet(Frame.targets)
    <3>1. PICK s, t : s = follows[G] /\ t = Frame.targets
      OBVIOUS
    <3>2. s \in Seq(Positions) /\ t \in Seq(Positions) /\ t # <<>>
      BY <1>1, <1>2, <1>3, <3>1
    <3>3. Append(s, Head(t)) \o Tail(t) = s \o t /\ ToSet(Tail(t)) \subseteq ToSet(t)
      BY <3>2, MoveHead
    <3> QED
      BY <3>1, <3>3
  <2>2. Tail(Frame.targets) \in Seq(Labelled)
    BY <1>1, <1>2, HeadTailProperties
  <2> QED
    BY <2>1, <2>2
<1>5. /\ F \in Frames /\ stack' = [stack EXCEPT ![L] = F]
      /\ F.group = G /\ F.line = Frame.line /\ F.ended /\ F.targets = Tail(Frame.targets)
  BY <1>1, <1>2, FrameLinks
<1>6. /\ stack' \in Seq(Frames) /\ stack' # <<>>
      /\ Len(stack') = L
      /\ \A f \in 1 .. L : f # L => stack'[f] = stack[f]
  BY <1>2, <1>5, LastFrameSet
<1>7. /\ follows' \in [{EntryGroup} \cup Positions -> Seq(Positions)]
      /\ follows'[G] = Append(follows[G], h)
      /\ \A g \in {EntryGroup} \cup Positions : g # G => follows'[g] = follows[g]
  BY <1>1, <1>2, <1>3, AppendProperties DEF TypeInv
<1>8. /\ precedes' \in [{EntryGroup} \cup Positions -> Seq({EntryGroup} \cup Positions)]
      /\ precedes'[h] = Append(precedes[h], G)
      /\ \A g \in {EntryGroup} \cup Positions : g # h => precedes'[g] = precedes[g]
  BY <1>1, <1>2, <1>3, AppendProperties DEF TypeInv
<1>9. /\ SourceInv' = SourceInv /\ Labelled' = Labelled /\ Ended' = Ended /\ Entries' = Entries
      /\ ClosedSets' = ClosedSets /\ First' = First /\ Size' = Size
  BY <1>1, FrozenSource
<1> HIDE DEF F, h, G
<1>10. TypeInv'
  BY <1>1, <1>2, <1>6, <1>7, <1>8 DEF TypeInv, marks
<1>11. Mirrored'
  <2> SUFFICES ASSUME NEW g \in {EntryGroup} \cup Positions, NEW k \in {EntryGroup} \cup Positions
               PROVE  Count(follows'[g], k) = Count(precedes'[k], g)
    BY DEF Mirrored, Count
  <2>1. Count(follows[g], k) = Count(precedes[k], g)
    BY <1>2 DEF Mirrored
  <2>2. /\ Count(Append(follows[g], h), k) = Count(follows[g], k) + (IF h = k THEN 1 ELSE 0)
        /\ Count(follows[g], k) \in Nat
    <3>1. follows[g] \in Seq(Positions)
      BY <1>2 DEF TypeInv
    <3> QED
      BY <1>3, <3>1, AppendCount
  <2>3. Count(Append(precedes[k], G), g) = Count(precedes[k], g) + (IF G = g THEN 1 ELSE 0)
    <3>1. precedes[k] \in Seq({EntryGroup} \cup Positions)
      BY <1>2 DEF TypeInv
    <3> QED
      BY <1>2, <3>1, AppendCount
  <2>4. follows'[g] = IF g = G THEN Append(follows[g], h) ELSE follows[g]
    BY <1>7
  <2>5. precedes'[k] = IF k = h THEN Append(precedes[k], G) ELSE precedes[k]
    BY <1>8
  <2> QED
    BY <2>1, <2>2, <2>3, <2>4, <2>5
<1>12. FrameInv(L)'
  <2>1. PICK f : f = L
    OBVIOUS
  <2>2. FrameInv(f) /\ stack[f] = Frame
    BY <1>2, <2>1
  <2>3. stack'[f] = F /\ f = Len(stack')
    BY <1>6, <2>1 DEF F
  <2>4. /\ f = 1 <=> G = EntryGroup
        /\ Frame.line \in First .. Size + 1
        /\ f = 1 => [codes |-> codes[G], next |-> follows[G] \o Frame.targets] \in Entries
        /\ f > 1 => /\ G \in groups /\ G \notin ToSet(basic_groups)
                    /\ [group |-> G, codes |-> codes[G], next |-> follows[G] \o Frame.targets] \in Ended
    BY <1>2, <2>2 DEF FrameInv, G
  <2>5. follows'[G] \o F.targets = follows[G] \o Frame.targets
    BY <1>4, <1>5, <1>7
  <2>6. F.targets \in Seq(Labelled)'
    BY <1>4, <1>5, <1>9, Zenon
  <2>7. codes'[G] = codes[G]
    BY <1>1
  <2>8. f = 1 => [codes |-> codes'[G], next |-> follows'[G] \o F.targets] \in Entries'
    BY <1>9, <2>4, <2>5, <2>7
  <2>9. f > 1 => /\ G \in groups' /\ G \notin ToSet(basic_groups)'
                 /\ [group |-> G, codes |-> codes'[G], next |-> follows'[G] \o F.targets] \in Ended'
    <3>1. groups' = groups /\ ToSet(basic_groups)' = ToSet(basic_groups)
      BY <1>1 DEF ToSet
    <3>2. [group |-> G, codes |-> codes'[G], next |-> follows'[G] \o F.targets]
            = [group |-> G, codes |-> codes[G], next |-> follows[G] \o Frame.targets]
      BY <2>5, <2>7
    <3> QED
      BY <1>9, <2>4, <3>1, <3>2
  <2>10. F.line \in First' .. Size' + 1
    BY <1>5, <1>9, <2>4
  <2>11. FrameInv(f)'
    BY <1>5, <2>3, <2>4, <2>6, <2>8, <2>9, <2>10 DEF FrameInv
  <2> QED
    BY <1>6, <2>1, <2>11
<1>13. ASSUME NEW f \in 1 .. Len(stack') PROVE FrameInv(f)'
  <2>1. CASE f = L
    BY <1>6, <1>12, <2>1
  <2>2. CASE f # L
    <3>1. f \in 1 .. L /\ stack'[f] = stack[f] /\ FrameInv(f) /\ stack[f].ended
      BY <1>2, <1>6, <2>2
    <3>2. stack[f].group # G /\ stack[f].group \in {EntryGroup} \cup Positions
      BY <1>2, <2>2, <3>1
    <3>3. follows'[stack[f].group] = follows[stack[f].group]
      BY <1>7, <3>2
    <3>4. f > 1 => stack[f].group \in groups' /\ stack[f].group \notin ToSet(basic_groups')
      BY <1>1, <3>1 DEF FrameInv
    <3> QED
      BY <1>1, <3>1, <3>3, <3>4, FrameStays
  <2> QED
    BY <2>1, <2>2
<1>14. GroupInv'
  <2>1. /\ groups \subseteq Labelled'
        /\ EntryGroup \in ToSet(basic_groups)' /\ IsInjective(basic_groups)'
    BY <1>1, <1>2, <1>9 DEF GroupInv, IsInjective, ToSet
  <2>2. \A f \in 1 .. L : stack'[f].group = stack[f].group
    BY <1>2, <1>5, <1>6 DEF F, G
  <2>3. /\ \A f, k \in 1 .. Len(stack') : stack'[f].group = stack'[k].group => f = k
        /\ \A g \in groups : g \in ToSet(basic_groups)' \/ \E f \in 1 .. Len(stack') : stack'[f].group = g
    <3>1. \A f, k \in 1 .. L : stack[f].group = stack[k].group => f = k
      BY <1>2 DEF GroupInv
    <3>2. \A g \in groups : g \in ToSet(basic_groups) \/ \E f \in 1 .. L : stack[f].group = g
      BY <1>2 DEF GroupInv
    <3>3. Len(stack') = L /\ ToSet(basic_groups)' = ToSet(basic_groups)
      BY <1>1, <1>6 DEF ToSet
    <3> QED
      BY <2>2, <3>1, <3>2, <3>3
  <2>4. ASSUME NEW g \in ToSet(basic_groups)' \ {EntryGroup}
        PROVE  g \in groups /\ [group |-> g, codes |-> codes'[g], next |-> follows'[g]] \in Ended'
    <3>1. g \in ToSet(basic_groups) \ {EntryGroup}
      BY <1>1 DEF ToSet
    <3>2. g \in groups /\ [group |-> g, codes |-> codes[g], next |-> follows[g]] \in Ended
      BY <1>2, <3>1 DEF GroupInv
    <3>3. g # G
      BY <1>2, <3>1
    <3>4. follows'[g] = follows[g] /\ codes'[g] = codes[g]
      BY <1>1, <1>2, <1>7, <3>2, <3>3
    <3> QED
      BY <1>9, <3>2, <3>4
  <2>5. \A g \in {EntryGroup} \cup Positions : follows'[g] \in Seq(groups)
    <3>1. Append(follows[G], h) \in Seq(groups)
      BY <1>1, <1>3, AppendProperties
    <3> QED
      BY ZenonT(30), <1>2, <1>7, <3>1 DEF GroupInv
  <2>6. \A g \in Positions \ groups : codes'[g] = <<>> /\ follows'[g] = <<>>
    <3>1. \A g \in Positions \ groups : codes[g] = <<>> /\ follows[g] = <<>>
      BY <1>2 DEF GroupInv
    <3>2. \A g \in Positions \ groups : g # G
      BY <1>2, Numbers
    <3> QED
      BY <1>1, <1>7, <3>1, <3>2
  <2> QED
    BY <1>1, <2>1, <2>3, <2>4, <2>5, <2>6 DEF GroupInv
<1>15. ReachInv'
  <2> SUFFICES ASSUME NEW S \in ClosedSets, NEW f \in 1 .. L
               PROVE  /\ ToSet(stack'[f].targets) \subseteq S
                      /\ ~stack'[f].ended => stack'[f].line \in S \cup {Size + 1}
    BY <1>1, <1>2, <1>6, <1>9 DEF ReachInv, ToSet
  <2>1. ToSet(stack[f].targets) \subseteq S /\ stack[f].ended
    BY <1>2 DEF ReachInv
  <2>2. CASE f = L
    BY <1>2, <1>4, <1>5, <2>1, <2>2 DEF F
  <2>3. CASE f # L
    BY <1>6, <2>1, <2>3
  <2> QED
    BY <2>2, <2>3
<1>16. BuildingInv'
  BY <1>2, <1>6, <1>9, <1>13, <1>14, <1>15 DEF BuildingInv
<1>17. BuilderInv' /\ finished'
  BY <1>1, <1>2 DEF builder, BuilderInv, BuilderTypes, ListsAreShort, LabelsHaveTheirCode, NothingDangles, Referenced
<1> QED
  BY <1>1, <1>2, <1>10, <1>11, <1>16, <1>17 DEF IInv, NeverThrows

\* A target that has no group yet carries a label, so that it gets one.
LEMMA BuildTargetIInv == IInv /\ BuildTarget => IInv'
<1> SUFFICES ASSUME IInv, BuildTarget PROVE IInv'
  OBVIOUS
<1> DEFINE L == Len(stack)
           h == Head(Frame.targets)
           F == [group |-> h, line |-> h, ended |-> FALSE, targets |-> <<>>]
<1>1. /\ Linking /\ Frame.targets # <<>> /\ h \notin groups
      /\ UNCHANGED <<builder, source_codes, codes, edges, marks, basic_groups>>
  BY DEF BuildTarget
<1>2. /\ BuildingInv /\ TypeInv /\ BuilderInv /\ Mirrored /\ SourceInv /\ GroupInv /\ ReachInv
      /\ finished /\ status = "building"
      /\ stack # <<>> /\ stack \in Seq(Frames)
      /\ L \in Nat \ {0} /\ L \in 1 .. L
      /\ Frame = stack[L]
      /\ \A f \in 1 .. L : FrameInv(f) /\ stack[f].ended
      /\ groups \subseteq Positions /\ EntryGroup \notin groups
      /\ Frame.targets \in Seq(Labelled) /\ Frame.targets \in Seq(Positions)
      /\ \A f \in 1 .. L : stack[f].group \in {EntryGroup} \cup groups
  BY <1>1, LinkingParts
<1>3. h \in Labelled /\ h \in ToSet(Frame.targets)
  <2>1. h \in Labelled
    BY <1>1, <1>2, HeadTailProperties
  <2>2. h \in ToSet(Frame.targets)
    BY <1>1, <1>2, MoveHead
  <2> QED
    BY <2>1, <2>2
<1>4. h \in Positions /\ h \in First .. Size /\ HasLabel(h) /\ First \in Nat /\ Size \in Nat /\ h # EntryGroup
  <2>1. h \in Positions /\ h \in First .. Size /\ First \in Nat /\ Size \in Nat /\ EntryGroup \notin Positions
    BY <1>2, <1>3, Numbers
  <2>2. HasLabel(h)
    BY <1>3 DEF Labelled
  <2> QED
    BY <2>1, <2>2
<1>5. /\ groups' = groups \cup {h}
      /\ stack' = Append(stack, F)
      /\ status' = status
  BY <1>1, <1>4 DEF BuildTarget
<1>6. F \in Frames /\ F.group = h /\ F.line = h /\ ~F.ended /\ F.targets = <<>>
  BY <1>4, EmptySeq DEF Frames
<1> HIDE DEF F, h
<1>7. /\ stack' \in Seq(Frames) /\ Len(stack') = L + 1 /\ stack'[L + 1] = F /\ stack' # <<>>
      /\ \A f \in 1 .. L : stack'[f] = stack[f]
  BY <1>2, <1>5, <1>6, AppendProperties
<1>8. codes[h] = <<>> /\ follows[h] = <<>>
  BY <1>1, <1>2, <1>4 DEF GroupInv, h
<1>9. h \notin ToSet(basic_groups)
  BY <1>1, <1>2, <1>4 DEF GroupInv, h
<1>10. /\ SourceInv' = SourceInv /\ Labelled' = Labelled /\ Ended' = Ended /\ Partial' = Partial
       /\ ClosedSets' = ClosedSets /\ First' = First /\ Size' = Size
  BY <1>1, FrozenSource
<1>11. UNCHANGED <<follows, precedes, codes, basic_groups>> /\ ToSet(basic_groups)' = ToSet(basic_groups)
  BY <1>1 DEF edges, ToSet
<1>12. TypeInv'
  BY <1>1, <1>2, <1>4, <1>5, <1>7 DEF TypeInv, edges, marks
<1>13. Mirrored'
  BY <1>1, <1>2, MirroredStays
<1>14. ASSUME NEW f \in 1 .. Len(stack') PROVE FrameInv(f)'
  <2>1. CASE f = L + 1
    <3>1. stack'[f] = F /\ f > 1 /\ f # 1 /\ ~(f < Len(stack'))
      BY <1>2, <1>7, <2>1
    <3>2. [group |-> h, line |-> h, codes |-> codes'[h]] \in Partial'
      <4>1. [group |-> h, line |-> h, codes |-> <<>>] \in Partial
        BY <1>2, <1>3, PartialStarts
      <4> QED
        BY <1>8, <1>10, <1>11, <4>1
    <3>3. h \in First' .. Size' + 1
      BY <1>4, <1>10
    <3>4. F.targets \in Seq(Labelled)'
      BY <1>6, EmptySeq
    <3>5. h \in groups' /\ h \notin ToSet(basic_groups)' /\ follows'[h] = <<>>
      BY <1>5, <1>8, <1>9, <1>11
    <3> QED
      BY <1>4, <1>6, <3>1, <3>2, <3>3, <3>4, <3>5 DEF FrameInv
  <2>2. CASE f # L + 1
    <3>1. f \in 1 .. L
      BY <1>2, <1>7, <2>2
    <3>2. stack'[f] = stack[f] /\ FrameInv(f) /\ stack[f].ended
      BY <1>2, <1>7, <3>1
    <3>3. f > 1 => stack[f].group \in groups' /\ stack[f].group \notin ToSet(basic_groups')
      BY <1>5, <1>11, <3>2 DEF FrameInv
    <3> QED
      BY <1>1, <1>11, <3>2, <3>3, FrameStays
  <2> QED
    BY <2>1, <2>2
<1>15. GroupInv'
  <2>1. groups' \subseteq Labelled'
    BY <1>2, <1>3, <1>5, <1>10 DEF GroupInv
  <2>2. EntryGroup \in ToSet(basic_groups)' /\ IsInjective(basic_groups)'
    BY <1>2, <1>11 DEF GroupInv, IsInjective
  <2>3. ASSUME NEW f \in 1 .. Len(stack'), NEW k \in 1 .. Len(stack'), stack'[f].group = stack'[k].group
        PROVE  f = k
    <3>1. \A i \in 1 .. L : stack'[i].group # h
      <4>1. \A i \in 1 .. L : stack[i].group # h
        BY <1>1, <1>2, <1>4 DEF h
      <4> QED
        BY <1>7, <4>1
    <3>2. \A i, j \in 1 .. L : stack'[i].group = stack'[j].group => i = j
      BY <1>2, <1>7 DEF GroupInv
    <3>3. stack'[L + 1].group = h
      BY <1>6, <1>7
    <3>4. (f \in 1 .. L \/ f = L + 1) /\ (k \in 1 .. L \/ k = L + 1)
      BY <1>2, <1>7
    <3> QED
      BY <2>3, <3>1, <3>2, <3>3, <3>4
  <2>4. ASSUME NEW g \in groups' PROVE g \in ToSet(basic_groups)' \/ \E f \in 1 .. Len(stack') : stack'[f].group = g
    <3>1. CASE g = h
      <4>1. L + 1 \in 1 .. Len(stack') /\ stack'[L + 1].group = g
        BY <1>2, <1>6, <1>7, <3>1
      <4> QED
        BY <4>1
    <3>2. CASE g \in groups
      <4>1. g \in ToSet(basic_groups) \/ \E f \in 1 .. L : stack[f].group = g
        BY <1>2, <3>2 DEF GroupInv
      <4>2. 1 .. L \subseteq 1 .. Len(stack')
        BY <1>2, <1>7
      <4> QED
        BY <1>7, <1>11, <4>1, <4>2
    <3> QED
      BY <1>5, <3>1, <3>2
  <2>5. \A g \in ToSet(basic_groups)' \ {EntryGroup} :
          g \in groups' /\ [group |-> g, codes |-> codes'[g], next |-> follows'[g]] \in Ended'
    BY <1>2, <1>5, <1>10, <1>11 DEF GroupInv
  <2>6. \A g \in {EntryGroup} \cup Positions : follows'[g] \in Seq(groups')
    <3>1. \A g \in {EntryGroup} \cup Positions : follows[g] \in Seq(groups)
      BY <1>2 DEF GroupInv
    <3>2. groups \subseteq groups'
      BY <1>5
    <3> QED
      BY <1>11, <3>1, <3>2, SeqMonotonic
  <2>7. \A g \in Positions \ groups' : codes'[g] = <<>> /\ follows'[g] = <<>>
    BY <1>2, <1>5, <1>11 DEF GroupInv
  <2> QED
    BY <2>1, <2>2, <2>3, <2>4, <2>5, <2>6, <2>7 DEF GroupInv
<1>16. ReachInv'
  <2> SUFFICES ASSUME NEW S \in ClosedSets
               PROVE  /\ groups' \subseteq S
                      /\ \A g \in groups' : \A j \in DOMAIN codes[g] : codes[g][j].pos \in S \cup {0}
                      /\ \A f \in 1 .. Len(stack') :
                          /\ ToSet(stack'[f].targets) \subseteq S
                          /\ ~stack'[f].ended => stack'[f].line \in S \cup {Size + 1}
    BY <1>10, <1>11 DEF ReachInv, ToSet
  <2>1. h \in S
    BY <1>2, <1>3 DEF ReachInv
  <2>2. groups' \subseteq S
    BY <1>2, <1>5, <2>1 DEF ReachInv
  <2>3. \A g \in groups' : \A j \in DOMAIN codes[g] : codes[g][j].pos \in S \cup {0}
    BY <1>2, <1>5, <1>8 DEF ReachInv
  <2>4. ASSUME NEW f \in 1 .. Len(stack')
        PROVE  /\ ToSet(stack'[f].targets) \subseteq S
               /\ ~stack'[f].ended => stack'[f].line \in S \cup {Size + 1}
    <3>1. CASE f = L + 1
      <4>1. stack'[f] = F /\ ToSet(F.targets) = {}
        BY <1>6, <1>7, <3>1 DEF ToSet
      <4> QED
        BY <1>6, <2>1, <4>1
    <3>2. CASE f # L + 1
      <4>1. f \in 1 .. L
        BY <1>2, <1>7, <3>2
      <4> QED
        BY <1>2, <1>7, <4>1 DEF ReachInv
    <3> QED
      BY <3>1, <3>2
  <2> QED
    BY <2>2, <2>3, <2>4
<1>17. BuildingInv'
  BY <1>2, <1>7, <1>10, <1>14, <1>15, <1>16 DEF BuildingInv
<1>18. BuilderInv' /\ finished'
  BY <1>1, <1>2 DEF builder, BuilderInv, BuilderTypes, ListsAreShort, LabelsHaveTheirCode, NothingDangles, Referenced
<1> QED
  BY <1>2, <1>5, <1>12, <1>13, <1>17, <1>18 DEF IInv, NeverThrows

\* A call that returns leaves a complete group behind, listed once.
LEMMA ReturnGroupIInv == IInv /\ ReturnGroup => IInv'
<1> SUFFICES ASSUME IInv, ReturnGroup PROVE IInv'
  OBVIOUS
<1> DEFINE L == Len(stack)
           G == Frame.group
<1>1. /\ Linking /\ Frame.targets = <<>> /\ L > 1
      /\ basic_groups' = Append(basic_groups, G)
      /\ stack' = Front(stack)
      /\ UNCHANGED <<builder, status, source_codes, groups, codes, edges, marks>>
  BY DEF ReturnGroup
<1>2. /\ BuildingInv /\ TypeInv /\ BuilderInv /\ Mirrored /\ SourceInv /\ GroupInv /\ ReachInv
      /\ finished /\ status = "building"
      /\ stack # <<>> /\ stack \in Seq(Frames)
      /\ L \in Nat \ {0} /\ L \in 1 .. L
      /\ Frame = stack[L] /\ Frame.ended
      /\ \A f \in 1 .. L : FrameInv(f) /\ stack[f].ended
      /\ G \in {EntryGroup} \cup groups /\ G \in {EntryGroup} \cup Positions
      /\ groups \subseteq Positions /\ EntryGroup \notin groups
      /\ G = EntryGroup <=> L = 1
      /\ G # EntryGroup => G \notin ToSet(basic_groups)
      /\ \A f \in 1 .. L : f # L => stack[f].group # G
  BY <1>1, LinkingParts
<1>3. G \in groups /\ G # EntryGroup /\ G \notin ToSet(basic_groups)
  BY <1>1, <1>2
<1>4. /\ stack' \in Seq(Frames) /\ Len(stack') = L - 1 /\ stack' # <<>>
      /\ \A f \in 1 .. L - 1 : stack'[f] = stack[f]
  <2>1. \A f \in 1 .. L - 1 : stack[f] \in Frames
    BY <1>2, ElementOfSeq
  <2>2. PICK n : n = L - 1
    OBVIOUS
  <2>3. n \in Int /\ n \in Nat /\ 1 \in Int /\ 1 <= n /\ n - 1 + 1 = n /\ (\A f \in 1 .. n : 1 + f - 1 = f)
    BY <1>1, <1>2, <2>2
  <2>4. PICK u : u = SubSeq(stack, 1, n)
    OBVIOUS
  <2>5. u \in Seq(Frames) /\ Len(u) = (IF 1 <= n THEN n - 1 + 1 ELSE 0)
        /\ \A f \in 1 .. n - 1 + 1 : u[f] = stack[1 + f - 1]
    BY <2>1, <2>2, <2>3, <2>4, SubSeqProperties
  <2>6. Len(u) = n /\ \A f \in 1 .. n : u[f] = stack[f]
    BY <2>3, <2>5
  <2>7. u # <<>>
    BY <2>3, <2>6, EmptySeq
  <2>8. stack' = u
    BY <1>1, <2>2, <2>4 DEF Front
  <2> QED
    BY <2>2, <2>5, <2>6, <2>7, <2>8
<1> HIDE DEF G
<1>5. /\ basic_groups' \in Seq({EntryGroup} \cup Positions)
      /\ DOMAIN basic_groups' = DOMAIN basic_groups \cup {Len(basic_groups) + 1}
      /\ Len(basic_groups) + 1 \notin DOMAIN basic_groups
      /\ \A j \in DOMAIN basic_groups : basic_groups'[j] = basic_groups[j]
      /\ basic_groups'[Len(basic_groups) + 1] = G
      /\ ToSet(basic_groups)' = ToSet(basic_groups) \cup {G}
  <2>1. PICK b : b = basic_groups'
    OBVIOUS
  <2>2. basic_groups \in Seq({EntryGroup} \cup Positions) /\ G \in {EntryGroup} \cup Positions
    BY <1>2 DEF TypeInv
  <2>3. b = Append(basic_groups, G)
    BY <1>1, <2>1
  <2>4. /\ b \in Seq({EntryGroup} \cup Positions)
        /\ DOMAIN b = DOMAIN basic_groups \cup {Len(basic_groups) + 1}
        /\ Len(basic_groups) + 1 \notin DOMAIN basic_groups
        /\ \A j \in DOMAIN basic_groups : b[j] = basic_groups[j]
        /\ b[Len(basic_groups) + 1] = G
        /\ ToSet(b) = ToSet(basic_groups) \cup {G}
    <3> HIDE DEF G
    <3>1. PICK S : S = {EntryGroup} \cup Positions
      OBVIOUS
    <3>2. basic_groups \in Seq(S) /\ G \in S
      BY <2>2, <3>1
    <3>3. /\ Append(basic_groups, G) \in Seq(S)
          /\ DOMAIN Append(basic_groups, G) = DOMAIN basic_groups \cup {Len(basic_groups) + 1}
          /\ Len(basic_groups) + 1 \notin DOMAIN basic_groups
          /\ \A j \in DOMAIN basic_groups : Append(basic_groups, G)[j] = basic_groups[j]
          /\ Append(basic_groups, G)[Len(basic_groups) + 1] = G
          /\ ToSet(Append(basic_groups, G)) = ToSet(basic_groups) \cup {G}
      BY <3>2, AppendHolds
    <3> QED
      BY <2>3, <3>1, <3>3, Zenon
  <2>5. ToSet(basic_groups)' = ToSet(b)
    BY <2>1 DEF ToSet
  <2> QED
    BY <2>1, <2>4, <2>5
<1>6. /\ SourceInv' = SourceInv /\ Labelled' = Labelled /\ Ended' = Ended
      /\ ClosedSets' = ClosedSets /\ First' = First /\ Size' = Size
  BY <1>1, FrozenSource
<1>7. UNCHANGED <<follows, precedes, codes, groups>>
  BY <1>1 DEF edges
<1>8. 1 .. L - 1 \subseteq 1 .. L /\ \A f \in 1 .. L - 1 : f # L
  BY <1>2
<1>9. TypeInv'
  BY <1>1, <1>2, <1>4, <1>5 DEF TypeInv, edges, marks
<1>10. Mirrored'
  BY <1>1, <1>2, MirroredStays
<1>11. ASSUME NEW f \in 1 .. Len(stack') PROVE FrameInv(f)'
  <2>1. f \in 1 .. L /\ stack'[f] = stack[f] /\ FrameInv(f) /\ stack[f].ended /\ stack[f].group # G
    BY <1>2, <1>4, <1>8 DEF G
  <2>2. f > 1 => stack[f].group \in groups' /\ stack[f].group \notin ToSet(basic_groups)'
    BY <1>5, <1>7, <2>1 DEF FrameInv
  <2>3. ToSet(basic_groups') = ToSet(basic_groups)'
    OBVIOUS
  <2> QED
    BY <1>1, <1>7, <2>1, <2>2, <2>3, FrameStays
<1>12. GroupInv'
  <2>1. groups' \subseteq Labelled' /\ EntryGroup \in ToSet(basic_groups)'
    BY <1>2, <1>5, <1>6, <1>7 DEF GroupInv
  <2>2. IsInjective(basic_groups)'
    <3>1. \A j, k \in DOMAIN basic_groups : basic_groups[j] = basic_groups[k] => j = k
      BY <1>2 DEF GroupInv, IsInjective
    <3>2. \A j \in DOMAIN basic_groups : basic_groups[j] # G
      BY <1>3 DEF ToSet
    <3>3. \A j, k \in DOMAIN basic_groups' : basic_groups'[j] = basic_groups'[k] => j = k
      BY <1>5, <3>1, <3>2
    <3> QED
      BY <3>3 DEF IsInjective
  <2>3. \A f, k \in 1 .. Len(stack') : stack'[f].group = stack'[k].group => f = k
    BY SMTT(30), <1>2, <1>4, <1>8 DEF GroupInv
  <2>4. ASSUME NEW g \in groups' PROVE g \in ToSet(basic_groups)' \/ \E f \in 1 .. Len(stack') : stack'[f].group = g
    <3>1. g \in ToSet(basic_groups) \/ \E f \in 1 .. L : stack[f].group = g
      BY <1>2, <1>7 DEF GroupInv
    <3>2. ASSUME NEW f \in 1 .. L, stack[f].group = g, g # G PROVE f \in 1 .. L - 1
      BY <1>2, <3>2 DEF G
    <3> QED
      BY <1>4, <1>5, <3>1, <3>2
  <2>5. ASSUME NEW g \in ToSet(basic_groups)' \ {EntryGroup}
        PROVE  g \in groups' /\ [group |-> g, codes |-> codes'[g], next |-> follows'[g]] \in Ended'
    <3>1. CASE g = G
      <4>1. PICK f : f = L
        OBVIOUS
      <4>2. FrameInv(f) /\ f > 1 /\ stack[f] = Frame
        BY <1>1, <1>2, <4>1
      <4>3. [group |-> G, codes |-> codes[G], next |-> follows[G] \o Frame.targets] \in Ended
        BY <1>2, <4>2 DEF FrameInv, G
      <4>4. follows[G] \o Frame.targets = follows[G]
        <5>1. follows[G] \in Seq(Positions)
          BY <1>2 DEF TypeInv
        <5> QED
          BY <1>1, <5>1, ConcatEmptySeq
      <4> QED
        BY <1>3, <1>6, <1>7, <3>1, <4>3, <4>4
    <3>2. CASE g # G
      BY <1>2, <1>5, <1>6, <1>7, <3>2 DEF GroupInv
    <3> QED
      BY <3>1, <3>2
  <2>6. \A g \in {EntryGroup} \cup Positions : follows'[g] \in Seq(groups')
    <3>1. \A g \in {EntryGroup} \cup Positions : follows[g] \in Seq(groups)
      BY <1>2 DEF GroupInv
    <3> QED
      BY <1>7, <3>1, Zenon
  <2>7. \A g \in Positions \ groups' : codes'[g] = <<>> /\ follows'[g] = <<>>
    BY <1>2, <1>7 DEF GroupInv
  <2> QED
    BY <2>1, <2>2, <2>3, <2>4, <2>5, <2>6, <2>7 DEF GroupInv
<1>13. ReachInv'
  <2> SUFFICES ASSUME NEW S \in ClosedSets, NEW f \in 1 .. L - 1
               PROVE  /\ ToSet(stack'[f].targets) \subseteq S
                      /\ ~stack'[f].ended => stack'[f].line \in S \cup {Size + 1}
    BY <1>2, <1>4, <1>6, <1>7 DEF ReachInv, ToSet
  <2> QED
    BY <1>2, <1>4, <1>8 DEF ReachInv
<1>14. BuildingInv'
  BY <1>2, <1>4, <1>6, <1>11, <1>12, <1>13 DEF BuildingInv
<1>15. BuilderInv' /\ finished'
  BY <1>1, <1>2 DEF builder, BuilderInv, BuilderTypes, ListsAreShort, LabelsHaveTheirCode, NothingDangles, Referenced
<1> QED
  BY <1>1, <1>2, <1>9, <1>10, <1>14, <1>15 DEF IInv, NeverThrows

-----------------------------------------------------------------------------
(***************************************************************************)
(* The last step: what all the groups together are.                        *)
(***************************************************************************)
\* Group g holds the codes from g to e, and control leaves it after e.
RunsTo(g, e) ==
    /\ Straight(g, e)
    /\ follows[g] = SourceNext(e)
    /\ codes[g] \in Seq(GroupItems)
    /\ \A j \in 1 .. e + 1 - g : codes[g][j] = Item(g + j - 1)
    /\ \/ /\ Jumps(e) \/ e = Size
          /\ Len(codes[g]) = e + 1 - g
       \/ /\ ~Jumps(e)
          /\ e < Size
          /\ HasLabel(e + 1)
          /\ Len(codes[g]) = e + 2 - g
          /\ codes[g][e + 2 - g] = NewGoto(source_codes[e + 1].label)

\* The recursion is over.
AllBuilt ==
    /\ BuilderInv /\ TypeInv /\ SourceInv /\ ReachInv
    /\ groups \subseteq Labelled
    /\ ToSet(basic_groups) = groups \cup {EntryGroup}
    /\ IsInjective(basic_groups)
    /\ \A g \in groups \cup {EntryGroup} : follows[g] \in Seq(groups)
    /\ \A g \in groups : \E e \in g .. Size : RunsTo(g, e)
    /\ [codes |-> codes[EntryGroup], next |-> follows[EntryGroup]] \in Entries

\* A group that has ended.
LEMMA EndedRuns ==
    ASSUME BuilderInv, TypeInv, SourceInv, NEW g,
           [group |-> g, codes |-> codes[g], next |-> follows[g]] \in Ended
    PROVE  \E e \in g .. Size : RunsTo(g, e)
<1> DEFINE x == [group |-> g, codes |-> codes[g], next |-> follows[g]]
<1>1. x.group = g /\ x.codes = codes[g] /\ x.next = follows[g]
  OBVIOUS
<1>2. x \in Ended
  OBVIOUS
<1> HIDE DEF x
<1>3. PICK e \in g .. Size : EndsAt(x, e)
  BY <1>1, <1>2 DEF Ended
<1>4. codes[g] \in Seq(GroupItems)
  BY <1>1, <1>2 DEF Ended
<1>5. Straight(g, e) /\ follows[g] = SourceNext(e)
  BY <1>1, <1>3 DEF EndsAt
<1>6. /\ First \in Nat /\ Size \in Nat /\ g \in First .. Size /\ g \in Nat /\ e \in Nat
      /\ e \in g - 1 .. Size
  <2>1. g \in First .. Size /\ First \in Nat /\ Size \in Nat
    BY <1>5, Numbers DEF Straight
  <2> QED
    BY <2>1
<1>7. PICK r : r = Run(g, e)
  OBVIOUS
<1>8. r \in Seq(GroupItems) /\ Len(r) = e + 1 - g /\ \A j \in 1 .. e + 1 - g : r[j] = Item(g + j - 1)
  BY <1>6, <1>7, RunOfCodes
<1>9. CASE (Jumps(e) \/ e = Size) /\ codes[g] = r
  BY <1>4, <1>5, <1>8, <1>9 DEF RunsTo
<1>10. CASE /\ ~Jumps(e) /\ e < Size /\ HasLabel(e + 1)
            /\ codes[g] = Append(r, NewGoto(source_codes[e + 1].label))
  <2>1. NewGoto(source_codes[e + 1].label) \in GroupItems
    <3>1. e + 1 \in 1 .. Size
      BY <1>6, <1>10
    <3>2. source_codes[e + 1].label \in Labels \cup {FirstLabel}
      BY <1>10, <3>1, Numbers DEF SourceCodes, HasLabel
    <3> QED
      BY <3>2 DEF NewGoto, GroupItems
  <2>2. /\ Len(codes[g]) = e + 1 - g + 1
        /\ \A j \in 1 .. e + 1 - g : codes[g][j] = r[j]
        /\ codes[g][e + 1 - g + 1] = NewGoto(source_codes[e + 1].label)
    BY <1>8, <1>10, <2>1, AppendProperties
  <2>3. e + 1 - g + 1 = e + 2 - g
    BY <1>6
  <2>4. /\ Len(codes[g]) = e + 2 - g /\ codes[g][e + 2 - g] = NewGoto(source_codes[e + 1].label)
        /\ \A j \in 1 .. e + 1 - g : codes[g][j] = Item(g + j - 1)
    BY <1>8, <2>2, <2>3
  <2> QED
    BY <1>4, <1>5, <1>10, <2>4 DEF RunsTo
<1>11. \/ (Jumps(e) \/ e = Size) /\ codes[g] = r
       \/ /\ ~Jumps(e) /\ e < Size /\ HasLabel(e + 1)
          /\ codes[g] = Append(r, NewGoto(source_codes[e + 1].label))
  BY <1>1, <1>3, <1>7 DEF EndsAt
<1> QED
  BY <1>9, <1>10, <1>11

\* When the entry has linked the first group, every group has ended.
LEMMA RecursionEnds ==
    ASSUME IInv, Linking, Frame.targets = <<>>, Len(stack) = 1
    PROVE  AllBuilt
<1>1. /\ BuildingInv /\ TypeInv /\ BuilderInv /\ SourceInv /\ GroupInv /\ ReachInv
      /\ Frame = stack[1] /\ FrameInv(1) /\ stack[1].group = EntryGroup
      /\ stack[1].targets = <<>>
      /\ EntryGroup \notin groups
  <2>1. 1 \in 1 .. Len(stack) /\ Frame = stack[Len(stack)]
    BY LinkingParts
  <2> QED
    BY <2>1, LinkingParts
<1>2. ToSet(basic_groups) = groups \cup {EntryGroup}
  <2>1. \A g \in groups : g \in ToSet(basic_groups)
    <3>1. \A f \in 1 .. 1 : f = 1
      OBVIOUS
    <3> QED
      BY <1>1, <3>1 DEF GroupInv
  <2>2. \A g \in ToSet(basic_groups) : g = EntryGroup \/ g \in groups
    BY <1>1 DEF GroupInv
  <2>3. EntryGroup \in ToSet(basic_groups)
    BY <1>1 DEF GroupInv
  <2> QED
    BY <2>1, <2>2, <2>3
<1>3. \A g \in groups : [group |-> g, codes |-> codes[g], next |-> follows[g]] \in Ended
  BY <1>1, <1>2 DEF GroupInv
<1>4. \A g \in groups : \E e \in g .. Size : RunsTo(g, e)
  BY <1>1, <1>3, EndedRuns
<1>5. [codes |-> codes[EntryGroup], next |-> follows[EntryGroup]] \in Entries
  <2>1. [codes |-> codes[EntryGroup], next |-> follows[EntryGroup] \o <<>>] \in Entries
    BY <1>1 DEF FrameInv
  <2>2. follows[EntryGroup] \o <<>> = follows[EntryGroup]
    <3>1. follows[EntryGroup] \in Seq(Positions)
      BY <1>1 DEF TypeInv
    <3> QED
      BY <3>1, ConcatEmptySeq
  <2> QED
    BY <2>1, <2>2
<1>6. \A g \in groups \cup {EntryGroup} : follows[g] \in Seq(groups)
  BY <1>1 DEF GroupInv, TypeInv
<1> QED
  BY <1>1, <1>2, <1>4, <1>5, <1>6 DEF AllBuilt, GroupInv

\* What is known of a group and the code control leaves it after.
LEMMA RunParts ==
    ASSUME AllBuilt, NEW g \in groups, NEW e \in g .. Size, RunsTo(g, e)
    PROVE  /\ g \in Labelled /\ g \in First .. Size /\ e \in First .. Size
           /\ First \in Nat \ {0} /\ Size \in Nat /\ g \in Nat \ {0} /\ e \in Nat
           /\ e + 1 - g \in Nat \ {0} /\ Len(codes[g]) \in {e + 1 - g, e + 2 - g}
           /\ DOMAIN codes[g] = 1 .. Len(codes[g])
           /\ \A n \in g + 1 .. e : n \notin Labelled
           /\ \A j \in 1 .. e + 1 - g : codes[g][j].pos = g + j - 1 /\ codes[g][j].to = source_codes[g + j - 1].to
           /\ \A j \in DOMAIN codes[g] : j \notin 1 .. e + 1 - g =>
                j = e + 2 - g /\ Len(codes[g]) = j /\ codes[g][j].pos = 0
           /\ codes[g] # <<>> /\ Head(codes[g]).pos = g
<1>1. /\ BuilderInv /\ TypeInv /\ SourceInv /\ g \in Labelled
  BY DEF AllBuilt
<1>2. /\ g \in First .. Size /\ First \in Nat \ {0} /\ Size \in Nat
  BY <1>1, Numbers
<1>3. /\ e \in First .. Size /\ g \in Nat \ {0} /\ e \in Nat /\ e + 1 - g \in Nat \ {0}
      /\ 1 \in 1 .. e + 1 - g /\ g + 1 - 1 = g
  BY <1>2
<1>4. Len(codes[g]) \in {e + 1 - g, e + 2 - g} /\ codes[g] \in Seq(GroupItems)
  BY DEF RunsTo
<1>5. DOMAIN codes[g] = 1 .. Len(codes[g])
  BY <1>4, LenProperties
<1>6. \A n \in g + 1 .. e : n \notin Labelled
  BY DEF RunsTo, Straight, Labelled
<1>7. \A j \in 1 .. e + 1 - g : codes[g][j].pos = g + j - 1 /\ codes[g][j].to = source_codes[g + j - 1].to
  <2> SUFFICES ASSUME NEW j \in 1 .. e + 1 - g
               PROVE  codes[g][j].pos = g + j - 1 /\ codes[g][j].to = source_codes[g + j - 1].to
    OBVIOUS
  <2>1. codes[g][j] = Item(g + j - 1)
    BY DEF RunsTo
  <2> QED
    BY <2>1 DEF Item
<1>8. \A j \in DOMAIN codes[g] : j \notin 1 .. e + 1 - g =>
        j = e + 2 - g /\ Len(codes[g]) = j /\ codes[g][j].pos = 0
  <2> SUFFICES ASSUME NEW j \in 1 .. Len(codes[g]), j \notin 1 .. e + 1 - g
               PROVE  j = e + 2 - g /\ Len(codes[g]) = j /\ codes[g][j].pos = 0
    BY <1>5
  <2>1. Len(codes[g]) = e + 2 - g /\ j = e + 2 - g
    BY <1>3, <1>4
  <2>2. Len(codes[g]) # e + 1 - g
    BY <1>3, <2>1
  <2>3. codes[g][e + 2 - g] = NewGoto(source_codes[e + 1].label)
    BY <2>2 DEF RunsTo
  <2> QED
    BY <2>1, <2>3 DEF NewGoto
<1>9. codes[g] # <<>>
  <2>1. Len(codes[g]) # 0
    BY <1>3, <1>4
  <2> QED
    BY <2>1, EmptySeq
<1>10. Head(codes[g]) = codes[g][1]
  BY <1>4, <1>9, HeadTailProperties
<1>11. codes[g][1].pos = g
  BY <1>3, <1>7
<1> QED
  BY <1>1, <1>2, <1>3, <1>4, <1>5, <1>6, <1>7, <1>8, <1>9, <1>10, <1>11

\* Groups start with their own code.
LEMMA FirstCodes ==
    ASSUME AllBuilt, NEW g \in groups
    PROVE  /\ codes[g] # <<>> /\ Head(codes[g]).pos = g
           /\ 1 \in DOMAIN codes[g] /\ codes[g][1].pos = g
           /\ g \in Positions /\ g \in Labelled /\ g # EntryGroup /\ g # 0
<1>1. PICK e \in g .. Size : RunsTo(g, e)
  BY DEF AllBuilt
<1>2. /\ codes[g] # <<>> /\ Head(codes[g]).pos = g
      /\ DOMAIN codes[g] = 1 .. Len(codes[g]) /\ e + 1 - g \in Nat \ {0}
      /\ Len(codes[g]) \in {e + 1 - g, e + 2 - g}
      /\ codes[g] \in Seq(GroupItems) /\ g \in Nat /\ e \in Nat
  BY <1>1, RunParts DEF RunsTo
<1>3. Head(codes[g]) = codes[g][1]
  BY <1>2, HeadTailProperties
<1>4. 1 \in DOMAIN codes[g]
  BY <1>2
<1>5. g \in Positions /\ g \in Labelled /\ EntryGroup \notin Positions
  BY Numbers DEF AllBuilt
<1> QED
  BY <1>2, <1>3, <1>4, <1>5 DEF EntryGroup

\* The position that codes[g][j] has, and where control goes after it.
LEMMA GroupsKeepTheFlow ==
    ASSUME AllBuilt, NEW g \in groups, NEW j \in DOMAIN codes[g], codes[g][j].pos # 0
    PROVE  /\ GroupNext(g, j) = SourceNext(codes[g][j].pos)
           /\ codes[g][j].pos \in First .. Size
           /\ codes[g][j].pos \in Positions /\ j \in Positions
           /\ SourceNext(codes[g][j].pos) = follows[g]
                \/ \E i \in DOMAIN codes[g] : codes[g][i].pos # 0 /\ SourceNext(codes[g][j].pos) = <<codes[g][i].pos>>
<1>1. PICK e \in g .. Size : RunsTo(g, e)
  BY DEF AllBuilt
<1>2. /\ g \in Labelled /\ g \in First .. Size /\ e \in First .. Size
      /\ First \in Nat \ {0} /\ Size \in Nat /\ g \in Nat \ {0} /\ e \in Nat
      /\ Len(codes[g]) \in {e + 1 - g, e + 2 - g}
      /\ DOMAIN codes[g] = 1 .. Len(codes[g])
      /\ \A i \in 1 .. e + 1 - g : codes[g][i].pos = g + i - 1
      /\ \A i \in DOMAIN codes[g] : i \notin 1 .. e + 1 - g =>
           i = e + 2 - g /\ Len(codes[g]) = i /\ codes[g][i].pos = 0
  BY SMTT(30), <1>1, RunParts
<1>3. j \in 1 .. e + 1 - g
  BY <1>2
<1>4. PICK n : n = g + j - 1
  OBVIOUS
<1>5. codes[g][j].pos = n /\ n \in First .. Size /\ n \in g .. e /\ n \in Nat
  BY <1>2, <1>3, <1>4
<1>6. BuilderInv /\ TypeInv /\ SourceInv
  BY DEF AllBuilt
<1>7. n \in Positions /\ j \in Positions
  <2>1. Capacity \in Nat /\ Positions = 1 .. Capacity /\ Size <= Capacity
    BY <1>6, Numbers
  <2> QED
    BY <1>2, <1>3, <1>4, <1>5, <2>1
<1>8. CASE j < e + 1 - g
  <2>1. /\ j + 1 \in 1 .. e + 1 - g /\ j + 1 \in DOMAIN codes[g] /\ j < Len(codes[g])
        /\ g + (j + 1) - 1 = n + 1 /\ n + 1 # 0 /\ n \in g .. e - 1 /\ n < Size
    BY <1>2, <1>3, <1>4, <1>5, <1>8
  <2>2. codes[g][j + 1].pos = n + 1
    BY <1>2, <2>1
  <2>3. GroupNext(g, j) = <<n + 1>>
    BY <2>1, <2>2 DEF GroupNext
  <2>4. ~Jumps(n)
    BY <1>1, <2>1 DEF RunsTo, Straight
  <2>5. SourceNext(n) = <<n + 1>>
    BY <1>5, <1>6, <2>1, <2>4, NextOfCode
  <2> QED
    BY <1>5, <1>7, <2>1, <2>2, <2>3, <2>5
<1>9. CASE j = e + 1 - g
  <2>1. n = e
    BY <1>2, <1>4, <1>9
  <2>2. SourceNext(n) = follows[g]
    BY <1>1, <2>1 DEF RunsTo
  <2>3. ~(j < Len(codes[g]) /\ codes[g][j + 1].pos # 0)
    <3> SUFFICES ASSUME j < Len(codes[g]) PROVE codes[g][j + 1].pos = 0
      OBVIOUS
    <3>1. j + 1 \in DOMAIN codes[g] /\ j + 1 \notin 1 .. e + 1 - g
      BY <1>2, <1>9
    <3> QED
      BY <1>2, <3>1
  <2>4. [k \in DOMAIN follows[g] |-> Head(codes[follows[g][k]]).pos] = follows[g]
    <3>1. follows[g] \in Seq(groups)
      BY DEF AllBuilt
    <3>2. DOMAIN follows[g] = 1 .. Len(follows[g]) /\ follows[g] \in [1 .. Len(follows[g]) -> groups]
      BY <3>1, LenProperties
    <3>3. \A k \in DOMAIN follows[g] : Head(codes[follows[g][k]]).pos = follows[g][k]
      <4> SUFFICES ASSUME NEW k \in DOMAIN follows[g] PROVE Head(codes[follows[g][k]]).pos = follows[g][k]
        OBVIOUS
      <4>1. follows[g][k] \in groups
        BY <3>2
      <4> QED
        BY <4>1, FirstCodes
    <3> QED
      BY <3>2, <3>3
  <2>5. GroupNext(g, j) = follows[g]
    BY <2>3, <2>4 DEF GroupNext
  <2> QED
    BY <1>5, <1>7, <2>2, <2>5
<1> QED
  BY <1>2, <1>3, <1>8, <1>9

\* The entry holds no code that control runs, and leads to the first.
LEMMA EntryParts ==
    ASSUME AllBuilt
    PROVE  /\ \A j \in DOMAIN codes[EntryGroup] : codes[EntryGroup][j].pos \notin First .. Size
           /\ First <= Size => First \in groups
           /\ \A j \in 1 .. Len(codes[EntryGroup]) - 1 : codes[EntryGroup][j].to = <<>>
           /\ codes[EntryGroup] # <<>> =>
                IF First <= Size
                THEN /\ Last(codes[EntryGroup]).to = <<source_codes[First].label>>
                     /\ follows[EntryGroup] = <<First>>
                ELSE /\ Last(codes[EntryGroup]).to = <<>>
                     /\ follows[EntryGroup] = <<>>
<1> DEFINE allocas == [n \in 1 .. Before |-> [pos |-> n, to |-> <<>>]]
<1>1. BuilderInv /\ TypeInv /\ SourceInv
  BY DEF AllBuilt
<1>2. Before \in Nat /\ First = Before + 1 /\ Size \in Nat /\ First \in Nat
  BY <1>1, Numbers DEF First
<1>3. IF First <= Size
      THEN /\ codes[EntryGroup] = Append(allocas, NewGoto(source_codes[First].label))
           /\ follows[EntryGroup] = <<First>>
      ELSE /\ codes[EntryGroup] = allocas
           /\ follows[EntryGroup] = <<>>
  BY DEF AllBuilt, Entries
<1>4. /\ allocas \in Seq([pos : Nat, to : {<<>>}]) /\ Len(allocas) = Before /\ DOMAIN allocas = 1 .. Before
      /\ \A n \in 1 .. Before : allocas[n] = [pos |-> n, to |-> <<>>]
  <2>1. allocas \in [1 .. Before -> [pos : Nat, to : {<<>>}]]
    BY <1>2
  <2> QED
    BY <1>2, <2>1, FunctionIsSequence
<1> HIDE DEF allocas
<1>5. CASE ~(First <= Size)
  <2>1. \A j \in 1 .. Before : codes[EntryGroup][j].to = <<>> /\ codes[EntryGroup][j].pos = j
    BY <1>3, <1>4, <1>5
  <2>2. Len(codes[EntryGroup]) = Before /\ DOMAIN codes[EntryGroup] = 1 .. Before
    BY <1>3, <1>4, <1>5
  <2>3. \A j \in 1 .. Before : j \notin First .. Size
    BY <1>2
  <2>4. codes[EntryGroup] # <<>> => Last(codes[EntryGroup]).to = <<>>
    <3> SUFFICES ASSUME codes[EntryGroup] # <<>> PROVE Last(codes[EntryGroup]).to = <<>>
      OBVIOUS
    <3>1. Before # 0
      BY <1>3, <1>4, <1>5, EmptySeq
    <3>2. Before \in 1 .. Before
      BY <1>2, <3>1
    <3> QED
      BY <2>1, <2>2, <3>2 DEF Last
  <2>5. 1 .. Before - 1 \subseteq 1 .. Before
    BY <1>2
  <2> QED
    BY <1>3, <1>5, <2>1, <2>2, <2>3, <2>4, <2>5
<1>6. CASE First <= Size
  <2> DEFINE S == [pos : Nat, to : Seq(Labels \cup {FirstLabel})]
  <2>1. NewGoto(source_codes[First].label) \in S
    <3>1. First \in 1 .. Size /\ HasLabel(First)
      BY <1>1, <1>2, <1>6 DEF SourceInv
    <3>2. source_codes[First].label \in Labels \cup {FirstLabel}
      BY <1>1, <3>1, Numbers DEF SourceCodes, HasLabel
    <3> QED
      BY <3>2 DEF NewGoto
  <2>2. allocas \in Seq(S)
    <3>1. [pos : Nat, to : {<<>>}] \subseteq S
      BY EmptySeq
    <3> QED
      BY <1>4, <3>1, SeqMonotonic
  <2> HIDE DEF S
  <2>3. PICK c : c = codes[EntryGroup]
    OBVIOUS
  <2>4. PICK goto : goto = NewGoto(source_codes[First].label)
    OBVIOUS
  <2>5. /\ c \in Seq(S) /\ Len(c) = Before + 1
        /\ \A j \in 1 .. Before : c[j] = allocas[j]
        /\ c[Before + 1] = goto
    <3>1. c = Append(allocas, goto) /\ goto \in S
      BY <1>3, <1>6, <2>1, <2>3, <2>4
    <3> QED
      BY <1>4, <2>2, <3>1, AppendProperties
  <2>6. DOMAIN c = 1 .. Before + 1
    BY <2>5, LenProperties
  <2>7. \A j \in 1 .. Before : c[j].to = <<>> /\ c[j].pos = j
    BY <1>4, <2>5
  <2>8. c[Before + 1].pos = 0 /\ Last(c).to = <<source_codes[First].label>>
    BY <2>4, <2>5 DEF NewGoto, Last
  <2>9. \A j \in 1 .. Before + 1 : j # Before + 1 => j \in 1 .. Before
    BY <1>2
  <2>10. (\A j \in 1 .. Before : j \notin First .. Size) /\ 0 \notin First .. Size
    BY <1>2
  <2>11. \A j \in DOMAIN c : c[j].pos \notin First .. Size
    BY <2>6, <2>7, <2>8, <2>9, <2>10
  <2>12. \A j \in 1 .. Len(c) - 1 : c[j].to = <<>>
    <3>1. \A j \in 1 .. Len(c) - 1 : j \in 1 .. Before
      BY <1>2, <2>5
    <3> QED
      BY <2>7, <3>1
  <2>13. First \in groups
    <3>1. <<First>> \in Seq(groups)
      BY <1>3, <1>6 DEF AllBuilt
    <3>2. Len(<<First>>) = 1 /\ <<First>>[1] = First
      OBVIOUS
    <3> QED
      BY <3>1, <3>2, ElementOfSeq
  <2> QED
    BY <1>3, <1>6, <2>3, <2>8, <2>11, <2>12, <2>13
<1> QED
  BY <1>5, <1>6

\* Where the groups hold codes, and which.
Places == {p \in groups \X Positions : p[2] \in DOMAIN codes[p[1]] /\ codes[p[1]][p[2]].pos # 0}
Placed == {codes[p[1]][p[2]].pos : p \in Places}

\* The codes in the groups are those control can reach.
LEMMA PlacedIsReached ==
    ASSUME AllBuilt
    PROVE  /\ Placed \subseteq First .. Size
           /\ ClosedUnderNext(Placed)
           /\ \A S \in ClosedSets : Placed \subseteq S
<1>1. \A g \in groups : \A j \in DOMAIN codes[g] : codes[g][j].pos # 0 =>
        /\ j \in Positions
        /\ codes[g][j].pos \in Placed
  <2> SUFFICES ASSUME NEW g \in groups, NEW j \in DOMAIN codes[g], codes[g][j].pos # 0
               PROVE  j \in Positions /\ codes[g][j].pos \in Placed
    OBVIOUS
  <2>1. j \in Positions
    BY GroupsKeepTheFlow
  <2>2. <<g, j>> \in Places
    BY <2>1 DEF Places
  <2>3. codes[g][j].pos = codes[<<g, j>>[1]][<<g, j>>[2]].pos
    OBVIOUS
  <2> QED
    BY <2>1, <2>2, <2>3 DEF Placed
<1>2. \A n \in Placed : \E g \in groups : \E j \in DOMAIN codes[g] : codes[g][j].pos # 0 /\ n = codes[g][j].pos
  BY DEF Placed, Places
<1>3. Placed \subseteq First .. Size
  BY <1>2, GroupsKeepTheFlow
<1>4. groups \subseteq Placed
  <2> SUFFICES ASSUME NEW g \in groups PROVE g \in Placed
    OBVIOUS
  <2>1. 1 \in DOMAIN codes[g] /\ codes[g][1].pos = g /\ g # 0
    BY FirstCodes
  <2> QED
    BY <1>1, <2>1
<1>5. {Len(alloca_list) + 1} \cap DOMAIN source_codes \subseteq Placed
  <2>1. Len(alloca_list) + 1 = First
    BY DEF First, Before
  <2>2. DOMAIN source_codes = 1 .. Size /\ Size \in Nat /\ First \in Nat
    BY Numbers DEF AllBuilt
  <2>3. First \in DOMAIN source_codes => First \in groups
    BY <2>2, EntryParts
  <2> QED
    BY <1>4, <2>1, <2>3
<1>6. ASSUME NEW n \in Placed PROVE ToSet(SourceNext(n)) \subseteq Placed
  <2>1. PICK g \in groups : \E j \in DOMAIN codes[g] : codes[g][j].pos # 0 /\ n = codes[g][j].pos
    BY <1>2
  <2>2. PICK j \in DOMAIN codes[g] : codes[g][j].pos # 0 /\ n = codes[g][j].pos
    BY <2>1
  <2>3. \/ SourceNext(n) = follows[g]
        \/ \E i \in DOMAIN codes[g] : codes[g][i].pos # 0 /\ SourceNext(n) = <<codes[g][i].pos>>
    BY <2>2, GroupsKeepTheFlow
  <2>4. CASE SourceNext(n) = follows[g]
    <3>1. follows[g] \in Seq(groups)
      BY DEF AllBuilt
    <3>2. ToSet(follows[g]) \subseteq groups
      BY <3>1, RangeOfSequence
    <3> QED
      BY <1>4, <2>4, <3>2
  <2>5. ASSUME NEW i \in DOMAIN codes[g], codes[g][i].pos # 0, SourceNext(n) = <<codes[g][i].pos>>
        PROVE  ToSet(SourceNext(n)) \subseteq Placed
    <3>1. codes[g][i].pos \in Placed
      BY <1>1, <2>5
    <3>2. <<codes[g][i].pos>> \in Seq(Placed)
      BY <3>1
    <3> QED
      BY <2>5, <3>2, RangeOfSequence
  <2> QED
    BY <2>3, <2>4, <2>5
<1>7. ASSUME NEW S \in ClosedSets PROVE Placed \subseteq S
  <2>1. \A g \in groups : \A j \in DOMAIN codes[g] : codes[g][j].pos \in S \cup {0}
    BY DEF AllBuilt, ReachInv
  <2> QED
    BY <1>2, <2>1
<1> QED
  BY <1>3, <1>5, <1>6, <1>7 DEF ClosedUnderNext

\* No code is in two groups, nor twice in one.
LEMMA PlacesDiffer ==
    ASSUME AllBuilt,
           NEW g \in groups, NEW i \in DOMAIN codes[g], codes[g][i].pos # 0,
           NEW h \in groups, NEW j \in DOMAIN codes[h], codes[g][i].pos = codes[h][j].pos
    PROVE  g = h /\ i = j
<1>1. PICK d \in g .. Size : RunsTo(g, d)
  BY DEF AllBuilt
<1>2. PICK e \in h .. Size : RunsTo(h, e)
  BY DEF AllBuilt
<1>3. /\ g \in Labelled /\ g \in Nat \ {0} /\ d \in Nat
      /\ \A n \in g + 1 .. d : n \notin Labelled
      /\ i \in 1 .. d + 1 - g /\ codes[g][i].pos = g + i - 1
  <2>1. /\ g \in Labelled /\ g \in Nat \ {0} /\ d \in Nat
        /\ \A n \in g + 1 .. d : n \notin Labelled
    BY <1>1, RunParts
  <2>2. i \in 1 .. d + 1 - g
    BY SMTT(30), <1>1, RunParts
  <2>3. \A k \in 1 .. d + 1 - g : codes[g][k].pos = g + k - 1
    BY <1>1, RunParts
  <2> QED
    BY <2>1, <2>2, <2>3
<1>4. /\ h \in Labelled /\ h \in Nat \ {0} /\ e \in Nat
      /\ \A n \in h + 1 .. e : n \notin Labelled
      /\ j \in 1 .. e + 1 - h /\ codes[h][j].pos = h + j - 1
  <2>1. /\ h \in Labelled /\ h \in Nat \ {0} /\ e \in Nat
        /\ \A n \in h + 1 .. e : n \notin Labelled
    BY <1>2, RunParts
  <2>2. j \in 1 .. e + 1 - h
    BY SMTT(30), <1>2, RunParts
  <2>3. \A k \in 1 .. e + 1 - h : codes[h][k].pos = h + k - 1
    BY <1>2, RunParts
  <2> QED
    BY <2>1, <2>2, <2>3
<1>5. g + i - 1 = h + j - 1 /\ i \in Nat \ {0} /\ j \in Nat \ {0}
      /\ g + i - 1 <= d /\ h + j - 1 <= e
  <2>1. i \in Nat \ {0} /\ i <= d + 1 - g /\ j \in Nat \ {0} /\ j <= e + 1 - h
    BY <1>3, <1>4
  <2>2. g + i - 1 = h + j - 1
    BY <1>3, <1>4
  <2> QED
    BY <1>3, <1>4, <2>1, <2>2
<1>6. ~(g < h)
  <2> SUFFICES ASSUME g < h PROVE FALSE
    OBVIOUS
  <2>1. h \in g + 1 .. d
    BY <1>3, <1>4, <1>5
  <2> QED
    BY <1>3, <1>4, <2>1
<1>7. ~(h < g)
  <2> SUFFICES ASSUME h < g PROVE FALSE
    OBVIOUS
  <2>1. g \in h + 1 .. e
    BY <1>3, <1>4, <1>5
  <2> QED
    BY <1>3, <1>4, <2>1
<1> QED
  BY <1>3, <1>4, <1>5, <1>6, <1>7

\* The codes a group ends with name the groups after it, if those keep the labels
\* their first codes have had.
LEMMA LastCodesNameGroups ==
    ASSUME AllBuilt, NEW labels, \A h \in groups : labels[h] = source_codes[h].label,
           NEW g \in groups \cup {EntryGroup}
    PROVE  /\ \A j \in 1 .. Len(codes[g]) - 1 : codes[g][j].to = <<>>
           /\ codes[g] # <<>> => Last(codes[g]).to = [k \in DOMAIN follows[g] |-> labels[follows[g][k]]]
<1> DEFINE names(s) == [k \in DOMAIN s |-> labels[s[k]]]
<1>0. BuilderInv /\ TypeInv /\ SourceInv
  BY DEF AllBuilt
<1>1. names(<<>>) = <<>>
  BY EmptySeq, LenProperties
<1>2. ASSUME NEW h \in groups PROVE names(<<h>>) = <<source_codes[h].label>>
  <2>1. DOMAIN <<h>> = {1} /\ <<h>>[1] = h /\ labels[h] = source_codes[h].label
    OBVIOUS
  <2>2. names(<<h>>) = [k \in {1} |-> source_codes[h].label]
    BY <2>1
  <2>3. [k \in {1} |-> source_codes[h].label] = <<source_codes[h].label>>
    OBVIOUS
  <2> QED
    BY <2>2, <2>3
<1>3. CASE g = EntryGroup
  <2>1. \A j \in 1 .. Len(codes[g]) - 1 : codes[g][j].to = <<>>
    BY <1>3, EntryParts
  <2>2. ASSUME codes[g] # <<>> PROVE Last(codes[g]).to = names(follows[g])
    <3>1. CASE First <= Size
      <4>1. Last(codes[g]).to = <<source_codes[First].label>> /\ follows[g] = <<First>> /\ First \in groups
        BY <1>3, <2>2, <3>1, EntryParts
      <4>2. names(<<First>>) = <<source_codes[First].label>>
        BY <1>2, <4>1
      <4> QED
        BY <4>1, <4>2
    <3>2. CASE ~(First <= Size)
      <4>1. Last(codes[g]).to = <<>> /\ follows[g] = <<>>
        BY <1>3, <2>2, <3>2, EntryParts
      <4> QED
        BY <1>1, <4>1
    <3> QED
      BY <3>1, <3>2
  <2> QED
    BY <2>1, <2>2
<1>4. CASE g \in groups
  <2>1. PICK e \in g .. Size : RunsTo(g, e)
    BY <1>4 DEF AllBuilt
  <2>2. /\ g \in First .. Size /\ e \in First .. Size
        /\ First \in Nat \ {0} /\ Size \in Nat /\ g \in Nat \ {0} /\ e \in Nat
        /\ e + 1 - g \in Nat \ {0} /\ Len(codes[g]) \in {e + 1 - g, e + 2 - g}
        /\ \A j \in 1 .. e + 1 - g : codes[g][j].to = source_codes[g + j - 1].to
    BY <1>4, <2>1, RunParts
  <2>3. ASSUME NEW n \in g .. e, ~Jumps(n) PROVE source_codes[n].to = <<>>
    <3>1. n \in First .. Size
      BY <2>2
    <3> QED
      BY <1>0, <2>3, <3>1, NextOfCode
  <2>4. ASSUME NEW j \in 1 .. e + 1 - g, g + j - 1 < e \/ ~Jumps(e) PROVE codes[g][j].to = <<>>
    <3>1. g + j - 1 \in g .. e
      BY <2>2
    <3>2. ~Jumps(g + j - 1)
      <4>1. \A n \in g .. e - 1 : ~Jumps(n)
        BY <2>1 DEF RunsTo, Straight
      <4>2. g + j - 1 < e => g + j - 1 \in g .. e - 1
        BY <2>2
      <4>3. ~(g + j - 1 < e) => g + j - 1 = e
        BY <2>2
      <4> QED
        BY <2>4, <4>1, <4>2, <4>3
    <3> QED
      BY <2>2, <2>3, <3>1, <3>2
  <2>5. CASE (Jumps(e) \/ e = Size) /\ Len(codes[g]) = e + 1 - g
    <3>1. \A j \in 1 .. Len(codes[g]) - 1 : codes[g][j].to = <<>>
      <4>1. \A j \in 1 .. Len(codes[g]) - 1 : j \in 1 .. e + 1 - g /\ g + j - 1 < e
        BY <2>2, <2>5
      <4> QED
        BY <2>4, <4>1
    <3>2. Last(codes[g]).to = source_codes[e].to
      <4>1. e + 1 - g \in 1 .. e + 1 - g /\ g + (e + 1 - g) - 1 = e
        BY <2>2
      <4> QED
        BY <2>2, <2>5, <4>1 DEF Last
    <3>3. source_codes[e].to = names(follows[g])
      <4>1. follows[g] = SourceNext(e)
        BY <2>1 DEF RunsTo
      <4>2. CASE Jumps(e)
        <5>1. SourceNext(e) = [t \in DOMAIN source_codes[e].to |-> PositionOf(source_codes[e].to[t])]
          BY <1>0, <2>2, <4>2, NextOfCode
        <5>2. source_codes[e].to \in Seq(Labels)
          BY <1>0, <2>2, NextOfCode
        <5>3. PICK to : to = source_codes[e].to
          OBVIOUS
        <5>4. /\ follows[g] = [t \in DOMAIN to |-> PositionOf(to[t])]
              /\ DOMAIN follows[g] = DOMAIN to
          BY <4>1, <5>1, <5>3
        <5>5. ASSUME NEW t \in DOMAIN to PROVE labels[follows[g][t]] = to[t]
          <6>1. follows[g][t] = PositionOf(to[t])
            BY <5>4
          <6>2. follows[g][t] \in groups
            <7>1. follows[g] \in Seq(groups)
              BY DEF AllBuilt
            <7>2. DOMAIN follows[g] = 1 .. Len(follows[g]) /\ follows[g] \in [1 .. Len(follows[g]) -> groups]
              BY <7>1, LenProperties
            <7> QED
              BY <5>4, <7>2
          <6>3. source_codes[PositionOf(to[t])].label = to[t]
            BY <1>0, <2>2, <5>3 DEF SourceInv
          <6> QED
            BY <6>1, <6>2, <6>3
        <5>6. names(follows[g]) = [t \in DOMAIN to |-> to[t]]
          BY <5>4, <5>5
        <5>7. to = [t \in DOMAIN to |-> to[t]]
          BY <5>2, <5>3, LenProperties
        <5> QED
          BY <5>3, <5>6, <5>7
      <4>3. CASE ~Jumps(e)
        <5>1. SourceNext(e) = <<>> /\ source_codes[e].to = <<>>
          BY <1>0, <2>2, <2>5, <4>3, NextOfCode
        <5> QED
          BY <1>1, <4>1, <5>1
      <4> QED
        BY <4>2, <4>3
    <3> QED
      BY <3>1, <3>2, <3>3
  <2>6. CASE /\ ~Jumps(e) /\ e < Size /\ HasLabel(e + 1)
             /\ Len(codes[g]) = e + 2 - g
             /\ codes[g][e + 2 - g] = NewGoto(source_codes[e + 1].label)
    <3>1. \A j \in 1 .. Len(codes[g]) - 1 : codes[g][j].to = <<>>
      <4>1. \A j \in 1 .. Len(codes[g]) - 1 : j \in 1 .. e + 1 - g
        BY <2>2, <2>6
      <4> QED
        BY <2>4, <2>6, <4>1
    <3>2. Last(codes[g]).to = <<source_codes[e + 1].label>>
      BY <2>6 DEF Last, NewGoto
    <3>3. follows[g] = <<e + 1>>
      <4>1. follows[g] = SourceNext(e)
        BY <2>1 DEF RunsTo
      <4> QED
        BY <1>0, <2>2, <2>6, <4>1, NextOfCode
    <3>4. e + 1 \in groups
      <4>1. <<e + 1>> \in Seq(groups)
        BY <3>3 DEF AllBuilt
      <4>2. Len(<<e + 1>>) = 1 /\ <<e + 1>>[1] = e + 1
        OBVIOUS
      <4> QED
        BY <4>1, <4>2, ElementOfSeq
    <3>5. names(<<e + 1>>) = <<source_codes[e + 1].label>>
      BY <1>2, <3>4
    <3> QED
      BY <3>1, <3>2, <3>3, <3>5
  <2> QED
    BY <2>1, <2>5, <2>6 DEF RunsTo
<1> QED
  BY <1>3, <1>4

\* Taking the labels off the first codes leaves the order of the codes as it was.
LEMMA FlowIsFrozen ==
    ASSUME BuilderInv, TypeInv, UNCHANGED builder,
           source_codes' = [n \in DOMAIN source_codes |->
                              IF n \in groups THEN [source_codes[n] EXCEPT !.label = NoLabel]
                              ELSE source_codes[n]]
    PROVE  /\ source_codes' \in Seq(SourceCodes)
           /\ DOMAIN source_codes' = DOMAIN source_codes /\ Size' = Size
           /\ \A n \in DOMAIN source_codes : SourceNext(n)' = SourceNext(n)
           /\ \A S \in SUBSET DOMAIN source_codes : ClosedUnderNext(S)' <=> ClosedUnderNext(S)
<1>1. /\ Size \in Nat /\ DOMAIN source_codes = 1 .. Size
      /\ \A n \in 1 .. Size : source_codes[n] \in SourceCodes
  BY Numbers
<1>2. ASSUME NEW n \in 1 .. Size
      PROVE  /\ source_codes'[n] \in SourceCodes
             /\ source_codes'[n].kind = source_codes[n].kind
             /\ source_codes'[n].to = source_codes[n].to
  <2>1. PICK c : c = source_codes[n]
    OBVIOUS
  <2>2. c \in SourceCodes
    BY <1>1, <2>1
  <2>3. source_codes'[n] = IF n \in groups THEN [c EXCEPT !.label = NoLabel] ELSE c
    BY <1>1, <2>1
  <2>4. [c EXCEPT !.label = NoLabel] \in SourceCodes
        /\ [c EXCEPT !.label = NoLabel].kind = c.kind /\ [c EXCEPT !.label = NoLabel].to = c.to
    BY <2>2 DEF SourceCodes
  <2> QED
    BY <2>1, <2>2, <2>3, <2>4
<1>3. PICK s : s = source_codes'
  OBVIOUS
<1>4. s \in Seq(SourceCodes) /\ DOMAIN s = 1 .. Size /\ Len(s) = Size
  <2>1. s = [n \in 1 .. Size |-> s[n]]
    BY <1>1, <1>3
  <2>2. s \in [1 .. Size -> SourceCodes]
    BY <1>2, <1>3, <2>1
  <2> QED
    BY <1>1, <2>2, FunctionIsSequence
<1>5. Size' = Size /\ DOMAIN source_codes' = DOMAIN source_codes
  BY <1>1, <1>3, <1>4 DEF Size
<1>6. \A l : PositionOf(l)' = PositionOf(l)
  BY <1>5 DEF PositionOf, builder
<1>7. ASSUME NEW n \in DOMAIN source_codes PROVE SourceNext(n)' = SourceNext(n)
  <2>1. /\ source_codes'[n].kind = source_codes[n].kind
        /\ source_codes'[n].to = source_codes[n].to
        /\ Len(source_codes') = Len(source_codes)
    BY <1>1, <1>2, <1>5 DEF Size
  <2> QED
    BY <1>6, <2>1 DEF SourceNext
<1>8. ASSUME NEW S \in SUBSET DOMAIN source_codes PROVE ClosedUnderNext(S)' <=> ClosedUnderNext(S)
  <2>1. \A n \in S : ToSet(SourceNext(n))' = ToSet(SourceNext(n))
    BY <1>7 DEF ToSet
  <2> QED
    BY <1>5, <2>1 DEF ClosedUnderNext, builder
<1> QED
  BY <1>3, <1>4, <1>5, <1>7, <1>8

\* When the entry is linked all groups are complete, and they are what control reaches.
LEMMA FinishBuildIInv == IInv /\ FinishBuild => IInv'
<1> SUFFICES ASSUME IInv, FinishBuild PROVE IInv'
  OBVIOUS
<1>1. /\ Linking /\ Frame.targets = <<>> /\ Len(stack) = 1
      /\ stack' = <<>>
      /\ UNCHANGED <<builder, groups, codes, edges, basic_groups>>
  BY DEF FinishBuild
<1>2. AllBuilt /\ BuilderInv /\ TypeInv /\ SourceInv /\ Mirrored /\ finished
  BY <1>1, RecursionEnds, LinkingParts DEF AllBuilt
<1> DEFINE built == ToSet(basic_groups)
           starts == {g \in groups : g \in built}
           Holds(g, n) == \E j \in DOMAIN codes[g] : codes[g][j].pos = n
<1>3. built = groups \cup {EntryGroup} /\ starts = groups
  BY <1>2 DEF AllBuilt
<1>4. \A g \in groups : Head(codes[g]).pos = g /\ HasLabel(g) /\ g \in Positions /\ g # EntryGroup
  BY <1>2, FirstCodes DEF Labelled
<1>5. status' = "built"
  <2>1. \A g \in starts : HasLabel(Head(codes[g]).pos)
    BY <1>3, <1>4
  <2> QED
    BY <2>1 DEF FinishBuild
<1>6. DOMAIN group_label' = {EntryGroup} \cup Positions
      /\ \A h \in groups : group_label'[h] = source_codes[h].label
  <2>1. DOMAIN group_label = {EntryGroup} \cup Positions
    BY <1>2 DEF TypeInv
  <2>2. group_label' = [g \in DOMAIN group_label |->
                          IF g = EntryGroup THEN EntryLabel
                          ELSE IF g \in starts THEN source_codes[Head(codes[g]).pos].label
                          ELSE NoLabel]
    BY DEF FinishBuild
  <2> QED
    BY <1>3, <1>4, <2>1, <2>2
<1>7. source_codes' = [n \in DOMAIN source_codes |->
                          IF n \in groups THEN [source_codes[n] EXCEPT !.label = NoLabel]
                          ELSE source_codes[n]]
  <2>1. source_codes' = [n \in DOMAIN source_codes |->
                          IF \E g \in starts : n = Head(codes[g]).pos
                          THEN [source_codes[n] EXCEPT !.label = NoLabel]
                          ELSE source_codes[n]]
    BY DEF FinishBuild
  <2>2. \A n : (\E g \in starts : n = Head(codes[g]).pos) <=> n \in groups
    BY <1>3, <1>4
  <2> QED
    BY <2>1, <2>2
<1>8. group_of' = [n \in Positions |-> IF \E g \in built : Holds(g, n)
                                       THEN CHOOSE g \in built : Holds(g, n) ELSE NoGroup]
  BY DEF FinishBuild
<1>9. /\ source_codes' \in Seq(SourceCodes)
      /\ DOMAIN source_codes' = DOMAIN source_codes /\ Size' = Size
      /\ \A n \in DOMAIN source_codes : SourceNext(n)' = SourceNext(n)
      /\ \A S \in SUBSET DOMAIN source_codes : ClosedUnderNext(S)' <=> ClosedUnderNext(S)
  BY <1>1, <1>2, <1>7, FlowIsFrozen
<1>10. /\ First \in Nat /\ Size \in Nat /\ DOMAIN source_codes = 1 .. Size
       /\ First .. Size \subseteq DOMAIN source_codes /\ First .. Size \subseteq Positions
       /\ 0 \notin First .. Size
  <2>1. /\ First \in Nat \ {0} /\ Size \in Nat /\ DOMAIN source_codes = 1 .. Size
        /\ First .. Size \subseteq Positions
    BY <1>2, Numbers
  <2> QED
    BY <2>1
<1>11. UNCHANGED <<groups, codes, follows, precedes, basic_groups>>
  BY <1>1 DEF edges
<1>12. group_of' \in [Positions -> {EntryGroup, NoGroup} \cup Positions]
  <2>1. \A n \in Positions : (\E g \in built : Holds(g, n)) => (CHOOSE g \in built : Holds(g, n)) \in built
    BY Zenon
  <2>2. built \subseteq {EntryGroup} \cup Positions
    BY <1>3, <1>4
  <2> HIDE DEF built, Holds
  <2> QED
    BY <1>8, <2>1, <2>2
<1>13. TypeInv'
  <2>1. <<>> \in Seq(Frames)
    BY EmptySeq
  <2> QED
    BY <1>1, <1>2, <1>5, <1>6, <1>9, <1>11, <1>12, <2>1 DEF TypeInv
<1>14. ControlFlowIsKept'
  <2> SUFFICES ASSUME NEW g \in groups, NEW j \in DOMAIN codes[g], codes[g][j].pos # 0
               PROVE  GroupNext(g, j)' = SourceNext(codes[g][j].pos)'
    BY <1>11 DEF ControlFlowIsKept
  <2>1. GroupNext(g, j)' = GroupNext(g, j)
    BY <1>11 DEF GroupNext
  <2>2. PICK n : n = codes[g][j].pos
    OBVIOUS
  <2>3. n \in DOMAIN source_codes /\ GroupNext(g, j) = SourceNext(n)
    BY <1>2, <1>10, <2>2, GroupsKeepTheFlow
  <2>4. SourceNext(n)' = SourceNext(n)
    BY <1>9, <2>3
  <2>5. SourceNext(codes[g][j].pos)' = SourceNext(n)'
    BY <1>11, <2>2 DEF SourceNext
  <2> QED
    BY <2>1, <2>3, <2>4, <2>5
<1>15. JumpsNameTheirGroups'
  <2>1. \A g \in groups \cup {EntryGroup} :
          /\ \A j \in 1 .. Len(codes[g]) - 1 : codes[g][j].to = <<>>
          /\ codes[g] # <<>> =>
               Last(codes[g]).to = [k \in DOMAIN follows[g] |-> group_label'[follows[g][k]]]
    BY <1>2, <1>6, LastCodesNameGroups
  <2>2. \A g \in groups \cup {EntryGroup} : Last(codes'[g]) = Last(codes[g])
    BY <1>11
  <2> QED
    BY <1>11, <2>1, <2>2 DEF JumpsNameTheirGroups, Last
<1>16. ReachableCodesHaveOneGroup'
  <2>1. Places' = Places /\ Placed' = Placed
    BY <1>11 DEF Places, Placed
  <2>2. Placed \subseteq First .. Size /\ ClosedUnderNext(Placed) /\ \A S \in ClosedSets : Placed \subseteq S
    BY <1>2, PlacedIsReached
  <2>3. PICK P : P = Placed
    OBVIOUS
  <2>4. ClosedUnderNext(P)'
    BY <1>9, <1>10, <2>2, <2>3
  <2>5. \A S \in SUBSET DOMAIN source_codes' : ClosedUnderNext(S)' => P \subseteq S
    BY <1>9, <2>2, <2>3 DEF ClosedSets
  <2>6. \A p, q \in Places : codes[p[1]][p[2]] = codes[q[1]][q[2]] => p = q
    <3> SUFFICES ASSUME NEW p \in Places, NEW q \in Places, codes[p[1]][p[2]] = codes[q[1]][q[2]]
                 PROVE  p = q
      OBVIOUS
    <3>1. /\ p = <<p[1], p[2]>> /\ p[1] \in groups /\ p[2] \in DOMAIN codes[p[1]]
          /\ codes[p[1]][p[2]].pos # 0
          /\ q = <<q[1], q[2]>> /\ q[1] \in groups /\ q[2] \in DOMAIN codes[q[1]]
      BY DEF Places
    <3>2. p[1] = q[1] /\ p[2] = q[2]
      BY <1>2, <3>1, PlacesDiffer
    <3> QED
      BY <3>1, <3>2
  <2>7. \A p \in Places : group_of'[codes[p[1]][p[2]].pos] = p[1]
    <3> SUFFICES ASSUME NEW p \in Places PROVE group_of'[codes[p[1]][p[2]].pos] = p[1]
      OBVIOUS
    <3>1. PICK g : g = p[1]
      OBVIOUS
    <3>2. PICK n : n = codes[p[1]][p[2]].pos
      OBVIOUS
    <3>3. g \in groups /\ p[2] \in DOMAIN codes[g] /\ codes[g][p[2]].pos = n /\ n # 0
      BY <3>1, <3>2 DEF Places
    <3>4. n \in First .. Size /\ n \in Positions
      BY <1>2, <3>3, GroupsKeepTheFlow
    <3>5. Holds(g, n) /\ g \in built
      BY <1>3, <3>3
    <3>6. ASSUME NEW h \in built, Holds(h, n) PROVE h = g
      <4>1. PICK j \in DOMAIN codes[h] : codes[h][j].pos = n
        BY <3>6
      <4>2. h # EntryGroup
        BY <1>2, <3>4, <4>1, EntryParts
      <4>3. h \in groups
        BY <1>3, <4>2
      <4> QED
        BY <1>2, <3>3, <4>1, <4>3, PlacesDiffer
    <3> HIDE DEF Holds, built
    <3>7. (CHOOSE h \in built : Holds(h, n)) = g
      BY <3>5, <3>6
    <3>8. group_of'[n] = g
      BY <1>8, <3>4, <3>5, <3>7
    <3> QED
      BY <3>1, <3>2, <3>8
  <2>8. \A p \in Places : group_of'[codes'[p[1]][p[2]].pos] = p[1]
    BY <1>11, <2>7
  <2>9. \A p, q \in Places : codes'[p[1]][p[2]] = codes'[q[1]][q[2]] => p = q
    BY <1>11, <2>6
  <2>10. IsInjective(basic_groups)' /\ ToSet(basic_groups)' = groups' \cup {EntryGroup}
    BY <1>2, <1>11 DEF AllBuilt, IsInjective, ToSet
  <2>11. ClosedUnderNext(Placed)'
    BY <2>1, <2>3, <2>4 DEF ClosedUnderNext
  <2>12. \A S \in SUBSET DOMAIN source_codes' : ClosedUnderNext(S)' => Placed' \subseteq S
    BY <2>1, <2>3, <2>5
  <2> QED
    BY <2>1, <2>8, <2>9, <2>10, <2>11, <2>12 DEF ReachableCodesHaveOneGroup, Places, Placed
<1>17. Mirrored'
  BY <1>1, <1>2, MirroredStays
<1>18. BuilderInv' /\ finished'
  BY <1>1, <1>2 DEF builder, BuilderInv, BuilderTypes, ListsAreShort, LabelsHaveTheirCode, NothingDangles, Referenced
<1> QED
  BY <1>1, <1>5, <1>13, <1>14, <1>15, <1>16, <1>17, <1>18 DEF IInv, NeverThrows, BuiltInv

-----------------------------------------------------------------------------
(***************************************************************************)
(* The theorems.                                                           *)
(***************************************************************************)
\* A state that does not change keeps the invariant.
LEMMA StutterIInv == IInv /\ UNCHANGED vars => IInv'
<1> SUFFICES ASSUME IInv, UNCHANGED vars PROVE IInv'
  OBVIOUS
<1>1. UNCHANGED <<builder, source_codes>> /\ UNCHANGED <<status, stack, groups, codes, follows, precedes, group_label, group_of, basic_groups>>
  BY DEF vars, edges, marks
<1>2. /\ SourceInv' = SourceInv /\ Labelled' = Labelled
      /\ Partial' = Partial /\ Ended' = Ended /\ Entries' = Entries
      /\ ClosedSets' = ClosedSets /\ First' = First /\ Size' = Size
  BY <1>1, FrozenSource
<1>3. BuilderInv' /\ TypeInv' /\ NeverThrows' /\ finished' = finished
  BY <1>1 DEF IInv, builder, BuilderInv, BuilderTypes, ListsAreShort, LabelsHaveTheirCode, NothingDangles, Referenced,
              TypeInv, NeverThrows
<1>4. Mirrored'
  BY <1>1, MirroredStays DEF IInv, edges
<1>5. ASSUME BuildingInv PROVE BuildingInv'
  <2>1. \A f \in 1 .. Len(stack) : FrameInv(f)'
    <3> SUFFICES ASSUME NEW f \in 1 .. Len(stack) PROVE FrameInv(f)'
      OBVIOUS
    <3>1. FrameInv(f)
      BY <1>5 DEF BuildingInv
    <3>2. f = 1 \/ f > 1
      OBVIOUS
    <3>3. f > 1 => stack[f].group \in groups' /\ stack[f].group \notin ToSet(basic_groups')
      BY <1>1, <3>1 DEF FrameInv
    <3>4. f < Len(stack') => stack[f].ended
      BY <1>1, <3>1 DEF FrameInv
    <3> QED
      BY <1>1, <3>1, <3>3, <3>4, FrameStays
  <2>2. GroupInv' = GroupInv
    BY <1>1, <1>2 DEF GroupInv, IsInjective, ToSet
  <2>3. ReachInv' = ReachInv
    BY <1>1, <1>2 DEF ReachInv, ToSet
  <2> QED
    BY <1>1, <1>2, <1>5, <2>1, <2>2, <2>3 DEF BuildingInv
<1>6. ASSUME BuiltInv PROVE BuiltInv'
  <2>1. \A n : PositionOf(n)' = PositionOf(n) /\ SourceNext(n)' = SourceNext(n)
    BY <1>1 DEF builder, PositionOf, SourceNext
  <2>2. ControlFlowIsKept' = ControlFlowIsKept
    BY <1>1 DEF builder, ControlFlowIsKept, GroupNext, SourceNext, PositionOf
  <2>3. JumpsNameTheirGroups' = JumpsNameTheirGroups
    BY <1>1 DEF JumpsNameTheirGroups, Last
  <2>4. ReachableCodesHaveOneGroup' = ReachableCodesHaveOneGroup
    BY <1>1 DEF builder, ReachableCodesHaveOneGroup, ClosedUnderNext, SourceNext, PositionOf, IsInjective, ToSet
  <2> QED
    BY <1>1, <1>6, <2>2, <2>3, <2>4 DEF BuiltInv
<1>7. NothingBuilt => NothingBuilt'
  BY <1>1 DEF NothingBuilt
<1> QED
  BY <1>1, <1>3, <1>4, <1>5, <1>6, <1>7 DEF IInv

\* IInv is inductive.
LEMMA NextIInv == IInv /\ [Next]_vars => IInv'
<1> SUFFICES ASSUME IInv, [Next]_vars PROVE IInv'
  OBVIOUS
<1>1. CASE AppendCodes
  BY <1>1, AppendCodesIInv
<1>2. CASE StartBuild
  BY <1>2, StartBuildIInv
<1>3. CASE FallIntoLabel
  BY <1>3, FallIntoLabelIInv
<1>4. CASE TakeCode
  BY <1>4, TakeCodeIInv
<1>5. CASE RunOffTheEnd
  BY <1>5, RunOffTheEndIInv
<1>6. CASE LinkTarget
  BY <1>6, LinkTargetIInv
<1>7. CASE BuildTarget
  BY <1>7, BuildTargetIInv
<1>8. CASE ReturnGroup
  BY <1>8, ReturnGroupIInv
<1>9. CASE FinishBuild
  BY <1>9, FinishBuildIInv
<1>10. CASE Finished \/ UNCHANGED vars
  BY <1>10, StutterIInv DEF Finished
<1> QED
  BY <1>1, <1>2, <1>3, <1>4, <1>5, <1>6, <1>7, <1>8, <1>9, <1>10 DEF Next

\* The invariant all the theorems below are read off.
LEMMA Invariant == Spec => []IInv
<1>1. Init => IInv
  BY InitIInv
<1>2. IInv /\ [Next]_vars => IInv'
  BY NextIInv
<1> QED
  BY <1>1, <1>2, PTL DEF Spec

\* Every position BuildFunction indexes the codes by is one of a code, and every frame of
\* its recursion is for a group it has made, however many codes and labels there are.
THEOREM FunctionBuilderTypeCorrect == Spec => []TypeOK
<1>1. IInv => TypeOK
  <2> SUFFICES ASSUME IInv PROVE TypeOK
    OBVIOUS
  <2>1. TypeInv
    BY DEF IInv
  <2>2. ASSUME NEW f \in 1 .. Len(stack)
        PROVE  /\ stack[f].group \in {EntryGroup} \cup groups
               /\ stack[f].line \in Positions \cup {NoGroup}
               /\ ToSet(stack[f].targets) \subseteq Positions
    <3>1. stack[f] \in Frames
      BY <2>1, ElementOfSeq DEF TypeInv
    <3>2. stack[f].line \in Positions \cup {NoGroup} /\ stack[f].targets \in Seq(Positions)
      BY <3>1 DEF Frames
    <3>3. stack # <<>>
      BY EmptySeq
    <3>4. BuildingInv
      BY <3>3 DEF IInv, NothingBuilt, BuiltInv, TypeInv, NeverThrows
    <3>5. FrameInv(f)
      BY <3>4 DEF BuildingInv
    <3>6. f = 1 \/ f > 1
      OBVIOUS
    <3> QED
      BY <3>2, <3>5, <3>6, RangeOfSequence DEF FrameInv
  <2> QED
    BY <2>1, <2>2 DEF TypeOK, TypeInv
<1> QED
  BY <1>1, Invariant, PTL

\* Whatever order labels and codes are appended in, every appended label is carried by the
\* one code its dest_code_ points to, except the label that still waits for its code.
THEOREM LabelsCorrect == Spec => []LabelsHaveTheirCode
<1>1. IInv => LabelsHaveTheirCode
  BY DEF IInv, BuilderInv
<1> QED
  BY <1>1, Invariant, PTL

\* No codes the generator can append make BuildFunction throw.
THEOREM BuildNeverThrows == Spec => []NeverThrows
<1>1. IInv => NeverThrows
  BY DEF IInv
<1> QED
  BY <1>1, Invariant, PTL

\* follows_ and precedes_ of any two groups hold each other equally often, at every moment
\* of the recursion.
THEOREM EdgesCorrect == Spec => []EdgesAreMirrored
<1>1. IInv => EdgesAreMirrored
  <2>1. IInv => groups \subseteq Positions
    BY DEF IInv, TypeInv
  <2> QED
    BY <2>1 DEF IInv, Mirrored, EdgesAreMirrored, Count
<1> QED
  BY <1>1, Invariant, PTL

\* Control goes through the groups as through the codes passed in, whatever the order in
\* which the recursion makes and links the groups.
THEOREM ControlFlowCorrect == Spec => []ControlFlowIsKept
<1>1. IInv => ControlFlowIsKept
  BY DEF IInv, BuiltInv, ControlFlowIsKept
<1> QED
  BY <1>1, Invariant, PTL

\* The groups hold the codes control can reach and no other, each once and in the group it
\* names as its own, and basic_groups_ holds each group once.
THEOREM GroupsCorrect == Spec => []ReachableCodesHaveOneGroup
<1>1. IInv => ReachableCodesHaveOneGroup
  BY DEF IInv, BuiltInv, ReachableCodesHaveOneGroup
<1> QED
  BY <1>1, Invariant, PTL

\* Only the last code of a group jumps, and it names the groups of follows_ in their order.
THEOREM JumpsCorrect == Spec => []JumpsNameTheirGroups
<1>1. IInv => JumpsNameTheirGroups
  BY DEF IInv, BuiltInv, JumpsNameTheirGroups
<1> QED
  BY <1>1, Invariant, PTL
=============================================================================
