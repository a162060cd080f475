-------------------------- MODULE FunctionBuilder --------------------------
(***************************************************************************)
(* src/IR/function.cpp: BuildFunction cuts the codes a CodeBuilder has     *)
(* returned into basic groups.                                             *)
(*                                                                         *)
(* Codes are known by their position in the codes passed in.  A group is   *)
(* known by the position of its first code, the entry group by 0.  The     *)
(* recursion of build_basic_group_starting_from is the variable stack; in  *)
(* its first frame build() itself waits for the group of the first code.   *)
(* A frame is [group, line, ended, targets]: once the call has ended its   *)
(* group, targets are the positions it still has to get a group for.       *)
(* An item of a group is [pos, to]: pos is 0 for a goto the builder makes. *)
(***************************************************************************)
EXTENDS CodeBuilder, FiniteSets, SequencesExt

VARIABLES
    status,       \* "appending", "building", "threw" or "built"
    source_codes, \* source_codes_
    stack,        \* the running calls
    groups,       \* the groups of label_to_node_
    codes,        \* BasicGroup::codes_
    follows,      \* BasicGroup::follows_
    precedes,     \* BasicGroup::precedes_
    group_label,  \* BasicGroup::label_
    group_of,     \* SiiIRCode::group_
    basic_groups  \* basic_groups_

edges == <<follows, precedes>>
marks == <<group_label, group_of>>
vars == <<builder, status, source_codes, stack, groups, codes, edges, marks, basic_groups>>

EntryGroup == 0
FirstLabel == "first label"  \* the label build() makes for an unlabelled first code
EntryLabel == "entry label"  \* the label build() makes for the entry
\* append_label and finish append at most one code for each label.
Positions == 1 .. MaxAllocas + MaxCodes + Cardinality(Labels)
NoGroup == 1 + MaxAllocas + MaxCodes + Cardinality(Labels)  \* the null group_

ASSUME FiniteAssumption == IsFiniteSet(Labels)
ASSUME NamesAssumption == FirstLabel # NoLabel

HasLabel(n) == source_codes[n].label # NoLabel
NewGoto(label) == [pos |-> 0, to |-> <<label>>]
Item(n) == [pos |-> n, to |-> source_codes[n].to]

\* code_to_index_[label->dest_code_].
PositionOf(label) == CHOOSE n \in DOMAIN source_codes : n = Len(alloca_list) + dest_code[label]

Init ==
    /\ InitBuilder
    /\ status = "appending"
    /\ source_codes = <<>>
    /\ stack = <<>>
    /\ groups = {}
    /\ codes = [g \in {EntryGroup} \cup Positions |-> <<>>]
    /\ follows = [g \in {EntryGroup} \cup Positions |-> <<>>]
    /\ precedes = [g \in {EntryGroup} \cup Positions |-> <<>>]
    /\ group_label = [g \in {EntryGroup} \cup Positions |-> NoLabel]
    /\ group_of = [n \in Positions |-> NoGroup]
    /\ basic_groups = <<EntryGroup>>

-----------------------------------------------------------------------------
\* The client builds the codes, then passes them to BuildFunction.
AppendCodes ==
    /\ NextBuilder
    /\ UNCHANGED <<status, source_codes, stack, groups, codes, edges, marks, basic_groups>>

\* The loop of build() over the codes: the first that is no alloca, if there is one,
\* and an alloca after it.
FirstOther ==
    CHOOSE n \in 1 .. Len(Result) + 1 :
        /\ n = Len(Result) + 1 \/ Result[n].kind # "alloca"
        /\ \A m \in 1 .. n - 1 : Result[m].kind = "alloca"
LateAlloca == \E n \in FirstOther .. Len(Result) : Result[n].kind = "alloca"

\* build(): the leading allocas go into the entry; an alloca anywhere else is an error.  The first other code gets a label if it
\* has none, the entry a goto to it.
StartBuild ==
    /\ status = "appending"
    /\ finished
    /\ LET first == FirstOther
           more == first <= Len(Result)
           label == IF more /\ Result[first].label # NoLabel
                    THEN Result[first].label ELSE FirstLabel
           allocas == [n \in 1 .. first - 1 |-> [pos |-> n, to |-> <<>>]]
       IN  /\ status' = IF LateAlloca THEN "threw" ELSE "building"
           /\ source_codes' = IF more THEN [Result EXCEPT ![first].label = label] ELSE Result
           /\ codes' = [codes EXCEPT ![EntryGroup] =
                            IF more THEN Append(allocas, NewGoto(label)) ELSE allocas]
           /\ stack' = <<[group |-> EntryGroup, line |-> first, ended |-> TRUE,
                          targets |-> IF more THEN <<first>> ELSE <<>>]>>
    /\ UNCHANGED <<builder, groups, edges, marks, basic_groups>>

-----------------------------------------------------------------------------
(***************************************************************************)
(* build_basic_group_starting_from.                                        *)
(***************************************************************************)
Frame == Last(stack)
Scanning == status = "building" /\ ~Frame.ended
Linking  == status = "building" /\ Frame.ended
AtEnd == Frame.line > Len(source_codes)
AtNextLabel == ~AtEnd /\ Frame.line # Frame.group /\ HasLabel(Frame.line)

AddItem(item) == codes' = [codes EXCEPT ![Frame.group] = Append(@, item)]
EndGroup(targets) ==
    stack' = [stack EXCEPT ![Len(stack)].ended = TRUE, ![Len(stack)].targets = targets]

\* Mutant of FallIntoLabel: no goto.
FallWithoutGoto ==
    /\ Scanning
    /\ AtNextLabel
    /\ EndGroup(<<Frame.line>>)
    /\ UNCHANGED <<builder, status, source_codes, groups, codes, edges, marks, basic_groups>>

\* The next code carries a label: the group ends here, with a goto to it.
FallIntoLabel ==
    /\ Scanning
    /\ AtNextLabel
    /\ AddItem(NewGoto(source_codes[Frame.line].label))
    /\ EndGroup(<<Frame.line>>)
    /\ UNCHANGED <<builder, status, source_codes, groups, edges, marks, basic_groups>>

\* Mutant of TakeCode: the false label first.
TakeFalseFirst ==
    /\ Scanning
    /\ ~AtEnd
    /\ ~AtNextLabel
    /\ AddItem(Item(Frame.line))
    /\ LET code == source_codes[Frame.line]
       IN  IF code.kind \in {"goto", "branch", "return"}
           THEN EndGroup(Reverse([t \in DOMAIN code.to |-> PositionOf(code.to[t])]))
           ELSE stack' = [stack EXCEPT ![Len(stack)].line = @ + 1]
    /\ UNCHANGED <<builder, status, source_codes, groups, edges, marks, basic_groups>>

\* Mutant of TakeCode: a labelled code does not end the group before it.
TakeLabelled ==
    /\ Scanning
    /\ ~AtEnd
    /\ AddItem(Item(Frame.line))
    /\ LET code == source_codes[Frame.line]
       IN  IF code.kind \in {"goto", "branch", "return"}
           THEN EndGroup([t \in DOMAIN code.to |-> PositionOf(code.to[t])])
           ELSE stack' = [stack EXCEPT ![Len(stack)].line = @ + 1]
    /\ UNCHANGED <<builder, status, source_codes, groups, edges, marks, basic_groups>>

\* The next code belongs to the group; a jump or a return ends it.
TakeCode ==
    /\ Scanning
    /\ ~AtEnd
    /\ ~AtNextLabel
    /\ AddItem(Item(Frame.line))
    /\ LET code == source_codes[Frame.line]
       IN  IF code.kind \in {"goto", "branch", "return"}
           THEN EndGroup([t \in DOMAIN code.to |-> PositionOf(code.to[t])])
           ELSE stack' = [stack EXCEPT ![Len(stack)].line = @ + 1]
    /\ UNCHANGED <<builder, status, source_codes, groups, edges, marks, basic_groups>>

RunOffTheEnd ==
    /\ Scanning
    /\ AtEnd
    /\ EndGroup(<<>>)
    /\ UNCHANGED <<builder, status, source_codes, groups, codes, edges, marks, basic_groups>>

\* Mutant of LinkTarget: follows_ and precedes_ swapped.
LinkBackwards ==
    /\ Linking
    /\ Frame.targets # <<>>
    /\ Head(Frame.targets) \in groups
    /\ precedes' = [precedes EXCEPT ![Frame.group] = Append(@, Head(Frame.targets))]
    /\ follows' = [follows EXCEPT ![Head(Frame.targets)] = Append(@, Frame.group)]
    /\ stack' = [stack EXCEPT ![Len(stack)].targets = Tail(@)]
    /\ UNCHANGED <<builder, status, source_codes, groups, codes, marks, basic_groups>>

\* Mutant of LinkTarget: a predecessor is entered once only.
LinkOnce ==
    /\ Linking
    /\ Frame.targets # <<>>
    /\ Head(Frame.targets) \in groups
    /\ follows' = [follows EXCEPT ![Frame.group] = Append(@, Head(Frame.targets))]
    /\ precedes' = [precedes EXCEPT ![Head(Frame.targets)] =
                        IF Frame.group \in ToSet(@) THEN @ ELSE Append(@, Frame.group)]
    /\ stack' = [stack EXCEPT ![Len(stack)].targets = Tail(@)]
    /\ UNCHANGED <<builder, status, source_codes, groups, codes, marks, basic_groups>>

\* The group of the next target exists (it was built before, it is still being
\* built, or the call for it has just returned): record the edge.
LinkTarget ==
    /\ Linking
    /\ Frame.targets # <<>>
    /\ Head(Frame.targets) \in groups
    /\ follows' = [follows EXCEPT ![Frame.group] = Append(@, Head(Frame.targets))]
    /\ precedes' = [precedes EXCEPT ![Head(Frame.targets)] = Append(@, Frame.group)]
    /\ stack' = [stack EXCEPT ![Len(stack)].targets = Tail(@)]
    /\ UNCHANGED <<builder, status, source_codes, groups, codes, marks, basic_groups>>

\* The next target has no group yet: recurse.
BuildTarget ==
    /\ Linking
    /\ Frame.targets # <<>>
    /\ LET start == Head(Frame.targets)
       IN  /\ start \notin groups
           /\ IF HasLabel(start)
              THEN /\ groups' = groups \cup {start}
                   /\ stack' = Append(stack, [group |-> start, line |-> start,
                                              ended |-> FALSE, targets |-> <<>>])
                   /\ UNCHANGED status
              ELSE /\ status' = "threw"
                   /\ UNCHANGED <<groups, stack>>
    /\ UNCHANGED <<builder, source_codes, codes, edges, marks, basic_groups>>

ReturnGroup ==
    /\ Linking
    /\ Frame.targets = <<>>
    /\ Len(stack) > 1
    /\ basic_groups' = Append(basic_groups, Frame.group)
    /\ stack' = Front(stack)
    /\ UNCHANGED <<builder, status, source_codes, groups, codes, edges, marks>>

\* build() again: labels move from the first codes to the groups, and the codes
\* learn their group.
FinishBuild ==
    /\ Linking
    /\ Frame.targets = <<>>
    /\ Len(stack) = 1
    /\ LET built == ToSet(basic_groups)
           starts == {g \in groups : g \in built}
           FirstCode(g) == Head(codes[g]).pos
       IN  /\ status' = IF \A g \in starts : HasLabel(FirstCode(g)) THEN "built" ELSE "threw"
           /\ group_label' = [g \in DOMAIN group_label |->
                                IF g = EntryGroup THEN EntryLabel
                                ELSE IF g \in starts THEN source_codes[FirstCode(g)].label
                                ELSE NoLabel]
           /\ source_codes' = [n \in DOMAIN source_codes |->
                                IF \E g \in starts : n = FirstCode(g)
                                THEN [source_codes[n] EXCEPT !.label = NoLabel]
                                ELSE source_codes[n]]
           /\ group_of' = [n \in Positions |->
                             IF \E g \in built : \E j \in DOMAIN codes[g] : codes[g][j].pos = n
                             THEN CHOOSE g \in built :
                                      \E j \in DOMAIN codes[g] : codes[g][j].pos = n
                             ELSE NoGroup]
    /\ stack' = <<>>
    /\ UNCHANGED <<builder, groups, codes, edges, basic_groups>>

\* BuildFunction has returned or thrown.
Finished == status \in {"built", "threw"} /\ UNCHANGED vars

Next ==
    \/ AppendCodes
    \/ StartBuild
    \/ FallIntoLabel \/ TakeCode \/ RunOffTheEnd
    \/ LinkTarget \/ BuildTarget \/ ReturnGroup \/ FinishBuild
    \/ Finished

Spec == Init /\ [][Next]_vars

-----------------------------------------------------------------------------
(***************************************************************************)
(* Properties.                                                             *)
(***************************************************************************)
\* Every position BuildFunction indexes the codes by is one of a code, and every
\* frame of the recursion is for a group of label_to_node_.
TypeOK ==
    /\ status \in {"appending", "building", "threw", "built"}
    /\ DOMAIN source_codes \subseteq Positions
    /\ \A f \in 1 .. Len(stack) :
        /\ stack[f].group \in {EntryGroup} \cup groups
        /\ stack[f].line \in Positions \cup {NoGroup}
        /\ ToSet(stack[f].targets) \subseteq Positions
    /\ groups \subseteq Positions
    /\ follows \in [{EntryGroup} \cup Positions -> Seq(Positions)]
    /\ precedes \in [{EntryGroup} \cup Positions -> Seq({EntryGroup} \cup Positions)]
    /\ group_of \in [Positions -> {EntryGroup, NoGroup} \cup Positions]
    /\ basic_groups \in Seq({EntryGroup} \cup Positions)

\* No code the generator can append makes BuildFunction throw: allocas come
\* first, and whatever a jump leads to or control falls into carries a label.
NeverThrows == status # "threw"

\* follows_ and precedes_ agree, a branch both of whose labels lead to the same
\* group counting twice, at every moment of the recursion.
EdgesAreMirrored ==
    \A g, h \in {EntryGroup} \cup groups :
        Cardinality({k \in DOMAIN follows[g] : follows[g][k] = h})
            = Cardinality({k \in DOMAIN precedes[h] : precedes[h][k] = g})

\* The positions control goes to after code n, in the codes passed in.
SourceNext(n) ==
    LET code == source_codes[n]
    IN  CASE code.kind \in {"goto", "branch"} ->
                    [t \in DOMAIN code.to |-> PositionOf(code.to[t])]
          [] code.kind = "return" -> <<>>
          [] OTHER -> IF n < Len(source_codes) THEN <<n + 1>> ELSE <<>>

\* The same in the groups; the gotos the builder made are passed over.
GroupNext(g, j) ==
    IF j < Len(codes[g]) /\ codes[g][j + 1].pos # 0
    THEN <<codes[g][j + 1].pos>>
    ELSE [k \in DOMAIN follows[g] |-> Head(codes[follows[g][k]]).pos]

\* The groups run the codes in the order of the codes passed in, whatever the
\* order in which the recursion made and linked the groups.
ControlFlowIsKept ==
    status = "built" =>
        \A g \in groups : \A j \in DOMAIN codes[g] :
            codes[g][j].pos # 0 => GroupNext(g, j) = SourceNext(codes[g][j].pos)

\* A set of positions that holds the first code and whatever control goes to next.
ClosedUnderNext(S) ==
    /\ {Len(alloca_list) + 1} \cap DOMAIN source_codes \subseteq S
    /\ \A n \in S : ToSet(SourceNext(n)) \subseteq S

\* The codes control can reach, the least such set, are those in a group, each is
\* in one group only, its group_, and each group is in basic_groups_ once.
ReachableCodesHaveOneGroup ==
    status = "built" =>
        LET places == {p \in groups \X Positions :
                          p[2] \in DOMAIN codes[p[1]] /\ codes[p[1]][p[2]].pos # 0}
            placed == {codes[p[1]][p[2]].pos : p \in places}
        IN  /\ ClosedUnderNext(placed)
            /\ \A S \in SUBSET DOMAIN source_codes : ClosedUnderNext(S) => placed \subseteq S
            /\ \A p, q \in places : codes[p[1]][p[2]] = codes[q[1]][q[2]] => p = q
            /\ \A p \in places : group_of[codes[p[1]][p[2]].pos] = p[1]
            /\ IsInjective(basic_groups)
            /\ ToSet(basic_groups) = groups \cup {EntryGroup}

\* What later passes take for granted: a group that control leaves ends with its
\* only jump (QuitSSAPass inserts before it), and the labels of that jump are
\* those of the groups in follows_, in the same order.
JumpsNameTheirGroups ==
    status = "built" =>
        \A g \in groups \cup {EntryGroup} :
            /\ \A j \in 1 .. Len(codes[g]) - 1 : codes[g][j].to = <<>>
            /\ codes[g] # <<>> =>
                Last(codes[g]).to = [k \in DOMAIN follows[g] |-> group_label[follows[g][k]]]
=============================================================================
