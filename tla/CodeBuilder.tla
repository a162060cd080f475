---------------------------- MODULE CodeBuilder ----------------------------
(***************************************************************************)
(* src/IR/code_builder.cpp: the CodeBuilder of one function, driven by a   *)
(* client that is disciplined the way IRGeneratorImpl is: it creates a     *)
(* label, refers to it in jumps before or after it appends it, and appends *)
(* each label it refers to exactly once before it calls finish.            *)
(*                                                                         *)
(* A code is [kind, label, to]: label is the label it carries and to are   *)
(* the labels it jumps to.  All the codes control just runs through        *)
(* (arithmetic, comparisons, loads, stores, nope) are "plain"; the type    *)
(* checks, which throw before anything is appended, are left out.          *)
(***************************************************************************)
EXTENDS Naturals, Sequences

CONSTANTS
    Labels,      \* the labels the client may create
    NoLabel,     \* the null LabelPtr
    MaxCodes,    \* bound: codes the client appends before it only appends labels
    MaxAllocas   \* bound: calls of append_alloca

ASSUME LabelsAssumption == NoLabel \notin Labels
ASSUME BoundsAssumption == MaxCodes \in Nat /\ MaxAllocas \in Nat

VARIABLES
    alloca_list,    \* alloca_list_
    code_list,      \* code_list_
    appended_label, \* appended_label_: appended, waiting for its code
    dest_code,      \* Label::dest_code_, as a position of code_list; 0 is null
    appended,       \* the labels the client has passed to append_label
    finished        \* finish() has been called

builder == <<alloca_list, code_list, appended_label, dest_code, appended, finished>>

Code(kind, label, to) == [kind |-> kind, label |-> label, to |-> to]

InitBuilder ==
    /\ alloca_list = <<>>
    /\ code_list = <<>>
    /\ appended_label = NoLabel
    /\ dest_code = [l \in Labels |-> 0]
    /\ appended = {}
    /\ finished = FALSE

\* append_new_code: the code takes the label that waits, if there is one.
AppendNewCode(kind, to) ==
    /\ code_list' = Append(code_list, Code(kind, appended_label, to))
    /\ dest_code' = IF appended_label = NoLabel THEN dest_code
                    ELSE [dest_code EXCEPT ![appended_label] = Len(code_list) + 1]

Room == ~finished /\ Len(code_list) < MaxCodes

\* The codes the client can append, as [kind, to].
Appendable ==
    [kind : {"plain", "return"}, to : {<<>>}]
        \cup [kind : {"goto"}, to : {<<l>> : l \in Labels}]
        \cup [kind : {"branch"}, to : {<<t, f>> : t, f \in Labels}]

NewCode(c) ==
    /\ AppendNewCode(c.kind, c.to)
    /\ appended_label' = NoLabel
    /\ UNCHANGED <<alloca_list, appended, finished>>

AppendCode(c) == Room /\ NewCode(c)

\* Mutant of AppendLabel: the label that waits is forgotten.
ForgetLabel(l) ==
    /\ ~finished
    /\ l \notin appended
    /\ appended_label' = l
    /\ appended' = appended \cup {l}
    /\ UNCHANGED <<alloca_list, code_list, dest_code, finished>>

\* append_label: a label that still waits gets a goto to the new one.
PlaceLabel(l) ==
    /\ IF appended_label # NoLabel
       THEN AppendNewCode("goto", <<l>>)
       ELSE UNCHANGED <<code_list, dest_code>>
    /\ appended_label' = l
    /\ appended' = appended \cup {l}
    /\ UNCHANGED <<alloca_list, finished>>

\* The client appends a label once.
AppendLabel(l) == ~finished /\ l \notin appended /\ PlaceLabel(l)

\* Mutant of AppendAlloca: the alloca stays where it was appended.
AllocaInPlace ==
    /\ Room
    /\ Len(alloca_list) < MaxAllocas
    /\ AppendNewCode("alloca", <<>>)
    /\ appended_label' = NoLabel
    /\ UNCHANGED <<alloca_list, appended, finished>>

NewAlloca ==
    /\ alloca_list' = Append(alloca_list, Code("alloca", NoLabel, <<>>))
    /\ UNCHANGED <<code_list, appended_label, dest_code, appended, finished>>

AppendAlloca == Room /\ Len(alloca_list) < MaxAllocas /\ NewAlloca

\* The labels some code jumps to.
Referenced == UNION {{code_list[n].to[t] : t \in DOMAIN code_list[n].to} : n \in DOMAIN code_list}

\* finish: a label that still waits gets a nope.
EndCodes ==
    /\ finished' = TRUE
    /\ IF appended_label # NoLabel
       THEN AppendNewCode("plain", <<>>)
       ELSE UNCHANGED <<code_list, dest_code>>
    /\ appended_label' = NoLabel
    /\ UNCHANGED <<alloca_list, appended>>

\* The client calls finish when it has appended every label it refers to.
Finish == ~finished /\ Referenced \subseteq appended /\ EndCodes

NextBuilder ==
    \/ \E c \in Appendable : AppendCode(c)
    \/ \E l \in Labels : AppendLabel(l)
    \/ AppendAlloca
    \/ Finish

\* The codes finish() returns.
Result == alloca_list \o code_list

\* Every label that was appended is carried by one code, the one its dest_code_
\* points to, except the label that waits: this is what lets BuildFunction find
\* the code a jump leads to, however labels and codes are interleaved.
LabelsHaveTheirCode ==
    \A l \in Labels :
        LET carriers == {n \in DOMAIN code_list : code_list[n].label = l}
        IN  carriers = IF l \in appended /\ l # appended_label THEN {dest_code[l]} ELSE {}
=============================================================================
