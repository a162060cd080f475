--------------------------- MODULE GeneratedCode ---------------------------
(***************************************************************************)
(* What the codes of IRGenerator mean, compared with what the function     *)
(* says (ProgramMeaning).                                                  *)
(***************************************************************************)
EXTENDS IRGenerator

CONSTANT MaxEvents  \* bound: the events of a run that are observed

Meaning == INSTANCE ProgramMeaning WITH TypeOfName <- TypeOf

(***************************************************************************)
(* Running the codes: position is that of the next code, results are what  *)
(* the codes computed last.                                                *)
(***************************************************************************)
Operand(at, results) == IF at[1] = "code" THEN results[at[2]] ELSE at

Going(s, results, position) == [s |-> s, results |-> results, position |-> position]

CodeRun(m, choices) ==
    LET n == m.position
        code == code_list[n]
        of == [i \in DOMAIN operation[n].of |-> Operand(operation[n].of[i], m.results)]
        Computing(v) == Going(m.s, (n :> v) @@ m.results, n + 1)
    IN  CASE code.kind = "goto" -> Going(m.s, m.results, dest_code[code.to[1]])
          [] code.kind = "return" ->
                 Going(Meaning!Note(m.s, <<"return", of[1]>>), m.results, n)
          [] code.kind = "branch" ->
                 LET t == Meaning!Test(m.s, of[1], choices)
                 IN  Going(t, m.results, dest_code[code.to[IF Meaning!Passed(t) THEN 1 ELSE 2]])
          [] n \notin DOMAIN operation -> Going(m.s, m.results, n + 1)
          [] operation[n].op = "STORE" ->
                 Going(Meaning!Write(m.s, of[1], of[2]), m.results, n + 1)
          [] operation[n].op = "LOAD" -> Computing(Meaning!Read(m.s, of[1]))
          [] OTHER -> Computing(<<operation[n].op>> \o of)

\* The events of a run of the codes; one that passes more codes than there are without
\* an event is silent for ever.
RECURSIVE CodeEvents(_, _, _)
CodeEvents(m, silent, choices) ==
    IF m.s.over \/ m.position > Len(code_list) \/ silent > Len(code_list) THEN m.s.events
    ELSE LET next == CodeRun(m, choices)
         IN  CodeEvents(next, IF next.s.events = m.s.events THEN silent + 1 ELSE 0, choices)

-----------------------------------------------------------------------------
(***************************************************************************)
(* Properties.                                                             *)
(***************************************************************************)
\* code_list with each goto that waits for use_setter already set.
CodesMeant ==
    [n \in DOMAIN code_list |->
        IF code_list[n].to # <<NoLabel>> THEN code_list[n]
        ELSE LET held == {i \in DOMAIN values : "goto" \in DOMAIN values[i] /\ values[i].goto = n}
             IN  [code_list[n] EXCEPT !.to = <<values[CHOOSE i \in held : TRUE].end>>]]
Client == INSTANCE CodeBuilder WITH code_list <- CodesMeant

\* The generator is the disciplined client CodeBuilder takes for granted, and with it
\* BuildFunction: each label is placed once, and before finish every label that a
\* code refers to, however statements are nested.
ClientIsDisciplined == [][Client!NextBuilder]_(Client!builder)

\* The codes do what the function says: they store, test and return the same values
\* in the same order, whichever way the tests come out.
RunsAsWritten ==
    outcome = "done" =>
        \A choices \in Meaning!Outcomes :
            CodeEvents(Going(Meaning!Start, <<>>, 1), 0, choices) = Meaning!Observed(function, choices)

\* The generator throws just for the files that are not well formed: a name is
\* not declared where it is used, or twice in a block, or the types do not fit.
ThrowsIfIllFormed == outcome # "generating" => (outcome = "threw" <=> ~Meaning!WellFormed(function))
=============================================================================
