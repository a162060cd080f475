------------------------ MODULE InstructionSemantics ------------------------
(***************************************************************************)
(* The instructions of include/IR/IR.h that the passes over memory and phi *)
(* instructions tell apart, and what running them means.                   *)
(*                                                                         *)
(* A value is a tuple: the address of a variable (the result of its        *)
(* alloca), a constant, undef, or the result of an instruction.  An        *)
(* instruction is [op, id, args]; id is the value that is its result.  All *)
(* the kinds that only read operands and do nothing to memory (arithmetic, *)
(* comparisons, neg, return, the condition of a branch) are "use".         *)
(*                                                                         *)
(* The code itself never runs instructions; the meaning given here is the  *)
(* usual one of each of them, and is what a pass has to keep.              *)
(***************************************************************************)
EXTENDS Naturals, Sequences, SequencesExt

Address(v)    == <<"address", v>>
Constant(g, n) == <<"constant", g, n>>
Undef(v)      == <<"undef", v>>
ResultOf(g, n) == <<"code", g, n>>
PhiOf(g, v)   == <<"phi", g, v>>
Nothing       == <<"nothing">>  \* the id of an instruction without a result
Garbage       == <<"garbage">>  \* what reading something that is not there gives

Instr(op, id, args) == [op |-> op, id |-> id, args |-> args]
Jump == Instr("jump", Nothing, <<>>)

\* The state of a run: the results so far, the memory, and the values used.
StartOfRun == [results |-> << >>, memory |-> << >>, uses |-> <<>>, wild |-> FALSE]

With(f, x, y) == [z \in DOMAIN f \cup {x} |-> IF z = x THEN y ELSE f[z]]

\* The value an operand has.
ValueOf(run, x) ==
    IF x[1] \in {"address", "constant", "undef"} THEN x
    ELSE IF x \in DOMAIN run.results THEN run.results[x] ELSE Garbage

ReadMemory(run, a) ==
    IF a[1] # "address" THEN Garbage
    ELSE IF a \in DOMAIN run.memory THEN run.memory[a] ELSE Undef(a[2])

\* Run one instruction; wild records a load from or a store to no variable, after
\* which a run means nothing.
RunInstr(run, i) ==
    CASE i.op = "load" ->
            LET a == ValueOf(run, i.args[1])
            IN  [run EXCEPT !.results = With(@, i.id, ReadMemory(run, a)),
                            !.wild = @ \/ a[1] # "address"]
      [] i.op = "store" ->
            LET a == ValueOf(run, i.args[2])
            IN  IF a[1] # "address" THEN [run EXCEPT !.wild = TRUE]
                ELSE [run EXCEPT !.memory = With(@, a, ValueOf(run, i.args[1]))]
      [] i.op = "assign" ->
            [run EXCEPT !.results = With(@, i.args[1], ValueOf(run, i.args[2]))]
      [] i.op = "use" ->
            [run EXCEPT !.uses = @ \o [n \in DOMAIN i.args |-> ValueOf(run, i.args[n])]]
      [] OTHER -> run

IsPhi(i) == i.op = "phi"

\* The phis of a group take the values their sources for edge number k have on
\* entry to the group, all at once.
RunPhis(run, codes, k) ==
    LET phis == {i \in ToSet(codes) : IsPhi(i)}
        taken(i) == IF k \in DOMAIN i.args THEN ValueOf(run, i.args[k]) ELSE Garbage
    IN  [run EXCEPT !.results =
            [x \in DOMAIN @ \cup {i.id : i \in phis} |->
                IF \E i \in phis : i.id = x THEN taken(CHOOSE i \in phis : i.id = x) ELSE @[x]]]

\* Run codes one after the other.
RunCodes(run, codes) ==
    LET Upto[n \in 0 .. Len(codes)] == IF n = 0 THEN run ELSE RunInstr(Upto[n - 1], codes[n])
    IN  Upto[Len(codes)]

\* Run the codes of a group that was entered through edge number k.
RunGroup(run, codes, k) == RunCodes(RunPhis(run, codes, k), codes)

\* Run codes along a path of groups.
RunPath(codes, precedes, path) ==
    LET Edge(n) == IF n = 1 THEN 0
                   ELSE CHOOSE k \in DOMAIN precedes[path[n]] :
                            precedes[path[n]][k] = path[n - 1]
        From[n \in 0 .. Len(path)] ==
            IF n = 0 THEN StartOfRun
            ELSE LET before == From[n - 1] IN RunGroup(before, codes[path[n]], Edge(n))
    IN  From[Len(path)]

\* after uses the same values as before along path, unless before goes wild.
UsesTheSame(before, after, precedes, path) ==
    LET run == RunPath(before, precedes, path)
    IN  run.wild \/ RunPath(after, precedes, path).uses = run.uses

\* The paths of at most n groups that start at group entry.
PathsFrom(follows, entry, n) ==
    LET Longer(p) == {Append(p, g) : g \in ToSet(follows[Last(p)])}
        Of[m \in 1 .. n] ==
            IF m = 1 THEN {<<entry>>} ELSE Of[m - 1] \cup UNION {Longer(p) : p \in Of[m - 1]}
    IN  Of[n]
=============================================================================
