--------------------------- MODULE ProgramMeaning ---------------------------
(***************************************************************************)
(* What a file of the language says, without regard to how it is           *)
(* translated: which files are well formed, and what running one does.     *)
(* Nothing in the repository runs programs: the structured statements have *)
(* the meaning their C namesakes have.                                     *)
(*                                                                         *)
(* A run is observed by its first events: the values that are stored, and  *)
(* where, those that are tested, and the one that is returned.  Values are *)
(* terms; a test may come out either way, as choices says for each event.  *)
(***************************************************************************)
EXTENDS Naturals, SequencesExt, TLC

CONSTANTS
    MaxEvents,       \* bound: the events of a run that are observed
    TypeOfName(_)    \* the type a name is declared with

LOCAL IntType == <<"INT">>
LOCAL BoolType == <<"BOOL">>
LOCAL IllTyped == <<"ERROR">>

IsLValue(node) == node.kind \in {"IDENTIFIER", "DEREFERENCE"}

-----------------------------------------------------------------------------
(***************************************************************************)
(* Types of expressions.                                                   *)
(***************************************************************************)
RECURSIVE ExprType(_)
ExprType(node) ==
    LET types == [k \in DOMAIN node.kids |-> ExprType(node.kids[k])]
    IN  IF IllTyped \in {types[k] : k \in DOMAIN types} THEN IllTyped
        ELSE CASE node.kind = "INTEGER" -> IntType
               [] node.kind = "IDENTIFIER" -> TypeOfName(node.name)
               [] node.kind \in {"ADD", "NEG"} -> types[1]
               [] node.kind = "EQUAL" -> BoolType
               [] node.kind = "NOT_EQUAL" -> IF types[1] = types[2] THEN BoolType ELSE IllTyped
               [] node.kind = "ASSIGN" ->
                      IF IsLValue(node.kids[1]) /\ types[1] = types[2] THEN types[1] ELSE IllTyped
               [] node.kind = "PREFIX_INC" ->
                      IF IsLValue(node.kids[1]) /\ types[1] = IntType THEN IntType ELSE IllTyped
               [] node.kind = "GET_ADDRESS" ->
                      IF IsLValue(node.kids[1]) THEN <<"POINTER">> \o types[1] ELSE IllTyped
               [] node.kind = "DEREFERENCE" ->
                      IF Head(types[1]) = "POINTER" THEN Tail(types[1]) ELSE IllTyped
               [] OTHER -> IllTyped

Statements == {"EMPTY", "IF_ELSE", "FOR_LOOP", "WHILE_LOOP", "DO_WHILE", "COMPOUND_STATEMENT",
               "DECLARATION_STATEMENT", "VARIABLE_DECLARATION", "RETURN"}
Conditions(node) ==
    CASE node.kind \in {"IF_ELSE", "WHILE_LOOP"} -> {node.kids[1]}
      [] node.kind \in {"FOR_LOOP", "DO_WHILE"} -> {c \in {node.kids[2]} : c.kind # "EMPTY"}
      [] OTHER -> {}

\* As the code has it, there are no arrays, and no function is declared among others.
RECURSIVE WellTyped(_, _)
WellTyped(node, returns) ==
    IF node.kind \notin Statements THEN ExprType(node) # IllTyped
    ELSE /\ \A k \in DOMAIN node.kids : WellTyped(node.kids[k], returns)
         /\ \A c \in Conditions(node) : ExprType(c) \in {IntType, BoolType}
         /\ node.kind = "RETURN" => ExprType(node.kids[1]) = returns
         /\ node.kind = "VARIABLE_DECLARATION" =>
                /\ TypeOfName(node.name) # <<"ARRAY">>
                /\ node.kids # <<>> => ExprType(node.kids[1]) = TypeOfName(node.name)

-----------------------------------------------------------------------------
(***************************************************************************)
(* Names.  Resolved adds to each name the number of its declaration in the *)
(* order of the text; env maps the names that are visible to those         *)
(* numbers, local are the names declared in the innermost block.           *)
(***************************************************************************)
Scope(env, local, count, ok) == [env |-> env, local |-> local, count |-> count, ok |-> ok]

Declaring(name, s) ==
    Scope([n \in DOMAIN s.env \cup {name} |-> IF n = name THEN s.count + 1 ELSE s.env[n]],
          s.local \cup {name}, s.count + 1, s.ok /\ name \notin s.local)

Numbered(node, kids, n) == [kind |-> node.kind, name |-> node.name, kids |-> kids, number |-> n]

RECURSIVE Resolved(_, _)
\* The children of a node one after the other.
ResolvedKids(kids, s) ==
    FoldLeft(LAMBDA done, kid : LET r == Resolved(kid, done.s)
                                IN  [nodes |-> Append(done.nodes, r.node), s |-> r.s],
             [nodes |-> <<>>, s |-> s], kids)
Resolved(node, s) ==
    IF node.kind = "IDENTIFIER"
    THEN LET known == node.name \in DOMAIN s.env
         IN  [node |-> Numbered(node, <<>>, IF known THEN s.env[node.name] ELSE 0),
              s |-> [s EXCEPT !.ok = @ /\ known]]
    ELSE LET inside == CASE node.kind = "COMPOUND_STATEMENT" -> [s EXCEPT !.local = {}]
                         [] node.kind = "VARIABLE_DECLARATION" -> Declaring(node.name, s)
                         [] OTHER -> s
             r == ResolvedKids(node.kids, inside)
         IN  [node |-> Numbered(node, r.nodes, inside.count),
              s |-> IF node.kind = "COMPOUND_STATEMENT"
                    THEN Scope(s.env, s.local, r.s.count, r.s.ok) ELSE r.s]

\* A function with its parameters declared, and its body resolved.
ResolvedBody(f) ==
    Resolved(f.body, FoldLeft(LAMBDA s, p : Declaring(p, s),
                              Scope([n \in {} |-> 0], {}, 0, TRUE), f.parameters))

\* A file is a function or a declaration.
WellFormed(f) ==
    /\ f.body.kind \in {"COMPOUND_STATEMENT", "DECLARATION_STATEMENT"}
    /\ ResolvedBody(f).s.ok /\ WellTyped(f.body, f.returns)

-----------------------------------------------------------------------------
(***************************************************************************)
(* Running a resolved function.  The state of a run is its memory, the     *)
(* events so far, and whether it is over.                                  *)
(***************************************************************************)
Outcomes == [1 .. MaxEvents -> BOOLEAN]
Start == [memory |-> <<>>, events |-> <<>>, over |-> FALSE]

Note(s, event) ==
    IF s.over THEN s
    ELSE [s EXCEPT !.events = Append(@, event),
                   !.over = Len(s.events) + 1 = MaxEvents \/ event[1] = "return"]
Read(s, address) ==
    IF address \in DOMAIN s.memory THEN s.memory[address] ELSE <<"initial", address>>
Write(s, value, address) ==
    Note([s EXCEPT !.memory = (address :> value) @@ @], <<"store", value, address>>)

\* A test, the outcome of which is s.events' last.
Test(s, value, choices) ==
    Note(s, <<"test", value, IF s.over THEN FALSE ELSE choices[Len(s.events) + 1]>>)
Passed(s) == Last(s.events)[3]

RECURSIVE Evaluate(_, _)
Address(node, s) ==
    IF node.kind = "IDENTIFIER" THEN [s |-> s, v |-> <<"alloca", node.number>>]
    ELSE Evaluate(node.kids[1], s)
Evaluate(node, s) ==
    CASE node.kind = "INTEGER" -> [s |-> s, v |-> <<"constant", node.name>>]
      [] node.kind \in {"IDENTIFIER", "DEREFERENCE"} ->
             LET a == Address(node, s) IN [s |-> a.s, v |-> Read(a.s, a.v)]
      [] node.kind = "GET_ADDRESS" -> Address(node.kids[1], s)
      [] node.kind = "NEG" ->
             LET r == Evaluate(node.kids[1], s) IN [s |-> r.s, v |-> <<"NEG", r.v>>]
      [] node.kind = "ASSIGN" ->
             LET r == Evaluate(node.kids[2], s)
                 a == Address(node.kids[1], r.s)
             IN  [s |-> Write(a.s, r.v, a.v), v |-> r.v]
      [] node.kind = "PREFIX_INC" ->
             LET a == Address(node.kids[1], s)
                 v == <<"ADD", Read(a.s, a.v), <<"constant", "1">> >>
             IN  [s |-> Write(a.s, v, a.v), v |-> v]
      [] OTHER ->
             LET l == Evaluate(node.kids[1], s)
                 r == Evaluate(node.kids[2], l.s)
             IN  [s |-> r.s, v |-> <<node.kind, l.v, r.v>>]

Decide(node, s, choices) ==
    LET r == Evaluate(node, s)
    IN  Test(r.s, IF ExprType(node) = BoolType THEN r.v
                  ELSE <<"NOT_EQUAL", r.v, <<"constant", "0">> >>, choices)

RECURSIVE Run(_, _, _)
RunAll(nodes, s, choices) == FoldLeft(LAMBDA t, n : Run(n, t, choices), s, nodes)

\* A loop with its condition in front; without a condition and an event it is silent
\* for ever.
RECURSIVE Loop(_, _, _, _)
Loop(condition, body, s, choices) ==
    IF s.over THEN s
    ELSE IF condition.kind = "EMPTY"
    THEN LET t == RunAll(body, s, choices)
         IN  IF t.events = s.events THEN [t EXCEPT !.over = TRUE]
             ELSE Loop(condition, body, t, choices)
    ELSE LET t == Decide(condition, s, choices)
         IN  IF t.over \/ ~Passed(t) THEN t
             ELSE Loop(condition, body, RunAll(body, t, choices), choices)

Run(node, s, choices) ==
    LET kids == node.kids
    IN  IF s.over THEN s
        ELSE CASE node.kind = "EMPTY" -> s
               [] node.kind = "IF_ELSE" ->
                      LET t == Decide(kids[1], s, choices)
                      IN  IF t.over THEN t
                          ELSE IF Passed(t) THEN Run(kids[2], t, choices)
                          ELSE RunAll(SubSeq(kids, 3, Len(kids)), t, choices)
               [] node.kind = "WHILE_LOOP" -> Loop(kids[1], <<kids[2]>>, s, choices)
               [] node.kind = "DO_WHILE" ->
                      Loop(kids[2], <<kids[1]>>, Run(kids[1], s, choices), choices)
               [] node.kind = "FOR_LOOP" ->
                      Loop(kids[2], <<kids[4], kids[3]>>, Run(kids[1], s, choices), choices)
               [] node.kind \in {"COMPOUND_STATEMENT", "DECLARATION_STATEMENT"} ->
                      RunAll(kids, s, choices)
               [] node.kind = "VARIABLE_DECLARATION" ->
                      IF kids = <<>> THEN s
                      ELSE LET r == Evaluate(kids[1], s)
                           IN  Write(r.s, r.v, <<"alloca", node.number>>)
               [] node.kind = "RETURN" ->
                      LET r == Evaluate(kids[1], s) IN Note(r.s, <<"return", r.v>>)
               [] OTHER -> Evaluate(node, s).s

\* The events of a run of f, whose parameters are the first variables.
Observed(f, choices) ==
    LET passed == [i \in DOMAIN f.parameters |-> i]
    IN  Run(ResolvedBody(f).node,
            FoldLeft(LAMBDA s, i : Write(s, <<"parameter", i>>, <<"alloca", i>>), Start, passed),
            choices).events
=============================================================================
