---------------------------- MODULE IRGenerator ----------------------------
(***************************************************************************)
(* src/front/IR_generator.cpp and context_manager.cpp: one file, which is a*)
(* function or a declaration, is turned into codes.  The generator walks   *)
(* over the tree with one function for each kind of node, which call each  *)
(* other and the CodeBuilder; what the running calls have still to do is   *)
(* todo, and the values they hold in their local variables are values, the *)
(* latest last.                                                            *)
(*                                                                         *)
(* A node is [kind, name, kids].  Types are sequences: <<"INT">>,          *)
(* <<"BOOL">>, <<"ARRAY">>, or "POINTER" followed by the type pointed to;  *)
(* those of the front end and of the IR agree, as no variable is a bool.   *)
(* The types of arrays differ in nothing that matters.  A value is         *)
(* [type, at], and an lvalue is its address: a value of a pointer type.    *)
(* MUL, DIV, ADD and SUB are alike, and so are NOT_EQUAL, LESS_THAN and    *)
(* LESS_EQUAL, PREFIX_INC and PREFIX_DEC: the first stands for all.        *)
(***************************************************************************)
EXTENDS CodeBuilder, FiniteSets, SequencesExt, TLC

CONSTANTS
    Functions,  \* the files to translate: [parameters, returns, body], where body is
                \* the declaration if the file is one
    TypeOf(_)   \* the type a name is declared with, whenever it is

ASSUME LabelsAreNumbers == NoLabel = 0 /\ Labels = 1 .. Cardinality(Labels)

VARIABLES
    function,  \* the file, and the function current_function_ctx_ is about
    todo,      \* the steps still to take
    values,    \* the values held by the calls that run
    scopes,    \* the symbol tables from the root to current_symbol_ctx_
    created,   \* how many labels have been made
    operation, \* for the codes of code_list that compute, what and of what
    outcome    \* "generating", "done" or "threw"

locals == <<values, created>>
vars == <<builder, function, todo, locals, scopes, operation, outcome>>

IntType == <<"INT">>
BoolType == <<"BOOL">>
ArrayType == <<"ARRAY">>
PointerTo(type) == <<"POINTER">> \o type
IsPointer(type) == Head(type) = "POINTER"
Aim(type) == Tail(type)

FunctionName == "f"

Value(type, at) == [type |-> type, at |-> at]
Constant(literal) == Value(IntType, <<"constant", literal>>)
Alloca(n) == <<"alloca", n>>

Comparisons == {"EQUAL", "NOT_EQUAL"}
Binary == {"ADD"} \cup Comparisons

-----------------------------------------------------------------------------
(***************************************************************************)
(* What the functions do, as steps.                                        *)
(***************************************************************************)
RValue(node) == [do |-> "rvalue", node |-> node]
LValue(node) == [do |-> "lvalue", node |-> node]
Statement(node) == [do |-> "statement", node |-> node]
Declare(name) == [do |-> "declare", name |-> name]
Jump(kind, to) == [do |-> "jump", kind |-> kind, to |-> to]
Place(label) == [do |-> "place", label |-> label]
Do(what) == [do |-> what]

\* Mutant of AssignSteps: from left to right.
AssignFromTheLeft(kids) == <<LValue(kids[1]), RValue(kids[2]), Do("store above")>>

\* generate_for_assign_node: the right side comes first.
AssignSteps(kids) == <<RValue(kids[2]), LValue(kids[1]), Do("store below")>>

\* generate_for_rvalue_node.
RValueSteps(node) ==
    LET kids == node.kids
    IN  CASE node.kind \in Binary -> <<RValue(kids[1]), RValue(kids[2]), Do(node.kind)>>
          [] node.kind = "NEG" -> <<RValue(kids[1]), Do("NEG")>>
          [] node.kind = "GET_ADDRESS" -> <<LValue(kids[1])>>
          [] node.kind = "PREFIX_INC" ->
                 <<LValue(kids[1]), Do("copy"), Do("LOAD"), Do("integer only"),
                   [do |-> "constant", literal |-> "1"], Do("ADD"), Do("store above")>>
          [] node.kind = "INTEGER" -> <<[do |-> "constant", literal |-> node.name]>>
          [] node.kind \in {"IDENTIFIER", "DEREFERENCE"} -> <<LValue(node), Do("LOAD")>>
          [] node.kind = "ASSIGN" -> AssignSteps(kids)
          [] OTHER -> <<Do("throw")>>

\* generate_for_lvalue_node; anything else is not an lvalue.
LValueSteps(node) ==
    CASE node.kind = "IDENTIFIER" -> <<[do |-> "find", name |-> node.name]>>
      [] node.kind = "DEREFERENCE" -> <<RValue(node.kids[1]), Do("pointer only")>>
      [] OTHER -> <<Do("throw")>>

Condition(node) == <<RValue(node), Do("condition")>>

\* generate_for_if_else_node: the gotos get their label when both exist.
IfElseSteps(kids, new) ==
    Condition(kids[1])
        \o <<Jump("branch", <<new, new + 1>>), Place(new), Statement(kids[2]),
             [do |-> "goto end", to |-> new + 2], Place(new + 1)>>
        \o [k \in 1 .. Len(kids) - 2 |-> Statement(kids[3])]
        \o <<[do |-> "goto end", to |-> new + 2], Do("set end"), Do("set end"), Place(new + 2)>>

\* generate_for_for_loop_node.
ForLoopSteps(kids, new) ==
    LET endless == kids[2].kind = "EMPTY"
    IN  <<Statement(kids[1]), Place(new)>>
            \o (IF endless THEN <<>>
                ELSE Condition(kids[2]) \o <<Jump("branch", <<new + 1, new + 2>>), Place(new + 1)>>)
            \o <<Statement(kids[4]), Statement(kids[3]), Jump("goto", <<new>>)>>
            \o (IF endless THEN <<>> ELSE <<Place(new + 2)>>)

\* Mutant of WhileLoopSteps: the label behind the loop is not placed.
WhileWithoutEnd(kids, new) ==
    <<Place(new)>> \o Condition(kids[1])
        \o <<Jump("branch", <<new + 1, new + 2>>), Place(new + 1), Statement(kids[2]),
             Jump("goto", <<new>>)>>

\* generate_for_while_loop_node.
WhileLoopSteps(kids, new) ==
    <<Place(new)>> \o Condition(kids[1])
        \o <<Jump("branch", <<new + 1, new + 2>>), Place(new + 1), Statement(kids[2]),
             Jump("goto", <<new>>), Place(new + 2)>>

\* generate_for_do_while_node.
DoWhileSteps(kids, new) ==
    <<Place(new), Statement(kids[1])>> \o Condition(kids[2])
        \o <<Jump("branch", <<new, new + 1>>), Place(new + 1)>>

\* Mutant of CompoundSteps: a block has no scope of its own.
CompoundWithoutScope(kids) == [k \in DOMAIN kids |-> Statement(kids[k])]

\* generate_for_compound_statement_node.
CompoundSteps(kids) ==
    <<Do("push scope")>> \o [k \in DOMAIN kids |-> Statement(kids[k])] \o <<Do("pop scope")>>

\* generate_for_variable_declaration_node: the name is known to its initializer.
VariableSteps(node) ==
    <<Declare(node.name)>>
        \o (IF node.kids = <<>> THEN <<Do("drop")>>
            ELSE <<RValue(node.kids[1]), Do("store above"), Do("drop")>>)

ReturnSteps(node) ==
    IF node.kids[1].kind = "EMPTY" THEN <<Do("throw")>>
    ELSE <<RValue(node.kids[1]), Do("RETURN")>>

\* generate_for_non_value_node.  An expression is evaluated; a dereference is
\* treated once more, as the operand of an address.  The declaration of a function
\* among others is no such node.
StatementSteps(node, new) ==
    LET kids == node.kids
    IN  CASE node.kind = "EMPTY" -> <<>>
          [] node.kind = "IF_ELSE" -> IfElseSteps(kids, new)
          [] node.kind = "FOR_LOOP" -> ForLoopSteps(kids, new)
          [] node.kind = "WHILE_LOOP" -> WhileLoopSteps(kids, new)
          [] node.kind = "DO_WHILE" -> DoWhileSteps(kids, new)
          [] node.kind = "COMPOUND_STATEMENT" -> CompoundSteps(kids)
          [] node.kind = "DECLARATION_STATEMENT" -> [k \in DOMAIN kids |-> Statement(kids[k])]
          [] node.kind = "VARIABLE_DECLARATION" -> VariableSteps(node)
          [] node.kind = "FUNCTION_DECLARATION" -> <<Do("throw")>>
          [] node.kind = "RETURN" -> ReturnSteps(node)
          [] node.kind = "IDENTIFIER" -> <<LValue(node), Do("drop")>>
          [] node.kind = "DEREFERENCE" -> <<LValue(node), Do("drop"), LValue(kids[1]), Do("drop")>>
          [] OTHER -> <<RValue(node), Do("drop")>>

NewLabels(kind) ==
    CASE kind \in {"IF_ELSE", "FOR_LOOP", "WHILE_LOOP"} -> 3
      [] kind = "DO_WHILE" -> 2
      [] OTHER -> 0

\* generate_for_function_declaration_node.  That a parameter is stored before its name is
\* known makes no difference: nobody sees the store if the name is there already.
FunctionSteps(f) ==
    <<Do("push scope")>>
        \o FlattenSeq([i \in DOMAIN f.parameters |->
                         <<Declare(f.parameters[i]),
                           [do |-> "parameter", name |-> f.parameters[i], number |-> i],
                           Do("store above"), Do("drop")>>])
        \o <<Statement(f.body), Do("finish"), Do("pop scope"), Do("append function")>>

\* work: the codes of a declaration are those of the outermost builder.  A declarator
\* with a body that is not a function is neither.
FileSteps(f) ==
    CASE f.body.kind = "COMPOUND_STATEMENT" -> FunctionSteps(f)
      [] f.body.kind = "DECLARATION_STATEMENT" -> <<Statement(f.body), Do("finish")>>
      [] OTHER -> <<Do("throw")>>

Init ==
    /\ InitBuilder
    /\ function \in Functions
    /\ todo = FileSteps(function)
    /\ values = <<>>
    /\ scopes = <<[n \in {} |-> 0]>>
    /\ created = 0
    /\ operation = <<>>
    /\ outcome = "generating"

-----------------------------------------------------------------------------
Now == Head(todo)
At(steps) == outcome = "generating" /\ todo # <<>> /\ Now.do \in steps
Proceed == todo' = Tail(todo)

Held(n) == values[Len(values) + 1 - n]  \* the n-th latest value
Without(n) == SubSeq(values, 1, Len(values) - n)

\* generate_for_identifier_node: the symbol tables that have the name.
Having(name) == {i \in DOMAIN scopes : name \in DOMAIN scopes[i]}

\* Mutant of Found: the outermost declaration.
FoundOutermost(name) == scopes[Min(Having(name))][name]

\* The variable of the innermost table that has the name.
Found(name) == scopes[Max(Having(name))][name]

\* The generator throws, or the CodeBuilder does: of the types it compares those of
\* a store and those of NOT_EQUAL, and it branches on a bool.  An array has no size.
Throws ==
    CASE Now.do = "throw" -> TRUE
      [] Now.do = "find" -> Having(Now.name) = {}
      [] Now.do = "declare" -> Now.name \in DOMAIN Last(scopes) \/ TypeOf(Now.name) = ArrayType
      [] Now.do = "integer only" -> Held(1).type # IntType
      [] Now.do = "pointer only" -> ~IsPointer(Held(1).type)
      [] Now.do = "NOT_EQUAL" -> Held(1).type # Held(2).type
      [] Now.do = "condition" -> Held(1).type \notin {IntType, BoolType}
      [] Now.do = "RETURN" -> Held(1).type # function.returns
      [] Now.do = "store above" -> Aim(Held(2).type) # Held(1).type
      [] Now.do = "store below" -> Aim(Held(1).type) # Held(2).type
      [] OTHER -> FALSE

\* Nobody sees the codes of a function that threw.
Throw ==
    /\ outcome = "generating" /\ todo # <<>>
    /\ Throws
    /\ outcome' = "threw"
    /\ UNCHANGED <<builder, function, todo, locals, scopes, operation>>

-----------------------------------------------------------------------------
(***************************************************************************)
(* Calls, and what only changes the locals of the generator.               *)
(***************************************************************************)
EvaluateNode ==
    /\ At({"rvalue", "lvalue"})
    /\ todo' = (IF Now.do = "rvalue" THEN RValueSteps(Now.node) ELSE LValueSteps(Now.node)) \o Tail(todo)
    /\ UNCHANGED <<builder, function, locals, scopes, operation, outcome>>

GenerateStatement ==
    /\ At({"statement"})
    /\ todo' = StatementSteps(Now.node, created + 1) \o Tail(todo)
    /\ created' = created + NewLabels(Now.node.kind)
    /\ UNCHANGED <<builder, function, values, scopes, operation, outcome>>

\* A value is made, found, copied, checked or dropped.
Local ==
    /\ At({"constant", "parameter", "find", "copy", "drop", "integer only", "pointer only"})
    /\ ~Throws
    /\ values' =
        CASE Now.do = "constant" -> Append(values, Constant(Now.literal))
          [] Now.do = "parameter" -> Append(values, Value(TypeOf(Now.name), <<"parameter", Now.number>>))
          [] Now.do = "find" -> Append(values, Value(PointerTo(TypeOf(Now.name)), Found(Now.name)))
          [] Now.do = "copy" -> Append(values, Held(1))
          [] Now.do = "drop" -> Without(1)
          [] OTHER -> values
    /\ Proceed
    /\ UNCHANGED <<builder, function, created, scopes, operation, outcome>>

\* format_condition_value: an int is compared with 0.
FormatCondition ==
    /\ At({"condition"})
    /\ ~Throws
    /\ todo' = (IF Held(1).type = BoolType THEN <<>>
                ELSE <<[do |-> "constant", literal |-> "0"], Do("NOT_EQUAL")>>) \o Tail(todo)
    /\ UNCHANGED <<builder, function, locals, scopes, operation, outcome>>

\* push_symbol_ctx.
PushScope ==
    /\ At({"push scope"})
    /\ scopes' = Append(scopes, [n \in {} |-> 0])
    /\ Proceed
    /\ UNCHANGED <<builder, function, locals, operation, outcome>>

\* pop_symbol_ctx.
PopScope ==
    /\ At({"pop scope"})
    /\ scopes' = Front(scopes)
    /\ Proceed
    /\ UNCHANGED <<builder, function, locals, operation, outcome>>

\* leave_function and append_function: the root table is empty, as a file has one
\* function and no variable besides.
AppendFunction ==
    /\ At({"append function"})
    /\ scopes' = <<FunctionName :> <<"function">> >>
    /\ Proceed
    /\ UNCHANGED <<builder, function, locals, operation, outcome>>

-----------------------------------------------------------------------------
(***************************************************************************)
(* Calls of the CodeBuilder.                                               *)
(***************************************************************************)
NewPosition == Len(code_list) + 1

AppendOperation(kind, to, op, of) ==
    /\ NewCode([kind |-> kind, to |-> to])
    /\ operation' = operation @@ (NewPosition :> [op |-> op, of |-> of])

\* append_alloca and append_variable.
DeclareVariable ==
    /\ At({"declare"})
    /\ ~Throws
    /\ NewAlloca
    /\ LET address == Alloca(Len(alloca_list) + 1)
       IN  /\ scopes' = [scopes EXCEPT ![Len(scopes)] = (Now.name :> address) @@ @]
           /\ values' = Append(values, Value(PointerTo(TypeOf(Now.name)), address))
    /\ Proceed
    /\ UNCHANGED <<function, created, operation, outcome>>

\* The result of an operation on values of these types.
ResultType(op, types) ==
    CASE op = "LOAD" -> Aim(types[1])
      [] op \in Comparisons -> BoolType
      [] OTHER -> types[1]

\* A code computes a value from the latest ones.
Compute ==
    /\ At(Binary \cup {"LOAD", "NEG"})
    /\ ~Throws
    /\ LET count == IF Now.do \in Binary THEN 2 ELSE 1
           operands == SubSeq(values, Len(values) + 1 - count, Len(values))
           type == ResultType(Now.do, [i \in 1 .. count |-> operands[i].type])
       IN  /\ AppendOperation("plain", <<>>, Now.do, [i \in 1 .. count |-> operands[i].at])
           /\ values' = Append(Without(count), Value(type, <<"code", NewPosition>>))
    /\ Proceed
    /\ UNCHANGED <<function, created, scopes, outcome>>

\* The address is above or below the value, which is the result.
Store ==
    /\ At({"store above", "store below"})
    /\ ~Throws
    /\ LET value == IF Now.do = "store above" THEN Held(1) ELSE Held(2)
           address == IF Now.do = "store above" THEN Held(2) ELSE Held(1)
       IN  /\ AppendOperation("plain", <<>>, "STORE", <<value.at, address.at>>)
           /\ values' = Append(Without(2), value)
    /\ Proceed
    /\ UNCHANGED <<function, created, scopes, outcome>>

AppendJump ==
    /\ At({"jump"})
    /\ IF Now.kind = "branch"
       THEN AppendOperation("branch", Now.to, "BRANCH", <<Held(1).at>>) /\ values' = Without(1)
       ELSE AppendOperation("goto", Now.to, "GOTO", <<>>) /\ UNCHANGED values
    /\ Proceed
    /\ UNCHANGED <<function, created, scopes, outcome>>

AppendReturn ==
    /\ At({"RETURN"})
    /\ ~Throws
    /\ AppendOperation("return", <<>>, "RETURN", <<Held(1).at>>)
    /\ values' = Without(1)
    /\ Proceed
    /\ UNCHANGED <<function, created, scopes, outcome>>

AppendPlaceOfLabel ==
    /\ At({"place"})
    /\ PlaceLabel(Now.label)
    /\ Proceed
    /\ UNCHANGED <<function, locals, scopes, operation, outcome>>

\* append_goto(nullptr): the goto is held until its label exists.
AppendGotoEnd ==
    /\ At({"goto end"})
    /\ AppendOperation("goto", <<NoLabel>>, "GOTO", <<>>)
    /\ values' = Append(values, [goto |-> NewPosition, end |-> Now.to])
    /\ Proceed
    /\ UNCHANGED <<function, created, scopes, outcome>>

\* use_setter of a goto.
SetEnd ==
    /\ At({"set end"})
    /\ code_list' = [code_list EXCEPT ![Held(1).goto].to = <<Held(1).end>>]
    /\ values' = Without(1)
    /\ Proceed
    /\ UNCHANGED <<alloca_list, appended_label, dest_code, appended, finished>>
    /\ UNCHANGED <<function, created, scopes, operation, outcome>>

FinishCodes ==
    /\ At({"finish"})
    /\ EndCodes
    /\ Proceed
    /\ UNCHANGED <<function, locals, scopes, operation, outcome>>

Return ==
    /\ outcome = "generating"
    /\ todo = <<>>
    /\ outcome' = "done"
    /\ UNCHANGED <<builder, function, todo, locals, scopes, operation>>

\* work() has returned or thrown.
Over == outcome \in {"done", "threw"} /\ UNCHANGED vars

Next ==
    \/ Throw
    \/ EvaluateNode \/ GenerateStatement \/ Local \/ FormatCondition \/ PushScope \/ PopScope
    \/ AppendFunction
    \/ DeclareVariable \/ Compute \/ Store \/ AppendJump \/ AppendReturn
    \/ AppendPlaceOfLabel \/ AppendGotoEnd \/ SetEnd \/ FinishCodes
    \/ Return \/ Over

Spec == Init /\ [][Next]_vars
====
