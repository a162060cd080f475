------------------------------ MODULE Parser ------------------------------
(***************************************************************************)
(* src/front/parser.cpp: a recursive descent over the tokens of a file,    *)
(* one function for each part of the grammar.  What the running calls have *)
(* still to do is todo, and what they hold in their local variables is     *)
(* values, the latest last.  What follows in the file is open until the    *)
(* parser looks at it, so that every file over some tokens is parsed.      *)
(*                                                                         *)
(* Tokens are their text.  "x" and "y" are the names and "1" the number,   *)
(* "ED" the end of the file and "?" an unknown token; "/" is like "*",     *)
(* "!=" like "==", "<=" and ">=" like "<" and ">", "++" and "--" like "&". *)
(* A node is <<kind, child, ...>>.                                         *)
(***************************************************************************)
EXTENDS Grammar

CONSTANT Starts  \* what is parsed, a sequence of [call, most, length]: the function that
                 \* is called, and (a bound) how often each token may occur in the file
                 \* and how many there may be altogether

VARIABLES
    start,   \* the index in Starts
    read,   \* history: the tokens taken from the lexer
    look,    \* the token the parser has looked at, or Unseen
    todo,    \* the steps still to take
    values,  \* the nodes and declarators under construction
    outcome  \* "parsing", "done", "threw" or "undefined"

vars == <<start, read, look, todo, values, outcome>>

Unseen == "unseen"
Names == {"x", "y"}
Numbers == {"1"}
Empty == <<"EMPTY">>

\* What peek may return; the lexer does not get past the end or an unknown token.
Tokens ==
    IF look # Unseen THEN {look}
    ELSE IF read # <<>> /\ Last(read) \in {"ED", "?"} THEN {Last(read)}
    ELSE {"ED"} \cup {t \in DOMAIN Starts[start].most :
                          Len(read) < Starts[start].length /\ Count(read, t) < Starts[start].most[t]}

\* next and peek.
Take(t) == read' = Append(read, t) /\ look' = Unseen /\ UNCHANGED start
Keep(t) == look' = t /\ UNCHANGED <<start, read>>
KeepAll == UNCHANGED <<start, read, look>>

Doing(step) == outcome = "parsing" /\ todo # <<>> /\ Head(todo)[1] = step
Argument == Head(todo)[2]
Go(steps) == todo' = steps \o Tail(todo) /\ UNCHANGED outcome

Pushed(value) == Append(values, value)
TopValue(n) == values[Len(values) - n]
Popped(n) == SubSeq(values, 1, Len(values) - n)
LastValues(n) == SubSeq(values, Len(values) - n + 1, Len(values))

Fail(why) == outcome' = why /\ UNCHANGED <<todo, values>>

\* Go on with a value, unless what should have made it failed.
PushUnlessFailed(others, result) ==
    IF Failed(result) THEN Fail(result[1])
    ELSE values' = Append(others, result) /\ Go(<<>>)

-----------------------------------------------------------------------------
(***************************************************************************)
(* The functions, as steps.                                                *)
(***************************************************************************)
Step(name) == <<name>>
Expect(t) == <<"expect", t>>
Build(kind, n) == <<"build", kind, n>>

PrefixOperators == [t \in {"-", "&", "*"} |->
    CASE t = "-" -> "NEG" [] t = "&" -> "GET_ADDRESS" [] t = "*" -> "DEREFERENCE"]

\* The operators of parse_multiply_and_division, parse_add_and_subtraction,
\* parse_relation and parse_equality, and what they build.
Operators == <<
    [t \in {"*"} |-> "MUL"],
    [t \in {"+", "-"} |-> IF t = "+" THEN "ADD" ELSE "SUB"],
    [t \in {"<", ">"} |-> "LESS_THAN"],
    [t \in {"=="} |-> "EQUAL"]>>

\* Mutant of LevelSteps: the loop over the operators of the level itself is missing.
LowerSteps(level) == <<Step("unary")>> \o [l \in 1 .. level - 1 |-> <<"operators", l>>]

\* The function for a level: its operands, down to parse_unary, and then loops over
\* operators.
LevelSteps(level) == <<Step("unary")>> \o [l \in 1 .. level |-> <<"operators", l>>]

\* parse_expression and parse_assignment.
Expression == LevelSteps(4) \o <<Step("assign")>>

\* parse_declarator, with a new transformer.
Declarator(expect_identifier) == <<Step("transformer"), Step("pointer"), <<"direct", expect_identifier>>>>

ForSteps == <<Expect("("), <<"optional", ";">>, Expect(";"), <<"optional", ";">>, Expect(";"),
              <<"optional", ")">>, Expect(")"), Step("statement"), Build("FOR_LOOP", 4)>>
DoSteps == <<Step("statement"), Expect("while"), Expect("(")>> \o Expression
               \o <<Expect(")"), Expect(";"), Build("DO_WHILE", 2)>>
WhileSteps == <<Expect("(")>> \o Expression \o <<Expect(")"), Step("statement"), Build("WHILE_LOOP", 2)>>
IfSteps == <<Expect("(")>> \o Expression \o <<Expect(")"), Step("statement"), Step("else")>>
ReturnSteps == Expression \o <<Build("RETURN", 1), Expect(";")>>
DeclarationSteps == <<Expect("int"), <<"declarators", 0>>>>

Init ==
    /\ start \in DOMAIN Starts
    /\ read = <<>> /\ look = Unseen
    /\ todo = IF Starts[start].call = "expression" THEN Expression ELSE <<Step(Starts[start].call)>>
    /\ values = <<>>
    /\ outcome = "parsing"

\* expect_next, and parse_type_specifier.
ExpectNext ==
    /\ Doing("expect")
    /\ \E t \in Tokens :
        /\ Take(t)
        /\ IF t = Argument THEN Go(<<>>) /\ UNCHANGED values ELSE Fail("threw")

BuildNode ==
    /\ Doing("build")
    /\ LET n == Head(todo)[3] IN values' = Append(Popped(n), <<Argument>> \o LastValues(n))
    /\ Go(<<>>)
    /\ KeepAll

-----------------------------------------------------------------------------
(***************************************************************************)
(* Expressions.                                                            *)
(***************************************************************************)
\* Mutant of ParsePrefix: a plus is looked at and not taken.
ParsePrefixButPlus ==
    /\ Doing("unary")
    /\ \E t \in Tokens \cap (DOMAIN PrefixOperators \cup {"+"}) :
        /\ IF t = "+" THEN Keep(t) ELSE Take(t)
        /\ Go(<<Step("unary")>> \o IF t = "+" THEN <<>> ELSE <<Build(PrefixOperators[t], 1)>>)
        /\ UNCHANGED values

\* parse_unary in front of an operator; a plus builds nothing.
ParsePrefix ==
    /\ Doing("unary")
    /\ \E t \in Tokens \cap (DOMAIN PrefixOperators \cup {"+"}) :
        /\ Take(t)
        /\ Go(<<Step("unary")>> \o IF t = "+" THEN <<>> ELSE <<Build(PrefixOperators[t], 1)>>)
        /\ UNCHANGED values

\* parse_unary and parse_primary.
ParsePrimary ==
    /\ Doing("unary")
    /\ \E t \in Tokens \ (DOMAIN PrefixOperators \cup {"+"}) :
        /\ Take(t)
        /\ \/ t \in Names /\ values' = Pushed(<<"IDENTIFIER", t>>) /\ Go(<<>>)
           \/ t \in Numbers /\ values' = Pushed(<<"INTEGER", t>>) /\ Go(<<>>)
           \/ t = "(" /\ Go(Expression \o <<Expect(")")>>) /\ UNCHANGED values
           \/ t \notin Names \cup Numbers \cup {"("} /\ Fail("threw")

\* The loop of parse_multiply_and_division and so on; greater is less the other way.
ParseOperators ==
    /\ Doing("operators")
    /\ \E t \in Tokens :
        IF t \in DOMAIN Operators[Argument]
        THEN /\ Take(t)
             /\ Go(LevelSteps(Argument - 1) \o (IF t = ">" THEN <<Step("swap")>> ELSE <<>>)
                       \o <<Build(Operators[Argument][t], 2), Head(todo)>>)
             /\ UNCHANGED values
        ELSE Keep(t) /\ Go(<<>>) /\ UNCHANGED values

SwapOperands ==
    /\ Doing("swap")
    /\ values' = Popped(2) \o <<TopValue(0), TopValue(1)>>
    /\ Go(<<>>)
    /\ KeepAll

\* parse_assignment behind its left side.
ParseAssign ==
    /\ Doing("assign")
    /\ \E t \in Tokens :
        IF t = "=" THEN Take(t) /\ Go(Expression \o <<Build("ASSIGN", 2)>>) /\ UNCHANGED values
        ELSE Keep(t) /\ Go(<<>>) /\ UNCHANGED values

-----------------------------------------------------------------------------
(***************************************************************************)
(* Statements.                                                             *)
(***************************************************************************)
\* parse_statement, with the first token of the statement, or parse_expression_statement.
ParseStatement ==
    /\ Doing("statement")
    /\ UNCHANGED values
    /\ \E t \in Tokens \ {";"} :
        \/ t = "{" /\ Take(t) /\ Go(<<<<"block", 0>>>>)
        \/ t = "if" /\ Take(t) /\ Go(IfSteps)
        \/ t = "for" /\ Take(t) /\ Go(ForSteps)
        \/ t = "do" /\ Take(t) /\ Go(DoSteps)
        \/ t = "while" /\ Take(t) /\ Go(WhileSteps)
        \/ t = "return" /\ Take(t) /\ Go(ReturnSteps)
        \/ /\ t \notin {"{", "if", "for", "do", "while", "return"}
           /\ Keep(t) /\ Go(Expression \o <<Expect(";")>>)

ParseEmptyStatement ==
    /\ Doing("statement")
    /\ ";" \in Tokens
    /\ Take(";")
    /\ values' = Pushed(Empty)
    /\ Go(<<>>)

\* The loop of parse_compound_statement, which has parsed Argument children.
ParseBlock ==
    /\ Doing("block")
    /\ \E t \in Tokens :
        \/ t = "}" /\ Take(t) /\ Go(<<Build("COMPOUND_STATEMENT", Argument)>>)
        \/ t = "int" /\ Keep(t) /\ Go(DeclarationSteps \o <<<<"child", Argument>>>>)
        \/ t \notin {"}", "int"} /\ Keep(t) /\ Go(<<Step("statement"), <<"child", Argument>>>>)
    /\ UNCHANGED values

\* An empty statement is left out.
AddChild ==
    /\ Doing("child")
    /\ IF TopValue(0) = Empty THEN values' = Popped(1) /\ Go(<<<<"block", Argument>>>>)
       ELSE Go(<<<<"block", Argument + 1>>>>) /\ UNCHANGED values
    /\ KeepAll

\* parse_select_statement behind the first statement.
ParseElse ==
    /\ Doing("else")
    /\ \E t \in Tokens :
        IF t = "else" THEN Take(t) /\ Go(<<Step("statement"), Build("IF_ELSE", 3)>>)
        ELSE Keep(t) /\ Go(<<Build("IF_ELSE", 2)>>)
    /\ UNCHANGED values

\* parse_iteration_statement: the parts of a for may be left out.
ParseOptional ==
    /\ Doing("optional")
    /\ \E t \in Tokens :
        /\ Keep(t)
        /\ IF t = Argument THEN values' = Pushed(Empty) /\ Go(<<>>)
           ELSE Go(Expression) /\ UNCHANGED values

-----------------------------------------------------------------------------
(***************************************************************************)
(* Declarators.                                                            *)
(***************************************************************************)
Transformer == TopValue(0)
AddBuilders(builders) ==
    values' = Append(Popped(1), [Transformer EXCEPT !.builders = @ \o builders])

\* The type of the declarator on top of values, and its parameter.
DeclaredType == Accept(Transformer.builders, IntType)
Parameter == <<DeclaredType, Transformer.name>>

NewTransformer ==
    /\ Doing("transformer")
    /\ values' = Pushed([name |-> "", builders |-> <<>>])
    /\ Go(<<>>)
    /\ KeepAll

ParsePointer ==
    /\ Doing("pointer")
    /\ \E t \in Tokens :
        IF t = "*" THEN Take(t) /\ AddBuilders(<<<<"POINTER">>>>) /\ UNCHANGED <<todo, outcome>>
        ELSE Keep(t) /\ Go(<<>>) /\ UNCHANGED values

\* parse_direct_declatator; Argument tells if there must be a name.
ParseDirectDeclarator ==
    /\ Doing("direct")
    /\ \E t \in Tokens :
        \/ /\ t \in Names
           /\ Take(t)
           /\ values' = Append(Popped(1), [Transformer EXCEPT !.name = t])
           /\ Go(<<Step("suffix")>>)
        \/ /\ t = "("
           /\ Take(t)
           /\ Go(Declarator(Argument) \o <<Expect(")"), Step("close")>>)
           /\ UNCHANGED values
        \/ /\ t \notin Names \cup {"("}
           /\ Keep(t)
           /\ IF Argument THEN Fail("threw") ELSE Go(<<>>) /\ UNCHANGED values

\* Mutant of CloseParentheses: what is in parentheses is applied first.
CloseParenthesesFirst ==
    /\ Doing("close")
    /\ values' = Append(Popped(2), [name |-> Transformer.name,
                                   builders |-> TopValue(1).builders \o Transformer.builders])
    /\ Go(<<Step("suffix")>>)
    /\ KeepAll

\* Behind a declarator in parentheses: what it does comes after the suffix.
CloseParentheses ==
    /\ Doing("close")
    /\ values' = Append(Popped(2), [TopValue(1) EXCEPT !.name = Transformer.name])
    /\ Go(<<Step("suffix"), <<"push", Transformer.builders>>>>)
    /\ KeepAll

PushBuilders ==
    /\ Doing("push")
    /\ AddBuilders(Argument)
    /\ Go(<<>>)
    /\ KeepAll

\* parse_function_array_suffix: suffixes further right are pushed before.
PushBehindSuffix(builder) == <<Step("suffix"), <<"push", <<builder>>>>>>

ParseSuffix ==
    /\ Doing("suffix")
    /\ \E t \in Tokens :
        \/ t = "(" /\ Take(t) /\ Go(<<Step("list")>>)
        \/ t = "[" /\ Take(t) /\ Go(<<Step("size")>>)
        \/ t \notin {"(", "["} /\ Keep(t) /\ Go(<<>>)
    /\ UNCHANGED values

\* The size of an array is left out or a constant expression.
ParseSize ==
    /\ Doing("size")
    /\ \E t \in Tokens :
        /\ Keep(t)
        /\ Go(IF t = "]" THEN <<Expect("]")>> \o PushBehindSuffix(<<"ARRAY", "unknown">>)
              ELSE LevelSteps(4) \o <<Step("count")>>)
    /\ UNCHANGED values

\* Only a number is a size.
CheckCount ==
    /\ Doing("count")
    /\ IF TopValue(0)[1] # "INTEGER" THEN Fail("threw")
       ELSE /\ values' = Popped(1)
            /\ Go(<<Expect("]")>> \o PushBehindSuffix(<<"ARRAY", TopValue(0)[2]>>))
    /\ KeepAll

\* The first token of a list decides what it is a list of.
ParseList ==
    /\ Doing("list")
    /\ \E t \in Tokens :
        /\ Keep(t)
        /\ Go(CASE t \in Names -> <<<<"identifiers", <<>>>>>>
               [] t = "int" -> <<<<"parameters", <<>>>>>>
               [] OTHER -> <<Expect(")")>> \o PushBehindSuffix(<<"FUNCTION", <<>>>>))
    /\ UNCHANGED values

\* The loops of parse_identifier_list and parse_parameter_type_list, which have
\* parsed Argument.
ParseListItem ==
    /\ \/ Doing("identifiers")
       \/ Doing("parameters")
    /\ \E t \in Tokens :
        /\ Keep(t)
        /\ LET comma == IF Argument = <<>> THEN <<>> ELSE <<Expect(",")>>
           IN  Go(IF t = ")" THEN <<Expect(")")>> \o PushBehindSuffix(<<"FUNCTION", Argument>>)
                  ELSE IF Head(todo)[1] = "identifiers" THEN comma \o <<<<"identifier", Argument>>>>
                  ELSE comma \o <<Expect("int")>> \o Declarator(FALSE) \o <<<<"parameter", Argument>>>>)
    /\ UNCHANGED values

ParseIdentifier ==
    /\ Doing("identifier")
    /\ \E t \in Tokens :
        /\ Take(t)
        /\ IF t \in Names THEN Go(<<<<"identifiers", Append(Argument, <<NoType, t>>)>>>>) /\ UNCHANGED values
           ELSE Fail("threw")

AddParameter ==
    /\ Doing("parameter")
    /\ values' = Popped(1)
    /\ Go(<<<<"parameters", Append(Argument, Parameter)>>>>)
    /\ KeepAll

-----------------------------------------------------------------------------
(***************************************************************************)
(* Declarations.                                                           *)
(***************************************************************************)
\* Behind the declarator of parse_init_declarator.
ParseInitializer ==
    /\ Doing("initializer")
    /\ \E t \in Tokens :
        IF t = "=" THEN Take(t) /\ Go(Expression \o <<<<"declare", 1>>>>)
        ELSE Keep(t) /\ Go(<<<<"declare", 0>>>>)
    /\ UNCHANGED values

\* The declarator below Argument initializers becomes a node.
Declare ==
    /\ Doing("declare")
    /\ LET declarator == TopValue(Argument)
       IN  PushUnlessFailed(Popped(Argument + 1),
               Declaration(declarator.name, Accept(declarator.builders, IntType), LastValues(Argument)))
    /\ KeepAll

\* The loop of parse_declaration, which has parsed Argument declarators.
ParseDeclarators ==
    /\ Doing("declarators")
    /\ \E t \in Tokens :
        IF t = ";" THEN Take(t) /\ Go(<<Build("DECLARATION_STATEMENT", Argument)>>)
        ELSE Keep(t) /\ Go(Declarator(TRUE) \o <<Step("initializer"), <<"comma", Argument + 1>>>>)
    /\ UNCHANGED values

ParseComma ==
    /\ Doing("comma")
    /\ \E t \in Tokens :
        /\ Keep(t)
        /\ Go(IF t = ";" THEN <<<<"declarators", Argument>>>> ELSE <<Expect(","), <<"declarators", Argument>>>>)
    /\ UNCHANGED values

\* parse_translation_unit.
ParseTranslationUnit ==
    /\ Doing("unit")
    /\ Go(<<Step("external"), Expect("ED")>>)
    /\ UNCHANGED values
    /\ KeepAll

\* parse_declaration_or_function_definition; without a type specifier, of a function.
ParseExternal ==
    /\ Doing("external")
    /\ \E t \in Tokens :
        IF t = "int" THEN Take(t) /\ Go(<<Step("typed")>>)
        ELSE Keep(t) /\ Go(Declarator(TRUE) \o <<<<"old style", 0>>>>)
    /\ UNCHANGED values

ParseTyped ==
    /\ Doing("typed")
    /\ \E t \in Tokens :
        /\ Keep(t)
        /\ Go(IF t = ";" THEN <<<<"declarators", 0>>>> ELSE Declarator(TRUE) \o <<Step("declared")>>)
    /\ UNCHANGED values

\* Behind the first declarator: a declaration, or else a function definition.
ParseDeclared ==
    /\ Doing("declared")
    /\ \E t \in Tokens :
        \/ t = ";" /\ Keep(t) /\ Go(<<<<"declare", 0>>, <<"declarators", 1>>>>)
        \/ t = "," /\ Take(t) /\ Go(<<<<"declare", 0>>, <<"declarators", 1>>>>)
        \/ t = "=" /\ Take(t) /\ Go(Expression \o <<Step("skip comma"), <<"declare", 1>>, <<"declarators", 1>>>>)
        \/ t \notin {";", ",", "="} /\ Keep(t) /\ Go(<<<<"old style", 0>>>>)
    /\ UNCHANGED values

\* Behind the first initializer a comma may follow.
SkipComma ==
    /\ Doing("skip comma")
    /\ \E t \in Tokens : IF t = "," THEN Take(t) ELSE Keep(t)
    /\ Go(<<>>)
    /\ UNCHANGED values

\* The loop of parse_declaration_list, which has parsed Argument declarations, and
\* parse_compound_statement for the body.
ParseOldStyle ==
    /\ Doing("old style")
    /\ \E t \in Tokens :
        /\ Keep(t)
        /\ Go(IF t = "int" THEN DeclarationSteps \o <<<<"old style", Argument + 1>>>>
              ELSE <<Expect("{"), <<"block", 0>>, <<"define", Argument>>>>)
    /\ UNCHANGED values

\* Below the body are Argument declarations, and below these the declarator.
Define ==
    /\ Doing("define")
    /\ LET declarator == TopValue(Argument + 1)
           statements == SubSeq(values, Len(values) - Argument, Len(values) - 1)
           nodes == FlattenSeq([n \in DOMAIN statements |-> Tail(statements[n])])
           declared == [n \in DOMAIN nodes |-> <<nodes[n][3], nodes[n][2]>>]
       IN  PushUnlessFailed(Popped(Argument + 2),
               Definition(declarator.name, Accept(declarator.builders, IntType), declared, TopValue(0)))
    /\ KeepAll

Finish ==
    /\ outcome = "parsing" /\ todo = <<>>
    /\ outcome' = "done"
    /\ UNCHANGED <<start, read, look, todo, values>>

\* The parser has returned, thrown or crashed.
Over == outcome # "parsing" /\ UNCHANGED vars

Parse ==
    \/ ExpectNext \/ BuildNode
    \/ ParsePrefix \/ ParsePrimary \/ ParseOperators \/ SwapOperands \/ ParseAssign
    \/ ParseStatement \/ ParseEmptyStatement \/ ParseBlock \/ AddChild \/ ParseElse \/ ParseOptional
    \/ NewTransformer \/ ParsePointer \/ ParseDirectDeclarator \/ CloseParentheses \/ PushBuilders
    \/ ParseSuffix \/ ParseSize \/ CheckCount \/ ParseList \/ ParseListItem \/ ParseIdentifier
    \/ AddParameter
    \/ ParseInitializer \/ Declare \/ ParseDeclarators \/ ParseComma
    \/ ParseTranslationUnit \/ ParseExternal \/ ParseTyped \/ ParseDeclared \/ SkipComma
    \/ ParseOldStyle \/ Define
    \/ Finish

Next == Parse \/ Over
Spec == Init /\ [][Next]_vars /\ WF_vars(Parse)

-----------------------------------------------------------------------------
(***************************************************************************)
(* Properties.                                                             *)
(***************************************************************************)
\* The sentences of each start with their trees, and what begins a sentence.
Sentences ==
    UNION {{<<from[1]>> \o s : s \in SentencesOf(from[2])} : from \in {<<n, Starts[n]>> : n \in DOMAIN Starts}}
Beginnings ==
    UNION {{<<s[1], SubSeq(s[2], 1, k)>> : s \in {s \in Sentences : Len(s[2]) >= k}} :
               k \in 0 .. Max({Starts[n].length + 1 : n \in DOMAIN Starts})}

\* What the parser builds is a tree the grammar gives to what it has read: operators
\* bind and associate, an else finds its if, and a declarator is turned inside out, as
\* they should (parse_expression, parse_statement and parse_translation_unit).
BuildsTheTree == outcome = "done" => Len(values) = 1 /\ <<start, read, values[1]>> \in Sentences

\* The parser gives up, or is content with what it has read, just when the token it looks
\* at continues no sentence: no error is reported in the midst of a correct file.
RejectsNoSentence ==
    outcome # "parsing" =>
        /\ outcome # "done" /\ look = Unseen => <<start, read>> \notin Beginnings
        /\ look # Unseen => <<start, Append(read, look)>> \notin Beginnings

\* Every loop of the parser takes a token in each round, so that the parser comes to an
\* end: with a tree, an error or a crash.
EveryParseEnds == <>(outcome # "parsing")
=============================================================================
