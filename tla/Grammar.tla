------------------------------ MODULE Grammar ------------------------------
(***************************************************************************)
(* What parser.cpp is to accept, and what tree it is to build: the grammar *)
(* its comments give, as rules, with the precedence, the association and   *)
(* the type of declarators of C.  Where the comments and the code differ,  *)
(* the rules are those of the code and marked "as the code has it".        *)
(*                                                                         *)
(* A rule is <<left, right, label>>: what stands on its left derives what  *)
(* is on its right, a sequence of tokens and left sides, and the label     *)
(* says what tree that has, given the trees of what is derived.            *)
(***************************************************************************)
EXTENDS DeclaredTypes, FiniteSets, TLC

Illegal == <<"illegal">>

ExpressionRules ==
    {<<"primary", <<n>>, "IDENTIFIER">> : n \in {"x", "y"}} \cup
    {<<"primary", <<"1">>, "INTEGER">>,
     <<"primary", <<"(", "expression", ")">>, "">>,
     <<"unary", <<"primary">>, "">>,
     <<"unary", <<"+", "unary">>, "">>,
     <<"unary", <<"-", "unary">>, "NEG">>,
     <<"unary", <<"&", "unary">>, "GET_ADDRESS">>,
     <<"unary", <<"*", "unary">>, "DEREFERENCE">>,
     <<"product", <<"unary">>, "">>,
     <<"product", <<"product", "*", "unary">>, "MUL">>,
     <<"sum", <<"product">>, "">>,
     <<"sum", <<"sum", "+", "product">>, "ADD">>,
     <<"sum", <<"sum", "-", "product">>, "SUB">>,
     <<"relation", <<"sum">>, "">>,
     <<"relation", <<"relation", "<", "sum">>, "LESS_THAN">>,
     <<"relation", <<"relation", ">", "sum">>, "GREATER_THAN">>,
     <<"equality", <<"relation">>, "">>,
     <<"equality", <<"equality", "==", "relation">>, "EQUAL">>,
     <<"expression", <<"equality">>, "">>,
     <<"expression", <<"equality", "=", "expression">>, "ASSIGN">>}

\* An else belongs to the nearest if that has none: a statement is open if it ends
\* with an if without an else, and nothing open stands in front of an else.
StatementRules ==
    UNION {{<<end, <<"while", "(", "expression", ")", end>>, "WHILE_LOOP">>,
            <<end, <<"for", "(", "part", "part", "last part", end>>, "FOR_LOOP">>,
            <<end, <<"if", "(", "expression", ")", "closed", "else", end>>, "IF_ELSE">>,
            <<"statement", <<end>>, "">>} : end \in {"closed", "open"}} \cup
    {<<"open", <<"if", "(", "expression", ")", "statement">>, "IF_ELSE">>,
     <<"part", <<";">>, "EMPTY">>,
     <<"part", <<"expression", ";">>, "">>,
     <<"last part", <<")">>, "EMPTY">>,
     <<"last part", <<"expression", ")">>, "">>,
     <<"closed", <<"part">>, "">>,
     <<"closed", <<"block">>, "">>,
     <<"closed", <<"do", "statement", "while", "(", "expression", ")", ";">>, "DO_WHILE">>,
     <<"closed", <<"return", "expression", ";">>, "RETURN">>,
     <<"block", <<"{", "}">>, "COMPOUND_STATEMENT">>,
     <<"block", <<"{", "children", "}">>, "BLOCK">>,
     <<"child", <<"statement">>, "">>,
     <<"child", <<"declaration">>, "">>,
     <<"children", <<"child">>, "CHILD">>,
     <<"children", <<"children", "child">>, "CHILDREN">>}

\* As the code has it, a declarator without a name has no suffix unless it is in
\* parentheses, and the parentheses may be empty.
DeclaratorRules ==
    UNION {{<<d, <<d, "[", "]">>, "ARRAY">>,
            <<d, <<d, "[", "count", "]">>, "ARRAY">>,
            <<d, <<d, "(", ")">>, "FUNCTION">>,
            <<d, <<d, "(", "names", ")">>, "FUNCTION">>,
            <<d, <<d, "(", "parameters", ")">>, "FUNCTION">>} : d \in {"direct", "nameless direct"}} \cup
    {<<"name", <<n>>, "NAME">> : n \in {"x", "y"}} \cup
    {<<"count", <<"equality">>, "COUNT">>,
     <<"direct", <<"name">>, "">>,
     <<"direct", <<"(", "declarator", ")">>, "">>,
     <<"declarator", <<"direct">>, "">>,
     <<"declarator", <<"*", "declarator">>, "POINTER">>,
     <<"nameless direct", <<"(", ")">>, "NAMELESS">>,
     <<"nameless direct", <<"(", "nameless", ")">>, "">>,
     <<"nameless", <<"nameless direct">>, "">>,
     <<"nameless", <<"*">>, "NAMELESS POINTER">>,
     <<"nameless", <<"*", "nameless">>, "POINTER">>,
     <<"names", <<"name">>, "FIRST NAME">>,
     <<"names", <<"names", ",", "name">>, "NEXT NAME">>,
     <<"parameter", <<"int">>, "NAMELESS INT">>,
     <<"parameter", <<"int", "nameless">>, "PARAMETER">>,
     <<"parameter", <<"int", "declarator">>, "PARAMETER">>,
     <<"parameters", <<"parameter">>, "FIRST">>,
     <<"parameters", <<"parameters", ",", "parameter">>, "NEXT">>}

\* As the code has it, a comma may stand behind the last declarator, and the one behind
\* the first initializer of a file may be missing.
DeclarationRules ==
    {<<"initialized", <<"declarator", "=", "expression">>, "DECLARE">>,
     <<"init declarator", <<"declarator">>, "DECLARE">>,
     <<"init declarator", <<"initialized">>, "">>,
     <<"declarators", <<"init declarator">>, "FIRST">>,
     <<"declarators", <<"declarators", ",", "init declarator">>, "NEXT">>,
     <<"declaration", <<"int", ";">>, "DECLARATION_STATEMENT">>,
     <<"declaration", <<"int", "declarators", ";">>, "DECLARATION">>,
     <<"declaration", <<"int", "declarators", ",", ";">>, "DECLARATION">>,
     <<"file declarators", <<"initialized", "init declarator">>, "PAIR">>,
     <<"file declarators", <<"file declarators", ",", "init declarator">>, "NEXT">>,
     <<"old style", <<"declaration">>, "FIRST">>,
     <<"old style", <<"old style", "declaration">>, "NEXT">>,
     <<"function", <<"declarator", "block">>, "DEFINE">>,
     <<"function", <<"declarator", "old style", "block">>, "DEFINE">>,
     <<"external", <<"declaration">>, "">>,
     <<"external", <<"int", "file declarators", ";">>, "DECLARATION">>,
     <<"external", <<"int", "file declarators", ",", ";">>, "DECLARATION">>,
     <<"external", <<"function">>, "">>,
     <<"external", <<"int", "function">>, "">>,
     <<"unit", <<"external", "ED">>, "">>}

\* All left sides, in an order in which a right side of nothing but a left side
\* stands behind that one.
LeftSides == <<"primary", "unary", "product", "sum", "relation", "equality", "expression",
    "name", "count", "direct", "declarator", "nameless direct", "nameless", "names",
    "parameter", "parameters", "initialized", "init declarator", "declarators", "declaration",
    "part", "last part", "block", "closed", "open", "statement", "child", "children",
    "file declarators", "old style", "function", "external", "unit">>
Sides == ToSet(LeftSides)

-----------------------------------------------------------------------------
(***************************************************************************)
(* Trees.                                                                  *)
(***************************************************************************)
RECURSIVE TypeIn(_, _), NameIn(_), Components(_), Adjusted(_)

\* The type the name in a declarator has, if the declarator as a whole has type.
TypeIn(declarator, type) ==
    CASE declarator[1] = "NAME" -> type
      [] declarator[1] = "POINTER" -> TypeIn(declarator[2], Pointer(type, "unlimited"))
      [] declarator[1] = "ARRAY" -> TypeIn(declarator[2], Array(type, declarator[3]))
      [] declarator[1] = "FUNCTION" -> TypeIn(declarator[2], Function(type, declarator[3]))

NameIn(declarator) == IF declarator[1] = "NAME" THEN declarator[2] ELSE NameIn(declarator[2])

\* A type and all types it is made of.
Components(type) ==
    {type} \cup
    CASE type[1] \in {"POINTER", "ARRAY"} -> Components(type[2])
      [] type[1] = "FUNCTION" ->
             Components(type[2]) \cup UNION {Components(type[3][n][1]) : n \in DOMAIN type[3]}
      [] OTHER -> {}

IsLegal(type) ==
    \A t \in Components(type) :
        /\ t # NoType
        /\ t[1] = "ARRAY" => t[2][1] # "FUNCTION" /\ ~(t[2][1] = "ARRAY" /\ t[2][3] = "unknown")
        /\ t[1] = "FUNCTION" => t[2][1] \notin {"ARRAY", "FUNCTION"}

IsLegalVariable(type) == IsLegal(type) /\ ~(type[1] = "ARRAY" /\ type[3] = "unknown")

\* A legal type, whose parameters are pointers instead of functions and arrays.  As the
\* code has it, this is not done within the elements of a parameter that is an array.
Adjusted(type) ==
    LET AdjustedParameter(p) ==
            CASE p[1] = "FUNCTION" -> Pointer(Adjusted(p), "unlimited")
              [] p[1] = "ARRAY" -> Pointer(p[2], IF p[3] = "unknown" THEN "unlimited" ELSE p[3])
              [] OTHER -> Adjusted(p)
    IN  CASE type[1] \in {"POINTER", "ARRAY"} -> [type EXCEPT ![2] = Adjusted(@)]
          [] type[1] = "FUNCTION" ->
                 Function(Adjusted(type[2]),
                     [n \in DOMAIN type[3] |-> <<AdjustedParameter(type[3][n][1]), type[3][n][2]>>])
          [] OTHER -> type

\* A declaration of a function with declarations behind its parameters; of those that
\* declare the same parameter the last counts.
FunctionTree(name, type, declared, body) ==
    LET parameters == type[3]
        old == \A n \in DOMAIN parameters : parameters[n][1] = NoType
        TypeOf(parameter) ==
            LET known == {n \in DOMAIN declared : declared[n][2] = parameter}
            IN  IF known = {} THEN IntType ELSE declared[CHOOSE n \in known : \A m \in known : m <= n][3]
        full == IF old THEN Function(type[2], [n \in DOMAIN parameters |->
                                <<TypeOf(parameters[n][2]), parameters[n][2]>>])
                ELSE type
        names == {parameters[n][2] : n \in DOMAIN parameters}
    IN  IF /\ IsLegal(full)
           /\ IF old THEN /\ Cardinality(names) = Len(parameters)
                          /\ \A n \in DOMAIN declared : declared[n][2] \in names
              ELSE declared = <<>>
        THEN <<"FUNCTION_DECLARATION", name, Adjusted(full)>> \o body
        ELSE Illegal

\* As the code has it, what is not a function may have a body, as its initializer.
DeclarationTree(declarator, declared, initializer, body) ==
    LET type == TypeIn(declarator, IntType)
        name == NameIn(declarator)
    IN  CASE type[1] = "FUNCTION" /\ initializer = <<>> -> FunctionTree(name, type, declared, body)
          [] type[1] # "FUNCTION" /\ IsLegalVariable(type) ->
                 <<"VARIABLE_DECLARATION", name, Adjusted(type)>> \o initializer \o body
          [] OTHER -> Illegal

Children(child) == IF child = <<"EMPTY">> THEN <<>> ELSE <<child>>
ParameterIn(declarator) == <<TypeIn(declarator, IntType), NameIn(declarator)>>

\* The tree of a rule with a label, from its right side and the trees in it.
Tree(label, right, kids) ==
    CASE label = "" -> kids[1]
      [] label \in {"IDENTIFIER", "INTEGER", "NAME"} -> <<label, right[1]>>
      [] label = "GREATER_THAN" -> <<"LESS_THAN", kids[2], kids[1]>>
      [] label = "BLOCK" -> <<"COMPOUND_STATEMENT">> \o kids[1]
      [] label = "CHILD" -> Children(kids[1])
      [] label = "CHILDREN" -> kids[1] \o Children(kids[2])
      [] label = "COUNT" -> IF kids[1][1] = "INTEGER" THEN kids[1] ELSE Illegal
      [] label = "ARRAY" -> <<label, kids[1], IF Len(kids) = 1 THEN "unknown" ELSE kids[2][2]>>
      [] label = "FUNCTION" -> <<label, kids[1], IF Len(kids) = 1 THEN <<>> ELSE kids[2]>>
      [] label = "NAMELESS" -> <<"NAME", "">>
      [] label = "NAMELESS POINTER" -> <<"POINTER", <<"NAME", "">>>>
      [] label = "NAMELESS INT" -> <<IntType, "">>
      [] label = "PARAMETER" -> ParameterIn(kids[1])
      [] label = "FIRST NAME" -> <<<<NoType, kids[1][2]>>>>
      [] label = "NEXT NAME" -> Append(kids[1], <<NoType, kids[2][2]>>)
      [] label = "FIRST" -> kids
      [] label = "PAIR" -> kids
      [] label = "NEXT" -> Append(kids[1], kids[2])
      [] label = "DECLARE" -> DeclarationTree(kids[1], <<>>, Tail(kids), <<>>)
      [] label = "DECLARATION" -> <<"DECLARATION_STATEMENT">> \o kids[1]
      [] label = "DEFINE" ->
             LET statements == IF Len(kids) = 2 THEN <<>> ELSE kids[2]
             IN  DeclarationTree(kids[1], FlattenSeq([n \in DOMAIN statements |-> Tail(statements[n])]),
                                 <<>>, <<Last(kids)>>)
      [] OTHER -> <<label>> \o kids

-----------------------------------------------------------------------------
(***************************************************************************)
(* Sentences.  table[n][left] are the pairs of a text of n tokens that left *)
(* derives, and its tree.  A start is what is derived, call, from tokens    *)
(* that may each occur as often as most says, up to length altogether.      *)
(***************************************************************************)
RECURSIVE Derived(_, _, _), Reached(_, _)

Count(text, t) == Cardinality({i \in DOMAIN text : text[i] = t})

\* The left sides a set of them leads to by rules.
Reached(lefts, rules) ==
    LET next == lefts \cup UNION {ToSet(r[2]) \cap Sides : r \in {r \in rules : r[1] \in lefts}}
    IN  IF next = lefts THEN lefts ELSE Reached(next, rules)

\* The rules a start needs.
RulesOf(from) ==
    LET all == CASE from.call = "expression" -> ExpressionRules
                 [] from.call = "statement" -> ExpressionRules \cup StatementRules
                 [] from.call = "unit" -> ExpressionRules \cup StatementRules \cup DeclaratorRules
                                               \cup DeclarationRules
        possible == {r \in all : ToSet(r[2]) \subseteq Sides \cup DOMAIN from.most \cup {"ED"}}
        reached == Reached({from.call}, possible)
    IN  {r \in possible : r[1] \in reached}

\* The texts of n tokens a right side derives, with the trees of its left sides.
Derived(right, n, table) ==
    IF right = <<>> THEN IF n = 0 THEN {<<<<>>, <<>>>>} ELSE {}
    ELSE LET first == Head(right)
             rest == Tail(right)
         IN  IF n < Len(right) THEN {}
             ELSE IF first \notin Sides
             THEN {<<<<first>> \o d[1], d[2]>> : d \in Derived(rest, n - 1, table)}
             ELSE UNION {{<<w[1] \o d[1], <<w[2]>> \o d[2]>> :
                             w \in table[k][first], d \in Derived(rest, n - k, table)} :
                         k \in {i \in 1 .. n - Len(rest) : table[i][first] # {}}}

\* The sentences of a start with their trees.
SentencesOf(from) ==
    LET rules == RulesOf(from)
        Fits(text) == \A t \in DOMAIN from.most : Count(text, t) <= from.most[t]
        Row(table, n) ==
            LET Fill(row, side) == [row EXCEPT ![side] =
                    {s \in UNION {{<<d[1], Tree(r[3], r[2], d[2])>> :
                                       d \in {d \in Derived(r[2], n, Append(table, row)) : Fits(d[1])}} :
                                  r \in {r \in rules : r[1] = side}} : s[2] # Illegal}]
            IN  Append(table, FoldLeft(Fill, [side \in Sides |-> {}], LeftSides))
        table == FoldLeft(Row, <<>>, [n \in 1 .. from.length + 1 |-> n])
    IN  UNION {table[n][from.call] : n \in 1 .. from.length + 1}
=============================================================================
