--------------------------- MODULE MCIRGenerator ---------------------------
EXTENDS GeneratedCode

NineLabels == 1 .. 9
TypeOfName(name) ==
    CASE name = "p" -> PointerTo(IntType) [] name = "a" -> ArrayType [] OTHER -> IntType

Node(kind, name, kids) == [kind |-> kind, name |-> name, kids |-> kids]
Inner(kind, kids) == Node(kind, "", kids)
Variable(name) == Node("IDENTIFIER", name, <<>>)
One == Node("INTEGER", "1", <<>>)
X == Variable("x")
Nothing == Inner("EMPTY", <<>>)
Declaration(names) == Inner("DECLARATION_STATEMENT", names)
Declared(name, initializer) == Node("VARIABLE_DECLARATION", name, initializer)

(***************************************************************************)
(* Expressions.                                                            *)
(***************************************************************************)
Unary(set) == {Inner(k, <<e>>) : k \in {"NEG", "GET_ADDRESS", "DEREFERENCE", "PREFIX_INC"}, e \in set}
Binaries(left, right) ==
    {Inner(k, <<l, r>>) : k \in {"ADD", "EQUAL", "NOT_EQUAL", "ASSIGN"}, l \in left, r \in right}
Atoms == {X, One, Variable("p")}
Small == Atoms \cup Unary(Atoms) \cup Binaries(Atoms, Atoms)
Expressions == Unary(Small) \cup Binaries(Small, Atoms) \cup Binaries(Atoms, Small)

\* A dereference as a statement of its own, of what is not an lvalue, is left out.
IsStatement(e) == e.kind = "DEREFERENCE" => e.kids[1].kind \in {"IDENTIFIER", "DEREFERENCE"}

Block(statements) == Inner("COMPOUND_STATEMENT", statements)
File(parameters, returns, body) == [parameters |-> parameters, returns |-> returns, body |-> body]
ExpressionFunctions ==
    {File(<<"x", "p">>, IntType, Block(<<e>>)) : e \in {e \in Expressions : IsStatement(e)}}
        \cup {File(<<"x", "p">>, r, Block(<<Inner("RETURN", <<e>>)>>)) :
                  r \in {IntType, PointerTo(IntType)}, e \in Small}

\* Both sides read, or write, what the other one reads: *p, and p itself on the way
\* to *(p = &x), or x.
Aimed == Inner("DEREFERENCE", <<Variable("p")>>)
Redirected == Inner("DEREFERENCE", <<Inner("ASSIGN", <<Variable("p"), Inner("GET_ADDRESS", <<X>>)>>)>>)
Sides == {X, Aimed, Redirected, Inner("PREFIX_INC", <<X>>), Inner("ASSIGN", <<X, One>>)}
OrderFunctions ==
    {File(<<"x", "p">>, IntType, Block(<<s>>)) :
        s \in UNION {{e, Inner("RETURN", <<e>>), Inner("IF_ELSE", <<e, Nothing>>)} : e \in Binaries(Sides, Sides)}}

(***************************************************************************)
(* Statements.                                                             *)
(***************************************************************************)
Increment == Inner("PREFIX_INC", <<X>>)
Set == Inner("ASSIGN", <<X, One>>)
Simple == {Set, Inner("RETURN", <<X>>), Nothing}
IsOne == Inner("EQUAL", <<X, One>>)

Selections(bodies) ==
    {Inner("IF_ELSE", <<X, b>>) : b \in bodies} \cup {Inner("IF_ELSE", <<IsOne, b, c>>) : b, c \in bodies}
Loops(bodies) ==
    {Inner("WHILE_LOOP", <<c, b>>) : c \in {X, IsOne}, b \in bodies}
        \cup {Inner("DO_WHILE", <<b, c>>) : c \in {X, IsOne}, b \in bodies}
        \cup {Inner("FOR_LOOP", <<i, c, s, b>>) : i \in {Nothing, Set}, c \in {Nothing, IsOne},
                                                  s \in {Nothing, Increment}, b \in bodies}
Declarations ==
    {Declaration(<<Declared("x", <<>>)>>), Declaration(<<Declared("x", <<X>>)>>),
     Declaration(<<Declared("y", <<Increment>>), Declared("x", <<Variable("y")>>)>>)}

\* The parser leaves empty statements out of a block.
Blocks(statements) ==
    LET items == (statements \ {Nothing}) \cup Declarations
    IN  {Block(<<>>)} \cup {Block(<<s>>) : s \in items} \cup {Block(<<s, t>>) : s, t \in items}

Nested == Simple \cup Selections({Set, Nothing}) \cup Loops({Set})
              \cup Blocks({Set})
Bodies == Blocks(Nested) \cup {Block(<<s>>) : s \in Selections(Nested) \cup Loops(Nested)}

StatementFunctions == {File(ps, IntType, b) : ps \in {<<>>, <<"x">>}, b \in Bodies}

(***************************************************************************)
(* Files that are a declaration, or a declarator with a body; functions    *)
(* with a declaration of each kind, and with parameters of the same name.  *)
(***************************************************************************)
Declarators ==
    {Declared(n, i) : n \in {"x", "p"}, i \in {<<>>, <<X>>, <<One>>, <<Inner("GET_ADDRESS", <<X>>)>>}}
        \cup {Declared("a", <<>>), Inner("FUNCTION_DECLARATION", <<>>)}
Lists == {Declaration(<<>>)} \cup {Declaration(<<d>>) : d \in Declarators}
             \cup {Declaration(<<d, e>>) : d, e \in Declarators}
DeclarationFiles ==
    {File(<<>>, IntType, l) : l \in Lists}
        \cup {File(ps, IntType, Block(<<l>>)) : ps \in {<<"x">>, <<"x", "x">>}, l \in Lists}
        \cup {File(<<>>, IntType, Declared("x", <<Block(<<>>)>>))}

Translated == ExpressionFunctions \cup OrderFunctions \cup StatementFunctions \cup DeclarationFiles

\* Functions whose only statement is one of the dereferences left out above.
DereferenceStatements ==
    {File(<<"x", "p">>, IntType, Block(<<e>>)) :
        e \in {e \in Expressions : e.kind = "DEREFERENCE" /\ ~IsStatement(e)}}
=============================================================================
