---------------------------- MODULE MCFrontEnd -----------------------------
(***************************************************************************)
(* The lexer and the parser, one at a time: the lexer cuts all short       *)
(* contents into tokens, or the parser parses all short files over some    *)
(* tokens.  The other one is idle.                                         *)
(***************************************************************************)
EXTENDS Parser

CONSTANT MaxLength
VARIABLES contents, at, next_token, taken, message

lexing == <<contents, at, next_token, taken, message>>
L == INSTANCE Lexer

Each(tokens, times) == [t \in tokens |-> times]
Of(call, most, length) == [call |-> call, most |-> most, length |-> length]

\* Unary operators; association and parentheses; comparisons and assignments; loops and
\* blocks; ifs in ifs and loops; declarators with pointers, functions and arrays; arrays
\* and their sizes; lists of declarators; parameters that are declared once more behind
\* the list, and more than one.
FilesToParse == <<
    Of("expression", Each({"x", "-", "*"}, 2) @@ Each({"&", "+"}, 1), 6),
    Of("expression", Each({"x"}, 3) @@ Each({"-"}, 2) @@ Each({"*", "(", ")"}, 1), 7),
    Of("expression", Each({"x"}, 4) @@ Each({"=", "=="}, 2) @@ Each({"<", ">", "+", "-"}, 1), 7),
    Of("statement", Each({"x"}, 2) @@ Each({";"}, 3)
           @@ Each({"{", "}", "(", ")", "while", "do", "for", "return"}, 1), 8),
    Of("statement", Each({"x", "(", ")", ";"}, 3) @@ Each({"if", "else"}, 2) @@ Each({"while"}, 1), 15),
    Of("unit", Each({"x", "(", ")", "int"}, 2) @@ Each({"[", "]", ";", "*"}, 1), 9),
    Of("unit", Each({"int", "x", "[", "]"}, 2) @@ Each({"(", ")", ";", "1"}, 1), 10),
    Of("unit", Each({"int", "x", "*", "1", "=", ",", ";"}, 2) @@ Each({"?"}, 1), 9),
    Of("unit", Each({"y"}, 4) @@ Each({"(", ")", "{", "}", "*", "int", ";", ","}, 1), 12),
    Of("unit", Each({"x", "y"}, 2) @@ Each({"(", ")", "{", "}", ",", "int", ";"}, 1), 13)>>

NothingRead ==
    /\ start = 0 /\ read = <<>> /\ look = Unseen /\ todo = <<>> /\ values = <<>>
    /\ outcome = "idle"
NothingToLex ==
    contents = <<>> /\ at = <<>> /\ next_token = <<>> /\ taken = <<>> /\ message = <<"idle">>

MCInit == \/ L!Init /\ NothingRead
          \/ Init /\ NothingToLex

MCNext == \/ outcome = "idle" /\ L!Next /\ UNCHANGED vars
          \/ outcome # "idle" /\ Next /\ UNCHANGED lexing

MCSpec == MCInit /\ [][MCNext]_<<vars, lexing>> /\ WF_vars(outcome # "idle" /\ Parse /\ UNCHANGED lexing)

\* The tokens the lexer has given and the one it can be asked for are the contents of the
\* file (LexerImpl::next and next_word).
TokensAreTheText == outcome = "idle" => L!TokensAreTheText
=============================================================================
