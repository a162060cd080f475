------------------------------- MODULE Lexer -------------------------------
(***************************************************************************)
(* src/front/lexer.cpp with diagnose.cpp: the contents of a file are cut   *)
(* into tokens, one ahead of the parser, until the parser has taken the    *)
(* last one or throws.  The parser may take the next token, or complain of *)
(* it or of the one it took last.  It complains of every unknown token.    *)
(*                                                                         *)
(* Contents are sequences of characters, one for each kind the lexer tells *)
(* apart: "a" is a letter, "1" a digit, "+" stands for + and -, "=" for =, *)
(* < and > (each followed by = or not), ";" for the punctuation that is    *)
(* always one token, "@" for any other, "~" for what is none of these.     *)
(* Keywords are identifiers.                                               *)
(***************************************************************************)
EXTENDS Naturals, FiniteSets, SequencesExt

CONSTANT MaxLength  \* bound: the length of the contents

VARIABLES
    contents,    \* contents_
    at,          \* index_, line_ and column_
    next_token,  \* next_token_
    taken,       \* history: what next() has returned
    message      \* the line a message shows, if the parser has complained

vars == <<contents, at, next_token, taken, message>>

Blanks == {" ", "\n", "\r"}
LineEnds == {"\n", "\r"}
Characters == {"a", "1", "+", "=", "!", ";", "@", "~"} \cup Blanks

Size == Len(contents)
Is(index, set) == index < Size /\ contents[index + 1] \in set

\* The end of the longest stretch of characters of set that begins at index.
EndOf(index, set) ==
    CHOOSE e \in index .. Size : ~Is(e, set) /\ \A i \in index .. e - 1 : Is(i, set)

Position(index, line, column) == [index |-> index, line |-> line, column |-> column]

\* Mutant of SkipBlank: a line end is counted, but the column goes on.
SkipWithoutReset(p) ==
    LET end == EndOf(p.index, Blanks)
    IN  Position(end, p.line + Cardinality({i \in p.index .. end - 1 : Is(i, LineEnds)}),
                 p.column + end - p.index)

\* skip_blank.
SkipBlank(p) ==
    LET end == EndOf(p.index, Blanks)
        ends == {i \in p.index .. end - 1 : Is(i, LineEnds)}
    IN  Position(end, p.line + Cardinality(ends),
                 IF ends = {} THEN p.column + end - p.index ELSE end - Max(ends))

Advance(p, n) == Position(p.index + n, p.line, p.column + n)
Token(type, begin, length) == [type |-> type, begin |-> begin, length |-> length]

\* next_punct, next_integer and next_variable, or the end: the token that begins at p.
TokenAt(p) ==
    LET Double(char, two, one) == IF Is(p.index + 1, {char}) THEN Token(two, p, 2) ELSE Token(one, p, 1)
    IN  CASE Is(p.index, {"+"}) -> Double("+", "INC_OPE", "PLUS")
          [] Is(p.index, {"="}) -> Double("=", "EQUAL", "ASSIGN")
          [] Is(p.index, {"!"}) ->
                 Token(IF Is(p.index + 1, {"="}) THEN "NOT_EQUAL" ELSE "UNKNOWN", p, 2)
          [] Is(p.index, {";"}) -> Token("SEMICOLON", p, 1)
          [] Is(p.index, {"@"}) -> Token("UNKNOWN", p, 1)
          [] Is(p.index, {"1"}) -> Token("INTEGER", p, EndOf(p.index, {"1"}) - p.index)
          [] Is(p.index, {"a"}) -> Token("IDENTIFIER", p, EndOf(p.index, {"a", "1"}) - p.index)
          [] Is(p.index, {"~"}) -> Token("UNKNOWN", p, 0)
          [] OTHER -> Token("ED", p, 0)

\* next_word; behind the end of the contents it reads what happens to be there.
NextWord(p) ==
    IF p.index > Size THEN [token |-> Token("UNDEFINED", p, 0), at |-> p]
    ELSE LET token == TokenAt(SkipBlank(p))
         IN  [token |-> token, at |-> Advance(token.begin, token.length)]

Init ==
    /\ contents \in BoundedSeq(Characters, MaxLength)
    /\ LET word == NextWord(Position(0, 1, 1)) IN next_token = word.token /\ at = word.at
    /\ taken = <<>>
    /\ message = <<>>

Ended == taken # <<>> /\ Last(taken).type \in {"ED", "UNKNOWN"}

\* next.
Take ==
    /\ message = <<>> /\ ~Ended
    /\ taken' = Append(taken, next_token)
    /\ LET word == NextWord(at) IN next_token' = word.token /\ at' = word.at
    /\ UNCHANGED <<contents, message>>

\* The first n characters, of which the last is a newline.
EndsLine(n) == n > 0 /\ contents[n] = "\n"
Newlines(n) == Cardinality({i \in 1 .. n : EndsLine(i)})

\* lines_: the text in front of each newline, and behind the last if there is any.
LineBegins == {n \in 0 .. Size - 1 : n = 0 \/ EndsLine(n)}
LineFrom(n) == SubSeq(contents, n + 1, EndOf(n, Characters \ {"\n"}))

\* handle: shows lines_[line - 1], whatever that is behind the last line, and throws.
Complain ==
    /\ message = <<>>
    /\ \E token \in {next_token} \cup (IF taken = <<>> THEN {} ELSE {Last(taken)}) :
        /\ token.type # "UNDEFINED"
        /\ LET begins == {n \in LineBegins : Newlines(n) = token.begin.line - 1}
           IN  message' = [token |-> token,
                           text |-> IF begins = {} THEN <<"UNDEFINED">>
                                    ELSE LineFrom(CHOOSE n \in begins : TRUE)]
    /\ UNCHANGED <<contents, at, next_token, taken>>

\* The parser has returned or thrown.
Over == (message # <<>> \/ Ended) /\ UNCHANGED vars

Next == Take \/ Complain \/ Over
Spec == Init /\ [][Next]_vars

-----------------------------------------------------------------------------
(***************************************************************************)
(* Properties.                                                             *)
(***************************************************************************)
\* What may be a token.
Words(type) ==
    LET tail(first, rest) == {w \in BoundedSeq({"a", "1"}, MaxLength) :
                                w # <<>> /\ w[1] \in first /\ \A i \in 2 .. Len(w) : w[i] \in rest}
    IN  CASE type = "INTEGER" -> tail({"1"}, {"1"})
          [] type = "IDENTIFIER" -> tail({"a"}, {"a", "1"})
          [] type = "INC_OPE" -> {<<"+", "+">>}
          [] type = "PLUS" -> {<<"+">>}
          [] type = "EQUAL" -> {<<"=", "=">>}
          [] type = "ASSIGN" -> {<<"=">>}
          [] type = "NOT_EQUAL" -> {<<"!", "=">>}
          [] type = "SEMICOLON" -> {<<";">>}
          [] OTHER -> {}
Types == {"INTEGER", "IDENTIFIER", "INC_OPE", "PLUS", "EQUAL", "ASSIGN", "NOT_EQUAL", "SEMICOLON"}

\* The lengths of the words that begin at index.
WordLengths(index) ==
    {n \in 1 .. Size - index : \E t \in Types : SubSeq(contents, index + 1, index + n) \in Words(t)}

\* A token lies at the place it names, by line and column, and is the longest word
\* there; it is unknown just if there is no word, and the last just at the end.
IsRight(token) ==
    LET i == token.begin.index
        ends == {n \in 1 .. i : contents[n] \in LineEnds}
    IN  /\ token.begin.line = 1 + Cardinality(ends)
        /\ token.begin.column = 1 + i - (IF ends = {} THEN 0 ELSE Max(ends))
        /\ token.type = "ED" <=> i = Size
        /\ token.type = "UNKNOWN" <=> i < Size /\ WordLengths(i) = {}
        /\ WordLengths(i) # {} =>
               /\ token.length = Max(WordLengths(i))
               /\ SubSeq(contents, i + 1, i + token.length) \in Words(token.type)

\* The tokens the parser is given, and the one it can peek at, are the contents: each
\* is right, and there is nothing but blanks in front of it behind the previous one.
TokensAreTheText ==
    LET tokens == IF Ended THEN taken ELSE Append(taken, next_token)
        EndOfToken(n) == IF n = 0 THEN 0 ELSE tokens[n].begin.index + tokens[n].length
    IN  \A n \in DOMAIN tokens :
            /\ IsRight(tokens[n])
            /\ \A i \in EndOfToken(n - 1) .. tokens[n].begin.index - 1 : Is(i, Blanks)

\* "Print the line of code where the diagnose message is" (diagnose.cpp): a message
\* shows the line its token begins in.
MessagesShowTheirLine ==
    message # <<>> =>
        LET i == message.token.begin.index
            begin == CHOOSE n \in 0 .. i : (n = 0 \/ EndsLine(n)) /\ Newlines(n) = Newlines(i)
        IN  message.text = LineFrom(begin)
=============================================================================
