------------------------ MODULE MCMemoryToRegister ------------------------
(* MemoryToRegister on small functions: every graph of Size groups besides  *)
(* the entry, with at most Longest statements in each group.  A statement   *)
(* becomes the codes src/front/IR_generator.cpp makes of it, the condition  *)
(* of a branch left out.                                                    *)
EXTENDS MemoryToRegister, MCFlowGraph

CONSTANTS
    Size,     \* groups besides the entry
    Longest,  \* statements in a group
    Family    \* which of the families of MCSourcesOf

MCNodes == MCGroups(Size)
MCFlowGraphs == {f \in CompiledGraphs(Size) : \A g \in DOMAIN f : Len(f[g]) = 2 => f[g][1] < f[g][2]}

Load(id, a)  == Instr("load", id, <<a>>)
Store(x, a)  == Instr("store", Nothing, <<x, a>>)
Use(x)       == Instr("use", Nothing, <<x>>)

\* v = constant;  v = w;  return v;
Set(v)     == [kind |-> "set", to |-> v, from |-> v]
Copy(v, w) == [kind |-> "copy", to |-> v, from |-> w]
Read(v)    == [kind |-> "read", to |-> v, from |-> v]
\* p = &v;  *p = constant;  return *p;
Point(p, v) == [kind |-> "point", to |-> p, from |-> v]
SetAt(p)    == [kind |-> "set at", to |-> p, from |-> p]
ReadAt(p)   == [kind |-> "read at", to |-> p, from |-> p]

CodesOf(s, g, n) ==
    LET r == ResultOf(g, n)
        there == ResultOf(g, 10 * n)
        from == Address(s.from)
        to == Address(s.to)
    IN  CASE s.kind = "set"     -> <<Store(Constant(g, n), to)>>
          [] s.kind = "copy"    -> <<Load(r, from), Store(r, to)>>
          [] s.kind = "read"    -> <<Load(r, from), Use(r)>>
          [] s.kind = "point"   -> <<Store(from, to)>>
          [] s.kind = "set at"  -> <<Load(r, from), Store(Constant(g, n), r)>>
          [] s.kind = "read at" -> <<Load(r, from), Load(there, r), Use(there)>>

GroupCodes(ends, g, body) ==
    FlattenSeq([n \in DOMAIN body |-> CodesOf(body[n], g, n)])
        \o IF ends THEN <<>> ELSE <<Jump>>

Allocas == [n \in DOMAIN Variables |-> Instr("alloca", Address(Variables[n]), <<>>)]

MCPrecedesOf(f) ==
    LET edges(g, p) == [n \in 1 .. Cardinality({i \in DOMAIN f[p] : f[p][i] = g}) |-> p]
    IN  [g \in MCNodes |-> FlattenSeq([n \in 1 .. Size + 1 |-> edges(g, n - 1)])]

\* The codes over graph f whose first group begins with the statements start.
CodesOver(f, start, statements) ==
    LET bodies == UNION {[1 .. n -> statements] : n \in 0 .. Longest}
        prefix(g) == IF g = 1 THEN start ELSE <<>>
    IN  {[g \in MCNodes |-> IF g = 0 THEN Append(Allocas, Jump)
                            ELSE GroupCodes(f[g] = <<>>, g, prefix(g) \o b[g])]
            : b \in [1 .. Size -> bodies]}

MCVariables == <<"x", "y">>
MCValues ==
    LET here == 0 .. Longest + 3
        all == here \cup {10 * n : n \in here}
    IN  {Nothing, Garbage, NullVariable}
            \cup {Address(v) : v \in Names} \cup {Undef(v) : v \in Names}
            \cup {PhiOf(g, v) : g \in MCNodes, v \in Names}
            \cup {Constant(g, n) : g \in MCNodes, n \in all} \cup {ResultOf(g, n) : g \in MCNodes, n \in all}

\* No loop goes back to the first group.
StraightStart(f) == \A g \in DOMAIN f \ {0} : ~Contains(f[g], 1)

\* One loop, after the first group and before the last.
OneLoop(f) == StraightStart(f) /\ Contains(f[2], 2) /\ Contains(f[2], 3) /\ f[3] = <<>>

\* Functions without pointers.
Scalars(f) == CodesOver(f, <<>>, {Read("x"), Set("x"), Set("y"), Copy("x", "y"), Copy("y", "x")})

\* The first group makes y point to x for good.
WithPointer(f, statements) ==
    IF StraightStart(f) THEN CodesOver(f, <<Set("x"), Point("y", "x")>>, statements) ELSE {}

\* A loop copies one variable to the other; both are set before.
LoopCopies(f) ==
    IF OneLoop(f)
    THEN CodesOver(f, <<Set("x"), Set("y")>>, {Read("x"), Set("y"), Copy("x", "y")}) ELSE {}

MCSourcesOf(f) ==
    CASE Family = "scalars, and a pointer to read through" ->
            Scalars(f) \cup WithPointer(f, {Set("x"), Read("x"), ReadAt("y")})
      [] Family = "a pointer to write through" ->
            WithPointer(f, {Read("x"), SetAt("y")})
      [] Family = "copies in a loop" -> LoopCopies(f)
=============================================================================
