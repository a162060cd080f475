-------------------------- MODULE MemoryToRegister --------------------------
(***************************************************************************)
(* src/IR/Pass/memory_to_register.cpp: MemoryToRegisterPass turns the      *)
(* variables a function keeps in memory into values, inserting phi         *)
(* instructions where control joins.  It works in rounds: a round picks    *)
(* the variables that can be promoted, inserts their phis and renames      *)
(* loads and stores along the dominator tree; the last round finds none.   *)
(*                                                                         *)
(* The dominator tree and the iterated dominance frontiers are what        *)
(* IDFBuilder computes (see there); the recursion of RenamePass is the     *)
(* variable stack.  A group is renamed, its successors' phis included, in  *)
(* one step: nothing else runs in between.                                 *)
(***************************************************************************)
EXTENDS FlowGraph, InstructionSemantics

CONSTANTS
    Variables,      \* the variables of a function, a sequence: its allocas
    PrecedesOf(_),  \* the vectors precedes_ that go with follows_
    SourcesOf(_),   \* the codes the functions with these follows_ may have
    Values,         \* the values an operand may name
    PathBound       \* bound: groups on a path along which codes are compared

\* Edges are mirrored (FunctionBuilder checks it): precedes_ of a group holds each
\* predecessor as often as its follows_ holds the group.
Mirrored(f, p) ==
    \A g, h \in Groups :
        Cardinality({i \in DOMAIN f[g] : f[g][i] = h})
            = Cardinality({k \in DOMAIN p[h] : p[h][k] = g})

\* precedes_ of a group holds groups.
ASSUME PrecedesAssumption ==
    \A f \in FlowGraphs : PrecedesOf(f) \in [Groups -> Seq(Groups)] /\ Mirrored(f, PrecedesOf(f))

NullVariable == Address("null")  \* a null ValuePtr in original_variable_map
Names == ToSet(Variables)

ASSUME VariablesAssumption == Variables \in Seq(Names) /\ "null" \notin Names
ASSUME ValuesAssumption ==
    /\ {Nothing, Garbage, NullVariable} \subseteq Values
    /\ \A v \in Names : {Address(v), Undef(v)} \cup {PhiOf(g, v) : g \in Groups} \subseteq Values
ASSUME BoundAssumption == PathBound \in Nat \ {0}

Instructions ==
    [op : {"alloca", "load", "store", "use", "jump", "phi", "assign"}, id : Values, args : Seq(Values)]

\* The shape of what append_* makes, operands aside.
IsGenerated(i) ==
    \/ i.op = "alloca" /\ i.args = <<>> /\ \E v \in Names : i.id = Address(v)
    \/ i.op = "load"   /\ Len(i.args) = 1 /\ i.id[1] = "code"
    \/ i.op = "store"  /\ Len(i.args) = 2 /\ i.id = Nothing
    \/ i.op = "use"    /\ i.id = Nothing
    \/ i.op = "jump"   /\ i.args = <<>> /\ i.id = Nothing

\* An operand of code number n of group g: a constant, a variable of the function,
\* or the result of a code before it in g or of one in a group that dominates g.
IsOperand(dom, codes, g, n, x) ==
    \/ x[1] = "constant"
    \/ x[1] = "address" /\ \E m \in DOMAIN codes[Entry] : codes[Entry][m].id = x
    \/ /\ x[1] = "code"
       /\ \E d \in dom[g] : \E m \in DOMAIN codes[d] : codes[d][m].id = x /\ (d = g => m < n)

\* What IRGenerator and BuildFunction make of a function: the allocas are in the
\* entry, to which nothing jumps, and every code has a result of its own.
IsFunction(f, codes) ==
    /\ Predecessors(f, Entry) = {}
    /\ codes \in [Groups -> Seq(Instructions)]
    /\ LET dom == DominatorMap(f)
       IN  \A g \in Groups : \A n \in DOMAIN codes[g] :
               /\ IsGenerated(codes[g][n])
               /\ codes[g][n].op = "alloca" => g = Entry
               /\ \A x \in ToSet(codes[g][n].args) : IsOperand(dom, codes, g, n, x)
               /\ \A h \in Groups : \A m \in DOMAIN codes[h] :
                      codes[h][m].id = codes[g][n].id /\ codes[g][n].id # Nothing => h = g /\ m = n

ASSUME SourcesAssumption ==
    \A f \in FlowGraphs : \A codes \in SourcesOf(f) : IsFunction(f, codes)

VARIABLES
    follows,   \* BasicGroup::follows_
    precedes,  \* BasicGroup::precedes_
    children,  \* the dominator tree
    frontier,  \* the dominance frontiers
    source,    \* the codes of the groups before the pass
    code,      \* BasicGroup::codes_
    phase,     \* "scan", "rename" or "finished"; QuitSSA adds "quitting"
    scan,      \* the allocas the loop of FuncMemoryToRegister has not met yet
    stack,     \* the calls of RenamePass: [group, todo, count]
    names,     \* variable_rename_map: a stack of values for each variable
    temporary, \* temporary_rename_map: what an erased load is replaced by
    original   \* original_variable_map: the variable a phi was inserted for

graph == <<follows, precedes, children, frontier, source>>
maps  == <<names, temporary, original>>
vars  == <<graph, code, phase, scan, stack, maps>>

NoMap == << >>
AllocasOf(codes) ==
    LET Upto[n \in 0 .. Len(codes)] ==
            IF n = 0 THEN <<>>
            ELSE IF codes[n].op = "alloca" THEN Append(Upto[n - 1], codes[n]) ELSE Upto[n - 1]
    IN  Upto[Len(codes)]

StartRound(codes) ==
    /\ phase' = "scan"
    /\ scan' = AllocasOf(codes)
    /\ names' = NoMap /\ temporary' = NoMap /\ original' = NoMap

Init ==
    /\ follows \in FlowGraphs
    /\ precedes = PrecedesOf(follows)
    /\ LET dom == DominatorMap(follows)
       IN  /\ children = [g \in Groups |->
                            {c \in Groups \ {Entry} : ImmediateDominator(dom, c) = g}]
           /\ frontier = [g \in Groups |-> DominanceFrontier(follows, dom, g)]
    /\ source \in SourcesOf(follows)
    /\ code = source
    /\ phase = "scan"
    /\ scan = AllocasOf(code[Entry])
    /\ names = NoMap /\ temporary = NoMap /\ original = NoMap
    /\ stack = <<>>

-----------------------------------------------------------------------------
(***************************************************************************)
(* FuncMemoryToRegister: the loop over the allocas of the entry group.     *)
(***************************************************************************)
\* The instructions that use value v, as users_ of v lists them.
Users(v) ==
    UNION {{code[g][n] : n \in {n \in DOMAIN code[g] : v \in ToSet(code[g][n].args)}} : g \in Groups}

\* An address that is stored somewhere is not promoted; other uses do not matter.
CanVariableToRegister(v) == \A u \in Users(v) : u.op = "store" => u.args[1] # v

OnlyStores(v) == \A u \in Users(v) : u.op = "store"

StoresTo(v) == {g \in Groups : \E n \in DOMAIN code[g] :
                    code[g][n].op = "store" /\ code[g][n].args[2] = v}

CurrentAlloca == Head(scan).id

SkipAlloca ==
    /\ phase = "scan"
    /\ scan # <<>>
    /\ ~CanVariableToRegister(CurrentAlloca)
    /\ scan' = Tail(scan)
    /\ UNCHANGED <<graph, code, phase, stack, maps>>

\* codes without the alloca v and what uses it.
Without(v, codes) ==
    LET Mentions(i) == i.id = v \/ v \in ToSet(i.args)
        Upto[n \in 0 .. Len(codes)] ==
            IF n = 0 THEN <<>>
            ELSE IF Mentions(codes[n]) THEN Upto[n - 1] ELSE Append(Upto[n - 1], codes[n])
    IN  Upto[Len(codes)]

\* TryRemoveAllocIfStoreOnly: the stores and the alloca go.
RemoveAlloca ==
    /\ phase = "scan"
    /\ scan # <<>>
    /\ CanVariableToRegister(CurrentAlloca)
    /\ OnlyStores(CurrentAlloca)
    /\ code' = [g \in Groups |-> Without(CurrentAlloca, code[g])]
    /\ scan' = Tail(scan)
    /\ UNCHANGED <<graph, phase, stack, maps>>

\* VariableMemoryToRegister: a phi in front of each group of the iterated
\* frontier of the groups that store to the variable, all of its sources the
\* address of the variable for now.
InsertPhis ==
    /\ phase = "scan"
    /\ scan # <<>>
    /\ CanVariableToRegister(CurrentAlloca)
    /\ ~OnlyStores(CurrentAlloca)
    /\ LET v == CurrentAlloca
           joins == IteratedFrontier(frontier, StoresTo(v))
           Phi(g) == Instr("phi", PhiOf(g, v[2]), [k \in DOMAIN precedes[g] |-> v])
       IN  /\ code' = [g \in Groups |-> IF g \in joins THEN <<Phi(g)>> \o code[g] ELSE code[g]]
           /\ original' = [x \in DOMAIN original \cup {PhiOf(g, v[2]) : g \in joins} |->
                               IF x \in DOMAIN original THEN original[x] ELSE v]
           /\ names' = With(names, v, <<Undef(v[2])>>)
    /\ scan' = Tail(scan)
    /\ UNCHANGED <<graph, phase, stack, temporary>>

-----------------------------------------------------------------------------
(***************************************************************************)
(* RenamePass.                                                             *)
(***************************************************************************)
\* top() of the stack of a variable; of an empty one, undefined behaviour.
Top(nm, v) == IF nm[v] = <<>> THEN Garbage ELSE Last(nm[v])

\* push() on the stack operator[] finds, or makes, for v.
Push(nm, v, x) == With(nm, v, IF v \in DOMAIN nm THEN Append(nm[v], x) ELSE <<x>>)

Increment(count, v) == With(count, v, IF v \in DOMAIN count THEN count[v] + 1 ELSE 1)

\* Mutant of Resolve: the operand stays.
KeepOperand(tmp, x) == x

\* ReplaceTemporary on an operand.
Resolve(tmp, x) == IF x \in DOMAIN tmp THEN tmp[x] ELSE x
ResolveArgs(s, i) == [i EXCEPT !.args = [n \in DOMAIN @ |-> Resolve(s.temporary, @[n])]]

Keep(s, i) == [s EXCEPT !.out = Append(@, i)]

RenamePhi(s, i) ==
    IF i.id \notin DOMAIN original THEN Keep(s, ResolveArgs(s, i))
    ELSE [Keep(s, i) EXCEPT !.names = Push(@, original[i.id], i.id),
                            !.count = Increment(@, original[i.id])]

\* A load of a variable being renamed goes, and is replaced by its current name.
RenameLoad(s, i) ==
    IF i.args[1] \in DOMAIN s.names
    THEN [s EXCEPT !.temporary = With(@, i.id, Top(s.names, i.args[1]))]
    ELSE Keep(s, ResolveArgs(s, i))

\* A store to such a variable goes, and gives it a new name.  Of any other store
\* only the source operand is replaced.
RenameStore(s, i) ==
    LET stored == Resolve(s.temporary, i.args[1])
    IN  IF i.args[2] \in DOMAIN s.names
        THEN [s EXCEPT !.names = Push(@, i.args[2], stored),
                       !.count = Increment(@, i.args[2])]
        ELSE Keep(s, [i EXCEPT !.args[1] = stored])

\* Mutant of RenameInstr: the allocas stay.
RenameAllButAlloca(s, i) ==
    CASE i.op = "phi"   -> RenamePhi(s, i)
      [] i.op = "load"  -> RenameLoad(s, i)
      [] i.op = "store" -> RenameStore(s, i)
      [] OTHER          -> Keep(s, ResolveArgs(s, i))

RenameInstr(s, i) ==
    CASE i.op = "phi"    -> RenamePhi(s, i)
      [] i.op = "load"   -> RenameLoad(s, i)
      [] i.op = "store"  -> RenameStore(s, i)
      [] i.op = "alloca" -> IF i.id \in DOMAIN s.names THEN s ELSE Keep(s, i)
      [] OTHER           -> Keep(s, ResolveArgs(s, i))

\* Mutant of SuccessorPhis: the loop does not stop at the first other code.
SuccessorCodes(g, codes) == UNION {{codes[f][n].id : n \in DOMAIN codes[f]} : f \in Successors(follows, g)}

\* The loop over the phis of the successors of g.  Asking original_variable_map
\* for a phi it does not know enters a null variable for it.
SuccessorPhis(g, codes) ==
    UNION {{codes[f][n].id : n \in {n \in DOMAIN codes[f] : \A m \in 1 .. n : codes[f][m].op = "phi"}}
              : f \in Successors(follows, g)}

VariableOf(phi) == IF phi \in DOMAIN original THEN original[phi] ELSE NullVariable

\* Mutant of FillPhi: every source is filled, whatever its predecessor.
FillAllSources(g, f, nm, i) ==
    IF i.op = "phi" /\ VariableOf(i.id) \in DOMAIN nm
    THEN [i EXCEPT !.args = [k \in DOMAIN @ |-> Top(nm, VariableOf(i.id))]]
    ELSE i

FillPhi(g, f, nm, i) ==
    IF i.op = "phi" /\ VariableOf(i.id) \in DOMAIN nm
    THEN [i EXCEPT !.args = [k \in DOMAIN @ |->
              IF precedes[f][k] = g THEN Top(nm, VariableOf(i.id)) ELSE @[k]]]
    ELSE i

\* The loop over the codes of a group.
RenameCodes(codes) ==
    LET Upto[n \in 0 .. Len(codes)] ==
            IF n = 0
            THEN [out |-> <<>>, names |-> names, temporary |-> temporary, count |-> NoMap]
            ELSE RenameInstr(Upto[n - 1], codes[n])
    IN  Upto[Len(codes)]

\* A call of RenamePass up to its recursive calls.
RenameGroup(g) ==
    LET s == RenameCodes(code[g])
        renamed == [code EXCEPT ![g] = s.out]
    IN  /\ code' = [f \in Groups |->
                        IF f \in Successors(follows, g)
                        THEN [n \in DOMAIN renamed[f] |-> FillPhi(g, f, s.names, renamed[f][n])]
                        ELSE renamed[f]]
        /\ original' = [x \in DOMAIN original \cup SuccessorPhis(g, renamed) |-> VariableOf(x)]
        /\ names' = s.names
        /\ temporary' = s.temporary
        /\ stack' = Append(IF stack = <<>> THEN <<>>
                           ELSE [stack EXCEPT ![Len(stack)].todo = @ \ {g}],
                           [group |-> g, todo |-> children[g], count |-> s.count])

\* All allocas have been looked at: rename from the root of the dominator tree,
\* or, if there is nothing to rename, end the pass.
StartRename ==
    /\ phase = "scan"
    /\ scan = <<>>
    /\ IF names = NoMap
       THEN /\ phase' = "finished"
            /\ UNCHANGED <<code, stack, maps>>
       ELSE /\ phase' = "rename"
            /\ RenameGroup(Entry)
    /\ UNCHANGED <<graph, scan>>

RenameChild(c) ==
    /\ phase = "rename"
    /\ c \in Last(stack).todo
    /\ RenameGroup(c)
    /\ UNCHANGED <<graph, phase, scan>>

\* Mutant of ReturnFromChild: the names stay.
ReturnWithoutPopping ==
    /\ phase = "rename"
    /\ Last(stack).todo = {}
    /\ stack' = Front(stack)
    /\ IF Len(stack) = 1 THEN StartRound(code[Entry])
       ELSE UNCHANGED <<phase, scan, maps>>
    /\ UNCHANGED <<graph, code>>

\* The end of a call: the names it pushed are popped.  The end of the outermost
\* call ends the round.
ReturnFromChild ==
    /\ phase = "rename"
    /\ Last(stack).todo = {}
    /\ stack' = Front(stack)
    /\ LET count == Last(stack).count
           Popped(v) == IF v \in DOMAIN count
                        THEN SubSeq(names[v], 1, Len(names[v]) - count[v]) ELSE names[v]
       IN  IF Len(stack) = 1
           THEN StartRound(code[Entry])
           ELSE /\ names' = [v \in DOMAIN names |-> Popped(v)]
                /\ UNCHANGED <<phase, scan, temporary, original>>
    /\ UNCHANGED <<graph, code>>

PassNext ==
    \/ SkipAlloca \/ RemoveAlloca \/ InsertPhis
    \/ StartRename \/ (\E c \in Groups : RenameChild(c)) \/ ReturnFromChild

Finished == phase = "finished" /\ UNCHANGED vars

Spec == Init /\ [][PassNext \/ Finished]_vars

-----------------------------------------------------------------------------
(***************************************************************************)
(* Properties.                                                             *)
(***************************************************************************)
\* The recursion is in groups of the function, and original_variable_map only
\* knows phis.
TypeOK ==
    /\ DOMAIN code = Groups
    /\ phase \in {"scan", "rename", "finished", "quitting"}
    /\ \A n \in DOMAIN stack : stack[n].group \in Groups /\ stack[n].todo \subseteq Groups
    /\ \A x \in DOMAIN original : x[1] = "phi"

\* The pass keeps what a function computes: along every path the values used
\* (returned, compared, computed with) after the pass are those used before.
MeaningIsKept ==
    phase = "finished" =>
        \A path \in PathsFrom(follows, Entry, PathBound) :
            UsesTheSame(source, code, precedes, path)

\* The values that exist in codes.
Defined(codes) == UNION {{codes[g][n].id : n \in DOMAIN codes[g]} : g \in Groups}
Mentioned(codes) == UNION {UNION {ToSet(codes[g][n].args) : n \in DOMAIN codes[g]} : g \in Groups}

\* memory_to_register.cpp:61 says RenamePass renames a variable to temporaries:
\* between rounds no code mentions an alloca or a load that has been erased.
NothingErasedIsMentioned ==
    phase = "scan" /\ names = NoMap =>
        \A x \in Mentioned(code) : x[1] \in {"address", "code", "phi"} => x \in Defined(code)

\* The loop of MemoryToRegisterPass::run ends because a round leaves nothing of the
\* variables it promotes, wherever they are loaded and stored: no alloca that it
\* could find promotable again, and no code that still goes through memory.
RoundsPromote ==
    [][phase = "rename" /\ phase' = "scan" =>
           DOMAIN names \cap (Defined(code') \cup Mentioned(code')) = {}]_vars

\* A value is used where it is available: its group dominates the group that
\* uses it, or, for a source of a phi, the predecessor the source belongs to.
GroupOf(x) == CHOOSE g \in Groups : \E n \in DOMAIN code[g] : code[g][n].id = x
DefinitionsDominateUses ==
    phase = "finished" =>
        LET Dom[g \in Groups] ==
                {g} \cup UNION {Dom[p] : p \in {p \in Groups : g \in children[p]}}
        IN  \A g \in Groups : \A n \in DOMAIN code[g] : \A k \in DOMAIN code[g][n].args :
                LET x == code[g][n].args[k]
                IN  x[1] \in {"code", "phi"} =>
                        GroupOf(x) \in Dom[IF IsPhi(code[g][n]) THEN precedes[g][k] ELSE g]
=============================================================================
