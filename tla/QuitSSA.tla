------------------------------ MODULE QuitSSA ------------------------------
(***************************************************************************)
(* src/IR/Pass/quit_SSA.cpp: QuitSSAPass, which main.cpp runs on the       *)
(* function MemoryToRegisterPass has finished, replaces each phi by        *)
(* assignments in the groups control comes from.                           *)
(***************************************************************************)
EXTENDS MemoryToRegister

PhisOf(codes, g) == SelectSeq(codes[g], IsPhi)

\* Mutant of Assignments: the sources of all edges.
AssignmentsOfAllEdges(g, p, phi) ==
    IF p \notin ToSet(precedes[g]) THEN <<>>
    ELSE [k \in DOMAIN phi.args |-> Instr("assign", Nothing, <<phi.id, phi.args[k]>>)]

\* The assignments a phi of group g becomes in its predecessor p.
Assignments(g, p, phi) ==
    LET ofEdge(k) == IF precedes[g][k] = p
                     THEN <<Instr("assign", Nothing, <<phi.id, phi.args[k]>>)>> ELSE <<>>
    IN  FlattenSeq([k \in DOMAIN phi.args |-> ofEdge(k)])

\* insert_before(--end()), once for each of new: in order, in front of the last code.
InsertBeforeEnd(codes, new) ==
    IF new = <<>> THEN codes ELSE Front(codes) \o new \o <<Last(codes)>>

\* The visit of group g: its phis, from the first to the last, are assigned at the
\* end of its predecessors and erased.  The visit of a group without phis does
\* nothing; the order of basic_groups_, in which run() visits, is left open.
QuitGroup(g) ==
    /\ phase \in {"finished", "quitting"}
    /\ LET phis == PhisOf(code, g)
           copies(p) == FlattenSeq([n \in DOMAIN phis |-> Assignments(g, p, phis[n])])
           rest == [code EXCEPT ![g] = SelectSeq(@, LAMBDA i : ~IsPhi(i))]
       IN  /\ phis # <<>>
           /\ code' = [p \in Groups |-> InsertBeforeEnd(rest[p], copies(p))]
    /\ phase' = "quitting"
    /\ UNCHANGED <<graph, scan, stack, maps>>

PhisAreGone ==
    /\ phase \in {"finished", "quitting"}
    /\ \A g \in Groups : PhisOf(code, g) = <<>>

Done == PhisAreGone /\ UNCHANGED vars

PassesNext == PassNext \/ (\E g \in Groups : QuitGroup(g))

\* MemoryToRegisterPass, then QuitSSAPass: one thread of control.
PassesSpec == Init /\ [][PassesNext \/ Done]_vars

-----------------------------------------------------------------------------
\* The two passes together keep what a function computes: the assignments at the
\* end of pred_bg (quit_SSA.cpp:17) give every use the value that the phi they
\* stand for gave it, whichever way control leaves pred_bg.
AssignmentsActAsPhis ==
    PhisAreGone =>
        \A path \in PathsFrom(follows, Entry, PathBound) :
            UsesTheSame(source, code, precedes, path)

\* No variable is ever given the value of a variable.
CopyFree ==
    \A g \in Groups : \A n \in DOMAIN source[g] :
        LET i == source[g][n] IN i.op = "store" => i.args[1][1] # "code"

\* ... and they do when no variable is copied to another.  The two values of a
\* phi's variable that a group with two successors deals with, the one it leaves
\* and the one it was entered with, are then never both needed afterwards.
ConstantsSurvive == CopyFree => AssignmentsActAsPhis
=============================================================================
