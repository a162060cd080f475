------------------------------- MODULE DefUse -------------------------------
(***************************************************************************)
(* include/IR/IR.h, use.h: instructions, the uses that tie an instruction  *)
(* to its operands, and how long they live.  A Use belongs to its user and *)
(* is a node of the list users_ of the value it uses, which it keeps       *)
(* alive; so a value lives as long as a group, a map of a pass or a use    *)
(* refers to it, and the destructor of a user takes its uses out of the    *)
(* lists, which may end the life of further values.  One step of           *)
(* MemoryToRegisterPass runs over a list of uses while the destructors it  *)
(* causes change that list.                                                *)
(*                                                                         *)
(* The client is the compiler, which generates instructions, promotes      *)
(* variables and leaves SSA form: what each of these does to instructions  *)
(* it does here in any order.  A load stands for the instructions with a   *)
(* result, a store for those without; labels are left out.  A list users_  *)
(* is a set, with nothing assumed of its order; that a list whose nodes go *)
(* under an iterator behaves is the concern of IntrusiveList.              *)
(***************************************************************************)
EXTENDS Naturals, Sequences, Functions

CONSTANTS
    Codes,       \* the instructions
    MaxSources,  \* bound: the sources a phi has at most
    Null

Kinds == {"alloca", "load", "store", "phi", "assign"}

ASSUME NullAssumption == Null \notin Codes \cup Kinds
ASSUME MaxSourcesAssumption == MaxSources \in Nat

VARIABLES
    kind,      \* SiiIRCode::kind_; Null before the instruction is built
    operands,  \* for each of its Use members, value_
    users,     \* Value::users_
    alive,     \* the instructions that exist
    listed,    \* those in the codes_ of a group
    held,      \* those a map of RenamePass refers to
    dying,     \* those nothing refers to, whose destructor has still to run
    loop,      \* the second loop of TryRemoveAllocIfStoreOnly, if it runs
    stage      \* what the client does: "generate", "promote" or "quit"

code == <<kind, operands, alive>>
refs == <<listed, held>>
vars == <<kind, operands, users, alive, listed, held, dying, loop, stage>>

HasResult(c) == kind[c] \in {"alloca", "load", "phi"}

Slots(c) == DOMAIN operands[c]
UsesBy(c) == {<<c, s>> : s \in Slots(c)}
UsesOf(v) == {u \in UNION {UsesBy(c) : c \in alive} : operands[u[1]][u[2]] = v}

NoLoop == [alloca |-> Null]
Looping == loop.alloca # Null

Init ==
    /\ kind = [c \in Codes |-> Null]
    /\ operands = [c \in Codes |-> <<>>]
    /\ users = [c \in Codes |-> {}]
    /\ alive = {} /\ listed = {} /\ held = {} /\ dying = {}
    /\ loop = NoLoop
    /\ stage = "generate"

\* No destructor is running, and no loop: the client may act.
Idle == dying = {} /\ ~Looping
In(s) == Idle /\ stage = s

-----------------------------------------------------------------------------
(***************************************************************************)
(* References.                                                             *)
(***************************************************************************)
Unlink(uses) == [v \in Codes |-> users[v] \ uses]

\* Mutant of Referenced: a Use does not keep its value.
ReferencedByOwners(v) == v \in listed \cup held

\* A shared_ptr to v exists: in a list, in a map, or as value_ of a Use that is
\* the member of a living instruction or the node of a list.
Referenced(v) ==
    \/ v \in listed \cup held
    \/ users[v] # {}
    \/ \E c \in alive : v \in Range(operands[c])

\* Those of a set of instructions to which a step leaves no reference.
Abandoned(set) == {v \in set : v \in alive' /\ ~Referenced(v)'}

-----------------------------------------------------------------------------
(***************************************************************************)
(* The client.                                                             *)
(***************************************************************************)
\* What the client can name: the instructions of the groups and of its maps.
Known == listed \cup held

OperandsFor(k) ==
    LET values == {v \in Known : HasResult(v)}
        addresses == {v \in values : kind[v] = "alloca"}
    IN  CASE k = "alloca" -> {<<>>}
          [] k = "load"   -> {<<v>> : v \in values}
          [] k = "store"  -> values \X values
          [] k = "phi"    -> UNION {{[s \in 1 .. n |-> a] : a \in addresses} : n \in 1 .. MaxSources}

\* The constructor of c: each new Use goes to the list of the value it uses.
Build(c, k, ops) ==
    /\ kind' = [kind EXCEPT ![c] = k]
    /\ operands' = [operands EXCEPT ![c] = ops]
    /\ users' = [v \in Codes |-> users[v] \cup {<<c, s>> : s \in {s \in DOMAIN ops : ops[s] = v}}]
    /\ alive' = alive \cup {c}

\* An instruction is built and put into a group, by CodeBuilder or, for a phi, whose
\* sources all begin as the address of its variable, by VariableMemoryToRegister.
BuildInGroup(c, k, ops) ==
    /\ In(IF k = "phi" THEN "promote" ELSE "generate")
    /\ kind[c] = Null
    /\ Build(c, k, ops)
    /\ listed' = listed \cup {c}
    /\ UNCHANGED <<held, dying, loop, stage>>

\* v is computed from a set of instructions without c, or from phis of it: what
\* comes before c in the order of dominance, in which only a phi looks ahead.
ComesBefore(v, c) ==
    \E before \in SUBSET (Codes \ {c}) :
        v \in before /\ \A d \in before : kind[d] # "phi" => Range(operands[d]) \subseteq before

\* ReplaceTemporary, replace_src and the setters of use_setter: the old Use goes, a
\* new one is made.
ReplaceOperand(c, s, v) ==
    /\ In("promote")
    /\ kind[c] # "phi" => ComesBefore(v, c)
    /\ operands' = [operands EXCEPT ![c][s] = v]
    /\ users' = [Unlink({<<c, s>>}) EXCEPT ![v] = @ \cup {<<c, s>>}]
    /\ UNCHANGED <<kind, alive, listed, held, loop, stage>>
    /\ dying' = Abandoned({operands[c][s]})

\* A map comes to refer to a phi, the current name of a variable, or to an alloca,
\* the variable of a phi.
Hold(c) ==
    /\ In("promote")
    /\ kind[c] \in {"phi", "alloca"} /\ c \in listed
    /\ held' = held \cup {c}
    /\ UNCHANGED <<code, users, listed, dying, loop, stage>>

\* RenamePass erases a load, for which the name v stands from now on.
EraseLoad(c, v) ==
    /\ In("promote")
    /\ kind[c] = "load" /\ c \in listed
    /\ c # v
    /\ listed' = listed \ {c}
    /\ held' = held \cup {v}
    /\ UNCHANGED <<code, users, loop, stage>>
    /\ dying' = Abandoned({c})

\* RenamePass erases a store, whose source is the current name from now on.
EraseStore(c) ==
    /\ In("promote")
    /\ kind[c] = "store" /\ c \in listed
    /\ listed' = listed \ {c}
    /\ held' = held \cup {operands[c][1]}
    /\ UNCHANGED <<code, users, loop, stage>>
    /\ dying' = Abandoned({c})

\* RenamePass erases the alloca of a variable it renames.
EraseAlloca(c) ==
    /\ In("promote")
    /\ kind[c] = "alloca" /\ c \in listed
    /\ listed' = listed \ {c}
    /\ UNCHANGED <<code, users, held, loop, stage>>
    /\ dying' = Abandoned({c})

\* FuncMemoryToRegister returns: its maps go.
EndRound ==
    /\ In("promote")
    /\ held # {}
    /\ held' = {}
    /\ UNCHANGED <<code, users, listed, loop, stage>>
    /\ dying' = Abandoned(held)

Assigned(p, s) ==
    \E c \in listed : kind[c] = "assign" /\ operands[c] = <<p, operands[p][s]>>

\* QuitSSAPass makes an assignment to the phi p for its source s.
AssignPhi(p, s, c) ==
    /\ In("quit")
    /\ kind[p] = "phi" /\ p \in listed
    /\ ~Assigned(p, s)
    /\ kind[c] = Null
    /\ Build(c, "assign", <<p, operands[p][s]>>)
    /\ listed' = listed \cup {c}
    /\ UNCHANGED <<held, dying, loop, stage>>

\* Mutant of ErasePhi: the last source is left out.
ErasePhiEarly(p) ==
    /\ In("quit")
    /\ kind[p] = "phi" /\ p \in listed
    /\ \A s \in Slots(p) \ {Len(operands[p])} : Assigned(p, s)
    /\ listed' = listed \ {p}
    /\ UNCHANGED <<code, users, held, loop, stage>>
    /\ dying' = Abandoned({p})

\* QuitSSAPass erases a phi when all its sources have been assigned.
ErasePhi(p) ==
    /\ In("quit")
    /\ kind[p] = "phi" /\ p \in listed
    /\ \A s \in Slots(p) : Assigned(p, s)
    /\ listed' = listed \ {p}
    /\ UNCHANGED <<code, users, held, loop, stage>>
    /\ dying' = Abandoned({p})

-----------------------------------------------------------------------------
(***************************************************************************)
(* Destructors.                                                            *)
(***************************************************************************)
\* Mutant of UnlinkedBy: ~SiiIRLoad takes none either.
UnlinkedUnlessLoad(c) == {u \in UsesBy(c) : kind[c] \notin {"phi", "load"}}

\* The uses the destructor of c takes out of their lists: ~SiiIRPhi takes none.
UnlinkedBy(c) == {u \in UsesBy(c) : kind[c] # "phi"}

\* Mutant of Destroy: it may run again.
DestroyAgain(c) ==
    /\ c \in dying
    /\ alive' = alive \ {c}
    /\ users' = Unlink(UnlinkedBy(c))
    /\ operands' = [operands EXCEPT ![c] = <<>>]
    /\ UNCHANGED <<kind, listed, held, loop, stage>>
    /\ dying' = dying \cup Abandoned(Range(operands[c]))

\* The destructor of c runs; its operands may be next.
Destroy(c) ==
    /\ c \in dying
    /\ alive' = alive \ {c}
    /\ users' = Unlink(UnlinkedBy(c))
    /\ operands' = [operands EXCEPT ![c] = <<>>]
    /\ UNCHANGED <<kind, listed, held, loop, stage>>
    /\ dying' = (dying \ {c}) \cup Abandoned(Range(operands[c]))

-----------------------------------------------------------------------------
(***************************************************************************)
(* TryRemoveAllocIfStoreOnly: a loop over the users of an alloca takes     *)
(* each out of its group, which destroys it and its uses, among them the   *)
(* node of users_ the loop stands on.                                      *)
(***************************************************************************)
End == <<Null, 0>>
Gone == <<Null, 1>>  \* where the iterator stands after the body of the loop

\* Mutant of Removable: the stores of the address itself do not matter.
StoresOnly(a) == \A u \in users[a] : kind[u[1]] = "store"

\* CanVariableToRegister, and then the first loop of TryRemoveAllocIfStoreOnly.
Removable(a) ==
    /\ \A u \in users[a] : kind[u[1]] = "store" => operands[u[1]][1] # a
    /\ \A u \in users[a] : kind[u[1]] = "store"

\* The iterator arrives at use at, with the uses rest behind it.
Iterator(a, at, rest) ==
    IF at = End THEN {[alloca |-> a, at |-> End, next |-> End, rest |-> {}]}
    ELSE IF rest = {} THEN {[alloca |-> a, at |-> at, next |-> End, rest |-> {}]}
    ELSE {[alloca |-> a, at |-> at, next |-> n, rest |-> rest \ {n}] : n \in rest}

StartRemoval(a) ==
    /\ In("promote")
    /\ kind[a] = "alloca" /\ a \in listed
    /\ Removable(a)
    /\ \E at \in IF users[a] = {} THEN {End} ELSE users[a] :
           loop' \in Iterator(a, at, users[a] \ {at})
    /\ UNCHANGED <<code, users, refs, dying, stage>>

\* The body: remove_from_parent of the user.
RemoveUser ==
    /\ Looping /\ dying = {}
    /\ loop.at \notin {End, Gone}
    /\ listed' = listed \ {loop.at[1]}
    /\ loop' = [loop EXCEPT !.at = Gone]
    /\ UNCHANGED <<code, users, held, stage>>
    /\ dying' = Abandoned({loop.at[1]})

\* operator++: to the use the iterator remembers, and it remembers the one after.
Advance ==
    /\ Looping /\ dying = {}
    /\ loop.at = Gone
    /\ loop' \in Iterator(loop.alloca, loop.next, loop.rest \cap users[loop.alloca])
    /\ UNCHANGED <<code, users, refs, dying, stage>>

\* After the loop the alloca is taken out of the entry group.
EndRemoval ==
    /\ Looping /\ dying = {}
    /\ loop.at = End
    /\ listed' = listed \ {loop.alloca}
    /\ loop' = NoLoop
    /\ UNCHANGED <<code, users, held, stage>>
    /\ dying' = Abandoned({loop.alloca})

-----------------------------------------------------------------------------
\* main.cpp: the generator is done, or MemoryToRegisterPass, between two rounds.
NextStage ==
    /\ Idle
    /\ held = {}
    /\ stage # "quit"
    /\ stage' = IF stage = "generate" THEN "promote" ELSE "quit"
    /\ UNCHANGED <<code, users, refs, dying, loop>>

Client ==
    \/ \E c \in Codes, k \in Kinds \ {"assign"} : \E ops \in OperandsFor(k) : BuildInGroup(c, k, ops)
    \/ \E c \in listed : \E s \in Slots(c) : \E v \in Known : HasResult(v) /\ ReplaceOperand(c, s, v)
    \/ \E c \in listed : Hold(c)
    \/ \E c \in listed : \E v \in Known : HasResult(v) /\ EraseLoad(c, v)
    \/ \E c \in listed : EraseStore(c) \/ EraseAlloca(c) \/ ErasePhi(c)
    \/ EndRound
    \/ \E p \in listed : \E s \in Slots(p) : \E c \in Codes : AssignPhi(p, s, c)

Removal == (\E a \in listed : StartRemoval(a)) \/ RemoveUser \/ Advance \/ EndRemoval

\* The client may have nothing more to do.
Rest == Idle /\ UNCHANGED vars

Next == Client \/ NextStage \/ Removal \/ (\E c \in Codes : Destroy(c)) \/ Rest

Spec == Init /\ [][Next]_vars

-----------------------------------------------------------------------------
(***************************************************************************)
(* Properties.                                                             *)
(***************************************************************************)
\* Groups, maps and the running destructors hold instructions that exist, and an
\* instruction has as many operands as its kind has.
TypeOK ==
    /\ kind \in [Codes -> Kinds \cup {Null}]
    /\ operands \in [Codes -> Seq(Codes)]
    /\ users \in [Codes -> SUBSET (Codes \X Nat)]
    /\ alive \subseteq {c \in Codes : kind[c] # Null}
    /\ listed \cup held \cup dying \subseteq alive
    /\ loop.alloca \in Codes \cup {Null}
    /\ stage \in {"generate", "promote", "quit"}

\* users_ of each value lists the operands that name it, of the instructions that
\* exist, and no others: CanVariableToRegister and the loops over users_ see all
\* users, and never follow user_ to an instruction that is gone.
UsersMirrorOperands == \A v \in Codes : users[v] = UsesOf(v)

\* No instruction outlives one of its operands.
OperandsExist == \A c \in alive : Range(operands[c]) \subseteq alive

\* Shared pointers do not collect rings, and a use left in the list of the value
\* it uses keeps that value alive for good: every instruction that exists is one
\* that can be reached over operands from a group, a map or a running destructor.
NothingLeaks ==
    \A set \in SUBSET alive :
        (listed \cup held \cup dying \subseteq set /\ \A c \in set : Range(operands[c]) \subseteq set)
            => set = alive

\* While destructors change the list the loop of TryRemoveAllocIfStoreOnly is in,
\* the nodes the iterator stands on and will go to are in that list; and when the
\* loop ends no instruction is left that mentions the alloca it then removes.
RemovalLoopIsSafe ==
    Looping =>
        /\ {loop.at, loop.next} \ {End, Gone} \subseteq users[loop.alloca]
        /\ loop.at = End => users[loop.alloca] = {}
=============================================================================
