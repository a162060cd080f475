----------------------------- MODULE IDFBuilder -----------------------------
(***************************************************************************)
(* src/IR/IDF_builder.cpp: the dominance frontiers of a function and the   *)
(* iterated dominance frontier of a set of groups, which is where          *)
(* MemoryToRegisterPass puts the phi instructions of a variable.           *)
(*                                                                         *)
(* The builder computes the dominance frontiers once (the recursion of     *)
(* build_dominance_frontiers_of_node is the variable stack) and then       *)
(* serves any number of calls of get_IDF.  The dominator tree is what      *)
(* BuildDominatorTree promises (module ImmediateDominators, which module   *)
(* DominatorTree implements).  Children of a tree node are visited, and    *)
(* the std::set of pointers is iterated, in an arbitrary order.            *)
(***************************************************************************)
EXTENDS FlowGraph, Functions

CONSTANT Calls  \* the arguments get_IDF may be called with

ASSUME CallsAssumption == Calls \subseteq Seq(Groups)

VARIABLES
    follows,  \* BasicGroup::follows_, the input
    parent,   \* DominatorTreeNode::parent_
    level,    \* DominatorTreeNode::level
    phase,    \* "frontiers", then "ready", "working" and "returned"
    stack,    \* the calls of build_dominance_frontiers_of_node
    df,       \* dominance_frontiers_
    defs,     \* get_IDF: the groups it was called with
    queue,    \* get_IDF: working_list
    todo,     \* get_IDF: what is left of the frontier being iterated over
    idf       \* get_IDF: IDF_set

input == <<follows, parent, level>>
call  == <<defs, queue, todo, idf>>
vars  == <<input, phase, stack, df, call>>

\* Mutant of IsDominatorOf: a group dominates itself.
IsSelfOrDominatorOf(a, b) ==
    LET Climb[n \in Groups] == IF level[n] > level[a] THEN Climb[parent[n]] ELSE n
    IN  Climb[b] = a

\* The static function IsDominatorOf: climb from b to the level of a.
IsDominatorOf(a, b) ==
    LET Climb[n \in Groups] == IF level[n] > level[a] THEN Climb[parent[n]] ELSE n
    IN  a # b /\ Climb[b] = a

Children(b) == {c \in DOMAIN parent : parent[c] = b}

\* The successors of b that b does not strictly dominate.
LocalFrontier(b) == {s \in Successors(follows, b) : ~IsDominatorOf(b, s)}

Call(b) == [node |-> b, todo |-> Children(b)]

Init ==
    /\ follows \in FlowGraphs
    /\ LET dom == DominatorMap(follows)
       IN  /\ parent = [b \in Groups \ {Entry} |-> ImmediateDominator(dom, b)]
           /\ level = [b \in Groups |-> Cardinality(dom[b]) - 1]
    /\ phase = "frontiers"
    /\ stack = <<Call(Entry)>>
    /\ df = [b \in Groups |-> IF b = Entry THEN LocalFrontier(b) ELSE {}]
    /\ defs = {} /\ queue = <<>> /\ todo = {} /\ idf = {}

-----------------------------------------------------------------------------
Frame == stack[Len(stack)]

\* Recurse into a child: its frontier starts with the local part.
CallChild(c) ==
    /\ phase = "frontiers"
    /\ c \in Frame.todo
    /\ stack' = Append([stack EXCEPT ![Len(stack)].todo = @ \ {c}], Call(c))
    /\ df' = [df EXCEPT ![c] = LocalFrontier(c)]
    /\ UNCHANGED <<input, phase, call>>

\* Mutant of ReturnFromChild: nothing goes up.
ReturnNothing ==
    /\ phase = "frontiers"
    /\ Frame.todo = {}
    /\ Len(stack) > 1
    /\ stack' = SubSeq(stack, 1, Len(stack) - 1)
    /\ UNCHANGED <<input, phase, df, call>>

\* The call for a child returns: what the child leaves undominated, and its
\* parent does too, goes up.
ReturnFromChild ==
    /\ phase = "frontiers"
    /\ Frame.todo = {}
    /\ Len(stack) > 1
    /\ LET caller == stack[Len(stack) - 1].node
       IN  df' = [df EXCEPT ![caller] =
                      @ \cup {f \in df[Frame.node] : ~IsDominatorOf(caller, f)}]
    /\ stack' = SubSeq(stack, 1, Len(stack) - 1)
    /\ UNCHANGED <<input, phase, call>>

FrontiersDone ==
    /\ phase = "frontiers"
    /\ Frame.todo = {}
    /\ Len(stack) = 1
    /\ stack' = <<>>
    /\ phase' = "ready"
    /\ UNCHANGED <<input, df, call>>

-----------------------------------------------------------------------------
CallGetIDF(groups) ==
    /\ phase \in {"ready", "returned"}
    /\ phase' = "working"
    /\ defs' = Range(groups)
    /\ queue' = groups
    /\ todo' = {}
    /\ idf' = {}
    /\ UNCHANGED <<input, stack, df>>

\* Mutant of PopNode: the node stays at the front of the list.
LookAtFront ==
    /\ phase = "working"
    /\ todo = {}
    /\ queue # <<>>
    /\ todo' = df[Head(queue)]
    /\ UNCHANGED <<input, phase, stack, df, defs, queue, idf>>

\* Take the next node off the working list.
PopNode ==
    /\ phase = "working"
    /\ todo = {}
    /\ queue # <<>>
    /\ queue' = Tail(queue)
    /\ todo' = df[Head(queue)]
    /\ UNCHANGED <<input, phase, stack, df, defs, idf>>

\* Mutant of VisitFrontier: a new group is not queued.
VisitWithoutQueueing(f) ==
    /\ phase = "working"
    /\ f \in todo
    /\ todo' = todo \ {f}
    /\ idf' = idf \cup {f}
    /\ UNCHANGED <<input, phase, stack, df, defs, queue>>

\* Look at one member of its frontier; queue it if it is new.
VisitFrontier(f) ==
    /\ phase = "working"
    /\ f \in todo
    /\ todo' = todo \ {f}
    /\ idf' = idf \cup {f}
    /\ queue' = IF f \in idf THEN queue ELSE Append(queue, f)
    /\ UNCHANGED <<input, phase, stack, df, defs>>

ReturnIDF ==
    /\ phase = "working"
    /\ todo = {}
    /\ queue = <<>>
    /\ phase' = "returned"
    /\ UNCHANGED <<input, stack, df, call>>

\* A step of the code, as opposed to a new call of it.
Step ==
    \/ \E c \in Groups : CallChild(c)
    \/ ReturnFromChild
    \/ FrontiersDone
    \/ PopNode
    \/ \E f \in Groups : VisitFrontier(f)
    \/ ReturnIDF

Next == Step \/ \E groups \in Calls : CallGetIDF(groups)

\* The code runs until it returns; nobody has to call get_IDF again.
Spec == Init /\ [][Next]_vars /\ WF_vars(Step)

-----------------------------------------------------------------------------
(***************************************************************************)
(* Properties.                                                             *)
(***************************************************************************)
\* What the bottom-up recursion over the dominator tree computes is the
\* dominance frontier of the textbook: b's frontier holds the groups b does not
\* strictly dominate although it dominates a predecessor.
FrontiersAreCorrect ==
    phase = "ready" =>
        LET dom == DominatorMap(follows)
        IN  \A b \in Groups : df[b] = DominanceFrontier(follows, dom, b)

ClosedUnderFrontier(S) == ClosedUnder(df, defs, S)

\* get_IDF returns the iterated dominance frontier: the least set that is closed
\* under the frontier, whatever the order in which groups are queued and sets of
\* pointers are iterated.
IDFIsLeastClosed ==
    phase = "returned" =>
        /\ ClosedUnderFrontier(idf)
        /\ \A S \in SUBSET Groups : ClosedUnderFrontier(S) => idf \subseteq S

\* Why a phi in each group of get_IDF is enough for MemoryToRegisterPass: if the
\* value of a variable on entry to a group without a phi is the one its immediate
\* dominator ends with, then every predecessor ends with that value.
PhisSuffice ==
    phase = "returned" =>
        LET In[b \in Groups] ==
                IF b \in idf THEN <<"phi", b>>
                ELSE IF b = Entry THEN <<"undef", b>>
                ELSE IF parent[b] \in defs THEN <<"store", parent[b]>>
                ELSE In[parent[b]]
            Out(b) == IF b \in defs THEN <<"store", b>> ELSE In[b]
        IN  \A b \in Groups \ idf :
                \A p \in Predecessors(follows, b) : Out(p) = In[b]

\* Every call of get_IDF returns, although the working list grows while it is
\* worked off, and although a group may be in its own frontier.
CallsReturn == (phase = "working") ~> (phase = "returned")
=============================================================================
