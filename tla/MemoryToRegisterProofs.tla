----------------------- MODULE MemoryToRegisterProofs -----------------------
(***************************************************************************)
(* Proofs about MemoryToRegister, for any flow graphs and any functions    *)
(* that satisfy the assumptions there.                                     *)
(*                                                                         *)
(* Type correctness is proved of every function; the rest of functions     *)
(* that take no address (NoPointers): the others are not kept, as the runs *)
(* that expect a violation show.  The argument is the invariant PassInv.   *)
(* While a round scans the allocas (ScanInv), every group does to the      *)
(* variables that are left what its source does, and a variable that a     *)
(* group changes has phis in the frontier of the group.  While it renames  *)
(* (RenameInv), with R the groups that are renamed, the others are as the  *)
(* scan left them, and each of R, run with a value for each name on entry, *)
(* ends with the values its source leaves in memory under the names out    *)
(* (GroupMeans).  Names pass from group to group as values do along edges: *)
(* a variable without a phi in a group has there the name it has after the *)
(* group's immediate dominator (NamePasses).  So every path computes what  *)
(* it did (FinalUsesTheSame).                                              *)
(***************************************************************************)
EXTENDS MemoryToRegister, DominanceProofs

-----------------------------------------------------------------------------
(***************************************************************************)
(* Loops over the codes of a group: the recursive functions of the model.  *)
(***************************************************************************)
\* Counting upwards reaches every number up to L.
LEMMA CountingUp ==
    ASSUME NEW L \in Nat, NEW T, 0 \in T, \A n \in 0 .. L - 1 : n \in T => n + 1 \in T
    PROVE  \A n \in 0 .. L : n \in T
<1> DEFINE Bad == {n \in 0 .. L : n \notin T}
<1> SUFFICES ASSUME Bad # {} PROVE FALSE
  OBVIOUS
<1>1. Bad \subseteq Nat
  OBVIOUS
<1>2. PICK m \in Bad : \A j \in Bad : m <= j
  <2> HIDE DEF Bad
  <2> QED
    BY <1>1, LeastNumber
<1>3. m \in 0 .. L /\ m \notin T /\ m # 0
  BY <1>2
<1>4. m - 1 \in 0 .. L - 1 /\ m - 1 \notin Bad
  BY <1>2, <1>3
<1>5. m - 1 \in T
  BY <1>4
<1>6. (m - 1) + 1 \in T
  BY <1>4, <1>5
<1> QED
  BY <1>3, <1>6

\* The loop that collects the allocas of codes c, up to number m.
CollectStep(c, n, x) == IF c[n].op = "alloca" THEN Append(x, c[n]) ELSE x
IsCollecting(c, m, F) == F = [n \in 0 .. m |-> IF n = 0 THEN <<>> ELSE CollectStep(c, n, F[n - 1])]

\* What the loop begins with, and what it does next.
CollectingGoes(c, m, F) ==
    F[0] = <<>> /\ \A n \in 0 .. m - 1 : F[n + 1] = CollectStep(c, n + 1, F[n])

\* Each step of the loop over the allocas.
LEMMA CollectingStep ==
    ASSUME NEW c, NEW m \in Nat, NEW F, IsCollecting(c, m, F)
    PROVE  CollectingGoes(c, m, F)
<1>1. F[0] = <<>>
  BY DEF IsCollecting
<1>2. ASSUME NEW n \in 0 .. m - 1 PROVE F[n + 1] = CollectStep(c, n + 1, F[n])
  <2>1. n + 1 \in 0 .. m /\ n + 1 # 0 /\ (n + 1) - 1 = n
    OBVIOUS
  <2> QED
    BY <2>1 DEF IsCollecting
<1> QED
  BY <1>1, <1>2 DEF CollectingGoes

\* The loop can be continued.
LEMMA CollectingGoesOn ==
    ASSUME NEW c, NEW m \in Nat, NEW h, IsCollecting(c, m, h)
    PROVE  \E g : IsCollecting(c, m + 1, g)
<1> DEFINE g == [n \in 0 .. m + 1 |-> IF n = m + 1 THEN CollectStep(c, n, h[m]) ELSE h[n]]
<1>1. ASSUME NEW n \in 0 .. m + 1
      PROVE  g[n] = IF n = 0 THEN <<>> ELSE CollectStep(c, n, g[n - 1])
  BY DEF IsCollecting
<1>2. IsCollecting(c, m + 1, g)
  BY <1>1 DEF IsCollecting
<1> QED
  BY <1>2

\* AllocasOf is the result of that loop.
LEMMA CollectingIs ==
    ASSUME NEW c, Len(c) \in Nat
    PROVE  \E F : IsCollecting(c, Len(c), F) /\ AllocasOf(c) = F[Len(c)]
<1> DEFINE T == {m \in 0 .. Len(c) : \E h : IsCollecting(c, m, h)}
           F == CHOOSE F : IsCollecting(c, Len(c), F)
<1>1. IsCollecting(c, 0, [n \in 0 .. 0 |-> <<>>])
  BY DEF IsCollecting
<1>2. 0 \in T
  BY <1>1
<1>3. ASSUME NEW m \in 0 .. Len(c) - 1, m \in T PROVE m + 1 \in T
  BY <1>3, CollectingGoesOn
<1>4. \A m \in 0 .. Len(c) : m \in T
  <2> HIDE DEF T
  <2> QED
    BY <1>2, <1>3, CountingUp
<1>5. IsCollecting(c, Len(c), F)
  BY <1>4
<1>6. AllocasOf(c) = F[Len(c)]
  BY DEF AllocasOf, IsCollecting, CollectStep
<1> QED
  BY <1>5, <1>6

Mentions(v, i) == i.id = v \/ v \in ToSet(i.args)

\* The loop that leaves out what mentions v, up to number m.
LeaveOutStep(v, c, n, x) == IF Mentions(v, c[n]) THEN x ELSE Append(x, c[n])
IsLeavingOut(v, c, m, F) == F = [n \in 0 .. m |-> IF n = 0 THEN <<>> ELSE LeaveOutStep(v, c, n, F[n - 1])]

\* What the loop begins with, and what it does next.
LeavingOutGoes(v, c, m, F) ==
    F[0] = <<>> /\ \A n \in 0 .. m - 1 : F[n + 1] = LeaveOutStep(v, c, n + 1, F[n])

\* Each step of the loop of Without.
LEMMA LeavingOutStep ==
    ASSUME NEW v, NEW c, NEW m \in Nat, NEW F, IsLeavingOut(v, c, m, F)
    PROVE  LeavingOutGoes(v, c, m, F)
<1>1. F[0] = <<>>
  BY DEF IsLeavingOut
<1>2. ASSUME NEW n \in 0 .. m - 1 PROVE F[n + 1] = LeaveOutStep(v, c, n + 1, F[n])
  <2>1. n + 1 \in 0 .. m /\ n + 1 # 0 /\ (n + 1) - 1 = n
    OBVIOUS
  <2> QED
    BY <2>1 DEF IsLeavingOut
<1> QED
  BY <1>1, <1>2 DEF LeavingOutGoes

\* The loop can be continued.
LEMMA LeavingOutGoesOn ==
    ASSUME NEW v, NEW c, NEW m \in Nat, NEW h, IsLeavingOut(v, c, m, h)
    PROVE  \E g : IsLeavingOut(v, c, m + 1, g)
<1> DEFINE g == [n \in 0 .. m + 1 |-> IF n = m + 1 THEN LeaveOutStep(v, c, n, h[m]) ELSE h[n]]
<1>1. ASSUME NEW n \in 0 .. m + 1
      PROVE  g[n] = IF n = 0 THEN <<>> ELSE LeaveOutStep(v, c, n, g[n - 1])
  BY DEF IsLeavingOut
<1>2. IsLeavingOut(v, c, m + 1, g)
  BY <1>1 DEF IsLeavingOut
<1> QED
  BY <1>2

\* Without is the result of that loop.
LEMMA LeavingOutIs ==
    ASSUME NEW v, NEW c, Len(c) \in Nat
    PROVE  \E F : IsLeavingOut(v, c, Len(c), F) /\ Without(v, c) = F[Len(c)]
<1> DEFINE T == {m \in 0 .. Len(c) : \E h : IsLeavingOut(v, c, m, h)}
           F == CHOOSE F : IsLeavingOut(v, c, Len(c), F)
<1>1. IsLeavingOut(v, c, 0, [n \in 0 .. 0 |-> <<>>])
  BY DEF IsLeavingOut
<1>2. 0 \in T
  BY <1>1
<1>3. ASSUME NEW m \in 0 .. Len(c) - 1, m \in T PROVE m + 1 \in T
  BY <1>3, LeavingOutGoesOn
<1>4. \A m \in 0 .. Len(c) : m \in T
  <2> HIDE DEF T
  <2> QED
    BY <1>2, <1>3, CountingUp
<1>5. IsLeavingOut(v, c, Len(c), F)
  BY <1>4
<1>6. Without(v, c) = F[Len(c)]
  BY DEF Without, Mentions, IsLeavingOut, LeaveOutStep
<1> QED
  BY <1>5, <1>6

StartOfRename == [out |-> <<>>, names |-> names, temporary |-> temporary, count |-> NoMap]

\* The loop that renames the codes c of a group, up to number m.
RenameStep(c, n, x) == RenameInstr(x, c[n])
IsRenaming(c, m, F) == F = [n \in 0 .. m |-> IF n = 0 THEN StartOfRename ELSE RenameStep(c, n, F[n - 1])]

\* What the loop begins with, and what it does next.
RenamingGoes(c, m, F) ==
    F[0] = StartOfRename /\ \A n \in 0 .. m - 1 : F[n + 1] = RenameStep(c, n + 1, F[n])

\* Each step of the loop of RenamePass over a group.
LEMMA RenamingStep ==
    ASSUME NEW c, NEW m \in Nat, NEW F, IsRenaming(c, m, F)
    PROVE  RenamingGoes(c, m, F)
<1>1. F[0] = StartOfRename
  BY DEF IsRenaming
<1>2. ASSUME NEW n \in 0 .. m - 1 PROVE F[n + 1] = RenameStep(c, n + 1, F[n])
  <2>1. n + 1 \in 0 .. m /\ n + 1 # 0 /\ (n + 1) - 1 = n
    OBVIOUS
  <2> QED
    BY <2>1 DEF IsRenaming
<1> QED
  BY <1>1, <1>2 DEF RenamingGoes

\* The loop can be continued.
LEMMA RenamingGoesOn ==
    ASSUME NEW c, NEW m \in Nat, NEW h, IsRenaming(c, m, h)
    PROVE  \E g : IsRenaming(c, m + 1, g)
<1> DEFINE g == [n \in 0 .. m + 1 |-> IF n = m + 1 THEN RenameStep(c, n, h[m]) ELSE h[n]]
<1>1. ASSUME NEW n \in 0 .. m + 1
      PROVE  g[n] = IF n = 0 THEN StartOfRename ELSE RenameStep(c, n, g[n - 1])
  BY DEF IsRenaming
<1>2. IsRenaming(c, m + 1, g)
  BY <1>1 DEF IsRenaming
<1> QED
  BY <1>2

\* RenameCodes is the result of that loop.
LEMMA RenamingIs ==
    ASSUME NEW c, Len(c) \in Nat
    PROVE  \E F : IsRenaming(c, Len(c), F) /\ RenameCodes(c) = F[Len(c)]
<1> DEFINE T == {m \in 0 .. Len(c) : \E h : IsRenaming(c, m, h)}
           F == CHOOSE F : IsRenaming(c, Len(c), F)
<1>1. IsRenaming(c, 0, [n \in 0 .. 0 |-> StartOfRename])
  BY DEF IsRenaming
<1>2. 0 \in T
  BY <1>1
<1>3. ASSUME NEW m \in 0 .. Len(c) - 1, m \in T PROVE m + 1 \in T
  BY <1>3, RenamingGoesOn
<1>4. \A m \in 0 .. Len(c) : m \in T
  <2> HIDE DEF T
  <2> QED
    BY <1>2, <1>3, CountingUp
<1>5. IsRenaming(c, Len(c), F)
  BY <1>4
<1>6. RenameCodes(c) = F[Len(c)]
  BY DEF RenameCodes, StartOfRename, IsRenaming, RenameStep
<1> QED
  BY <1>5, <1>6

\* The loop that runs the codes c, up to number m.
RunStep(run, c, n, x) == RunInstr(x, c[n])
IsRunning(run, c, m, F) == F = [n \in 0 .. m |-> IF n = 0 THEN run ELSE RunStep(run, c, n, F[n - 1])]

\* What the loop begins with, and what it does next.
RunningGoes(run, c, m, F) ==
    F[0] = run /\ \A n \in 0 .. m - 1 : F[n + 1] = RunStep(run, c, n + 1, F[n])

\* Each step of running codes.
LEMMA RunningStep ==
    ASSUME NEW run, NEW c, NEW m \in Nat, NEW F, IsRunning(run, c, m, F)
    PROVE  RunningGoes(run, c, m, F)
<1>1. F[0] = run
  BY DEF IsRunning
<1>2. ASSUME NEW n \in 0 .. m - 1 PROVE F[n + 1] = RunStep(run, c, n + 1, F[n])
  <2>1. n + 1 \in 0 .. m /\ n + 1 # 0 /\ (n + 1) - 1 = n
    OBVIOUS
  <2> QED
    BY <2>1 DEF IsRunning
<1> QED
  BY <1>1, <1>2 DEF RunningGoes

\* The loop can be continued.
LEMMA RunningGoesOn ==
    ASSUME NEW run, NEW c, NEW m \in Nat, NEW h, IsRunning(run, c, m, h)
    PROVE  \E g : IsRunning(run, c, m + 1, g)
<1> DEFINE g == [n \in 0 .. m + 1 |-> IF n = m + 1 THEN RunStep(run, c, n, h[m]) ELSE h[n]]
<1>1. ASSUME NEW n \in 0 .. m + 1
      PROVE  g[n] = IF n = 0 THEN run ELSE RunStep(run, c, n, g[n - 1])
  BY DEF IsRunning
<1>2. IsRunning(run, c, m + 1, g)
  BY <1>1 DEF IsRunning
<1> QED
  BY <1>2

\* RunCodes is the result of that loop.
LEMMA RunningIs ==
    ASSUME NEW run, NEW c, Len(c) \in Nat
    PROVE  \E F : IsRunning(run, c, Len(c), F) /\ RunCodes(run, c) = F[Len(c)]
<1> DEFINE T == {m \in 0 .. Len(c) : \E h : IsRunning(run, c, m, h)}
           F == CHOOSE F : IsRunning(run, c, Len(c), F)
<1>1. IsRunning(run, c, 0, [n \in 0 .. 0 |-> run])
  BY DEF IsRunning
<1>2. 0 \in T
  BY <1>1
<1>3. ASSUME NEW m \in 0 .. Len(c) - 1, m \in T PROVE m + 1 \in T
  BY <1>3, RunningGoesOn
<1>4. \A m \in 0 .. Len(c) : m \in T
  <2> HIDE DEF T
  <2> QED
    BY <1>2, <1>3, CountingUp
<1>5. IsRunning(run, c, Len(c), F)
  BY <1>4
<1>6. RunCodes(run, c) = F[Len(c)]
  BY DEF RunCodes, IsRunning, RunStep
<1> QED
  BY <1>5, <1>6

EdgeTo(p, path, n) == IF n = 1 THEN 0 ELSE CHOOSE k \in DOMAIN p[path[n]] : p[path[n]][k] = path[n - 1]

\* The run of codes c along a path, up to number m.
PathStep(c, p, path, n, x) == RunGroup(x, c[path[n]], EdgeTo(p, path, n))
IsWalking(c, p, path, m, F) == F = [n \in 0 .. m |-> IF n = 0 THEN StartOfRun ELSE PathStep(c, p, path, n, F[n - 1])]

\* What the loop begins with, and what it does next.
WalkingGoes(c, p, path, m, F) ==
    F[0] = StartOfRun /\ \A n \in 0 .. m - 1 : F[n + 1] = PathStep(c, p, path, n + 1, F[n])

\* Each step of running a path.
LEMMA WalkingStep ==
    ASSUME NEW c, NEW p, NEW path, NEW m \in Nat, NEW F, IsWalking(c, p, path, m, F)
    PROVE  WalkingGoes(c, p, path, m, F)
<1>1. F[0] = StartOfRun
  BY DEF IsWalking
<1>2. ASSUME NEW n \in 0 .. m - 1 PROVE F[n + 1] = PathStep(c, p, path, n + 1, F[n])
  <2>1. n + 1 \in 0 .. m /\ n + 1 # 0 /\ (n + 1) - 1 = n
    OBVIOUS
  <2> QED
    BY <2>1 DEF IsWalking
<1> QED
  BY <1>1, <1>2 DEF WalkingGoes

\* The loop can be continued.
LEMMA WalkingGoesOn ==
    ASSUME NEW c, NEW p, NEW path, NEW m \in Nat, NEW h, IsWalking(c, p, path, m, h)
    PROVE  \E g : IsWalking(c, p, path, m + 1, g)
<1> DEFINE g == [n \in 0 .. m + 1 |-> IF n = m + 1 THEN PathStep(c, p, path, n, h[m]) ELSE h[n]]
<1>1. ASSUME NEW n \in 0 .. m + 1
      PROVE  g[n] = IF n = 0 THEN StartOfRun ELSE PathStep(c, p, path, n, g[n - 1])
  BY DEF IsWalking
<1>2. IsWalking(c, p, path, m + 1, g)
  BY <1>1 DEF IsWalking
<1> QED
  BY <1>2

\* RunPath is the result of that loop.
LEMMA WalkingIs ==
    ASSUME NEW c, NEW p, NEW path, Len(path) \in Nat
    PROVE  \E F : IsWalking(c, p, path, Len(path), F) /\ RunPath(c, p, path) = F[Len(path)]
<1> DEFINE T == {m \in 0 .. Len(path) : \E h : IsWalking(c, p, path, m, h)}
           F == CHOOSE F : IsWalking(c, p, path, Len(path), F)
<1>1. IsWalking(c, p, path, 0, [n \in 0 .. 0 |-> StartOfRun])
  BY DEF IsWalking
<1>2. 0 \in T
  BY <1>1
<1>3. ASSUME NEW m \in 0 .. Len(path) - 1, m \in T PROVE m + 1 \in T
  BY <1>3, WalkingGoesOn
<1>4. \A m \in 0 .. Len(path) : m \in T
  <2> HIDE DEF T
  <2> QED
    BY <1>2, <1>3, CountingUp
<1>5. IsWalking(c, p, path, Len(path), F)
  BY <1>4
<1>6. RunPath(c, p, path) = F[Len(path)]
  BY DEF RunPath, EdgeTo, IsWalking, PathStep
<1> QED
  BY <1>5, <1>6

-----------------------------------------------------------------------------
(***************************************************************************)
(* Type correctness.                                                       *)
(***************************************************************************)
\* What codes_ holds: the operands an instruction of its kind has.
Shaped ==
    {i \in Instructions :
        /\ i.op = "load" => Len(i.args) = 1
        /\ i.op = "store" => Len(i.args) = 2
        /\ i.op = "phi" => i.id[1] = "phi"
        /\ i.op = "alloca" => \E v \in Names : i.id = Address(v)}

Maps(T) == UNION {[D -> T] : D \in SUBSET Values}

RenameStates == [out : Seq(Shaped), names : Maps(Seq(Values)), temporary : Maps(Values), count : Maps(Nat)]

Frames == [group : Groups, todo : SUBSET Groups, count : Maps(Nat)]

IsAllocas(s) == s \in Seq(Shaped) /\ \A n \in 1 .. Len(s) : s[n].op = "alloca"

TypeInv ==
    /\ follows \in FlowGraphs /\ precedes = PrecedesOf(follows)
    /\ source \in SourcesOf(follows)
    /\ children \in [Groups -> SUBSET Groups]
    /\ code \in [Groups -> Seq(Shaped)]
    /\ phase \in {"scan", "rename", "finished"}
    /\ IsAllocas(scan)
    /\ stack \in Seq(Frames)
    /\ names \in Maps(Seq(Values))
    /\ temporary \in Maps(Values)
    /\ original \in Maps(Values) /\ \A x \in DOMAIN original : x[1] = "phi"
    /\ phase = "rename" => stack # <<>>

\* Map m is f with an entry more, or another one.
IsWith(m, f, x, y) ==
    /\ DOMAIN m = DOMAIN f \cup {x} /\ m[x] = y
    /\ \A z \in DOMAIN f : z # x => m[z] = f[z]

\* Adding an entry to a map.
LEMMA WithIs ==
    ASSUME NEW T, NEW f \in Maps(T), NEW x \in Values, NEW y \in T
    PROVE  With(f, x, y) \in Maps(T) /\ IsWith(With(f, x, y), f, x, y)
<1>1. PICK D \in SUBSET Values : f \in [D -> T]
  BY DEF Maps
<1>2. With(f, x, y) \in [D \cup {x} -> T]
  BY <1>1 DEF With
<1>3. D \cup {x} \in SUBSET Values
  BY <1>1
<1>4. With(f, x, y) \in Maps(T)
  BY <1>2, <1>3 DEF Maps
<1> QED
  BY <1>1, <1>4 DEF With, IsWith

\* What a map of values holds.
LEMMA MapEntry ==
    ASSUME NEW T, NEW f \in Maps(T)
    PROVE  DOMAIN f \subseteq Values /\ \A x \in DOMAIN f : f[x] \in T
  BY DEF Maps

\* The empty map is a map to anything.
LEMMA NoMapIsMap ==
    ASSUME NEW T
    PROVE  NoMap \in Maps(T) /\ DOMAIN NoMap = {}
<1>1. NoMap \in [{} -> T]
  BY DEF NoMap
<1> QED
  BY <1>1 DEF Maps

\* The top of the stack of a variable is a value.
LEMMA TopIsValue ==
    ASSUME NEW nm \in Maps(Seq(Values)), NEW v \in DOMAIN nm
    PROVE  Top(nm, v) \in Values
<1>1. nm[v] \in Seq(Values)
  BY MapEntry
<1>2. CASE nm[v] = <<>>
  BY <1>2, ValuesAssumption DEF Top
<1>3. CASE nm[v] # <<>>
  <2>1. Len(nm[v]) \in 1 .. Len(nm[v])
    BY <1>1, <1>3, LenProperties, EmptySeq
  <2> QED
    BY <1>1, <1>3, <2>1, ElementOfSeq DEF Top, Last
<1> QED
  BY <1>2, <1>3

\* ReplaceTemporary gives a value.
LEMMA ResolveIsValue ==
    ASSUME NEW tmp \in Maps(Values), NEW x \in Values
    PROVE  Resolve(tmp, x) \in Values
  BY MapEntry DEF Resolve

\* An instruction is kept with other operands, as many as before.
LEMMA OtherArgs ==
    ASSUME NEW i \in Shaped, NEW a \in Seq(Values), Len(a) = Len(i.args)
    PROVE  /\ [i EXCEPT !.args = a] \in Shaped
           /\ [i EXCEPT !.args = a].op = i.op /\ [i EXCEPT !.args = a].id = i.id
           /\ [i EXCEPT !.args = a].args = a
<1>1. i \in Instructions
  BY DEF Shaped
<1>2. [i EXCEPT !.args = a] \in Instructions
  BY <1>1 DEF Instructions
<1>3. [i EXCEPT !.args = a].op = i.op /\ [i EXCEPT !.args = a].id = i.id /\ [i EXCEPT !.args = a].args = a
  BY <1>1 DEF Instructions
<1> QED
  BY <1>2, <1>3 DEF Shaped

\* The operands of a code are values.
LEMMA ArgsOf ==
    ASSUME NEW i \in Shaped
    PROVE  /\ i.args \in Seq(Values) /\ Len(i.args) \in Nat /\ DOMAIN i.args = 1 .. Len(i.args)
           /\ \A n \in 1 .. Len(i.args) : i.args[n] \in Values
           /\ i.id \in Values
<1>1. i.args \in Seq(Values) /\ i.id \in Values
  BY DEF Shaped, Instructions
<1> QED
  BY <1>1, LenProperties, ElementOfSeq

\* A code whose operands are replaced is the same otherwise.
LEMMA ResolvedIs ==
    ASSUME NEW s \in RenameStates, NEW i \in Shaped
    PROVE  /\ ResolveArgs(s, i) \in Shaped
           /\ ResolveArgs(s, i).op = i.op /\ ResolveArgs(s, i).id = i.id
           /\ ResolveArgs(s, i).args = [n \in 1 .. Len(i.args) |-> Resolve(s.temporary, i.args[n])]
<1> DEFINE a == [n \in 1 .. Len(i.args) |-> Resolve(s.temporary, i.args[n])]
<1>1. i.args \in Seq(Values) /\ Len(i.args) \in Nat /\ DOMAIN i.args = 1 .. Len(i.args)
      /\ \A n \in 1 .. Len(i.args) : i.args[n] \in Values
  BY ArgsOf
<1>2. s.temporary \in Maps(Values)
  BY DEF RenameStates
<1>3. \A n \in 1 .. Len(i.args) : Resolve(s.temporary, i.args[n]) \in Values
  BY <1>1, <1>2, ResolveIsValue
<1>4. a \in Seq(Values) /\ Len(a) = Len(i.args)
  BY <1>1, <1>3
<1>5. ResolveArgs(s, i) = [i EXCEPT !.args = a]
  BY <1>1 DEF ResolveArgs
<1> HIDE DEF a
<1>6. /\ [i EXCEPT !.args = a] \in Shaped
      /\ [i EXCEPT !.args = a].op = i.op /\ [i EXCEPT !.args = a].id = i.id
      /\ [i EXCEPT !.args = a].args = a
  BY <1>4, OtherArgs
<1> QED
  BY <1>5, <1>6 DEF a

\* A code that is kept is the last of the output; the maps stay.
LEMMA KeepIs ==
    ASSUME NEW s \in RenameStates, NEW i \in Shaped
    PROVE  /\ Keep(s, i) \in RenameStates
           /\ Keep(s, i).out = Append(s.out, i) /\ Keep(s, i).names = s.names
           /\ Keep(s, i).temporary = s.temporary /\ Keep(s, i).count = s.count
<1>1. Append(s.out, i) \in Seq(Shaped)
  BY DEF RenameStates
<1>2. Keep(s, i) = [s EXCEPT !.out = Append(s.out, i)]
  BY DEF Keep
<1> QED
  BY <1>1, <1>2 DEF RenameStates

\* A value is pushed: what that does to the names and to the counts.
Pushed(nm, v, x) == IF v \in DOMAIN nm THEN Append(nm[v], x) ELSE <<x>>
\* push() on the stack of one variable leaves the others alone.
LEMMA PushIs ==
    ASSUME NEW nm \in Maps(Seq(Values)), NEW v \in Values, NEW x \in Values
    PROVE  /\ Push(nm, v, x) \in Maps(Seq(Values))
           /\ IsWith(Push(nm, v, x), nm, v, Pushed(nm, v, x))
<1>1. <<x>> \in Seq(Values) /\ (v \in DOMAIN nm => Append(nm[v], x) \in Seq(Values))
  BY MapEntry, AppendProperties
<1>2. Pushed(nm, v, x) \in Seq(Values)
  BY <1>1 DEF Pushed
<1>3. Push(nm, v, x) = With(nm, v, Pushed(nm, v, x))
  BY DEF Push, Pushed
<1> QED
  BY <1>2, <1>3, WithIs

OneMore(c, v) == IF v \in DOMAIN c THEN c[v] + 1 ELSE 1
\* Counting a push leaves the other counts alone.
LEMMA IncrementIs ==
    ASSUME NEW c \in Maps(Nat), NEW v \in Values
    PROVE  Increment(c, v) \in Maps(Nat) /\ IsWith(Increment(c, v), c, v, OneMore(c, v))
<1>1. v \in DOMAIN c => c[v] + 1 \in Nat
  BY MapEntry
<1>2. OneMore(c, v) \in Nat
  BY <1>1 DEF OneMore
<1>3. Increment(c, v) = With(c, v, OneMore(c, v))
  BY DEF Increment, OneMore
<1> QED
  BY <1>2, <1>3, WithIs

\* A step of the loop of RenamePass for a phi, ...
LEMMA RenamePhiIs ==
    ASSUME NEW s \in RenameStates, NEW i \in Shaped, original \in Maps(Values),
           NEW t, t = RenamePhi(s, i)
    PROVE  /\ t \in RenameStates
           /\ i.id \notin DOMAIN original =>
                /\ t.out = Append(s.out, ResolveArgs(s, i)) /\ t.names = s.names
                /\ t.temporary = s.temporary /\ t.count = s.count
           /\ i.id \in DOMAIN original =>
                /\ t.out = Append(s.out, i) /\ t.names = Push(s.names, original[i.id], i.id)
                /\ t.temporary = s.temporary /\ t.count = Increment(s.count, original[i.id])
<1>1. CASE i.id \notin DOMAIN original
  <2>1. PICK j : j = ResolveArgs(s, i)
    OBVIOUS
  <2>2. t = Keep(s, j)
    BY <1>1, <2>1 DEF RenamePhi
  <2>3. j \in Shaped
    BY <2>1, ResolvedIs
  <2> QED
    BY <1>1, <2>1, <2>2, <2>3, KeepIs
<1>2. CASE i.id \in DOMAIN original
  <2>1. PICK v, x, k : v = original[i.id] /\ x = i.id /\ k = Keep(s, i)
    OBVIOUS
  <2>2. v \in Values /\ x \in Values
    BY <1>2, <2>1, MapEntry, ArgsOf
  <2>3. k \in RenameStates /\ k.names \in Maps(Seq(Values)) /\ k.count \in Maps(Nat)
    BY <2>1, KeepIs DEF RenameStates
  <2>4. Push(k.names, v, x) \in Maps(Seq(Values)) /\ Increment(k.count, v) \in Maps(Nat)
    BY <2>2, <2>3, PushIs, IncrementIs
  <2>5. t = [k EXCEPT !.names = Push(k.names, v, x), !.count = Increment(k.count, v)]
    BY <1>2, <2>1 DEF RenamePhi
  <2>6. /\ t \in RenameStates
        /\ t.out = k.out /\ t.names = Push(k.names, v, x)
        /\ t.temporary = k.temporary /\ t.count = Increment(k.count, v)
    BY <2>3, <2>4, <2>5 DEF RenameStates
  <2>7. k.out = Append(s.out, i) /\ k.names = s.names /\ k.temporary = s.temporary /\ k.count = s.count
    BY <2>1, KeepIs
  <2> QED
    BY <1>2, <2>1, <2>6, <2>7
<1> QED
  BY <1>1, <1>2

\* ... for a load, ...
LEMMA RenameLoadIs ==
    ASSUME NEW s \in RenameStates, NEW i \in Shaped, i.op = "load",
           NEW t, t = RenameLoad(s, i), NEW v, v = i.args[1]
    PROVE  /\ t \in RenameStates
           /\ v \in DOMAIN s.names =>
                /\ t.out = s.out /\ t.names = s.names /\ t.count = s.count
                /\ t.temporary = With(s.temporary, i.id, Top(s.names, v))
           /\ v \notin DOMAIN s.names =>
                /\ t.out = Append(s.out, ResolveArgs(s, i)) /\ t.names = s.names
                /\ t.temporary = s.temporary /\ t.count = s.count
<1>1. CASE v \notin DOMAIN s.names
  <2>1. PICK j : j = ResolveArgs(s, i)
    OBVIOUS
  <2>2. t = Keep(s, j)
    BY <1>1, <2>1 DEF RenameLoad
  <2>3. j \in Shaped
    BY <2>1, ResolvedIs
  <2> QED
    BY <1>1, <2>1, <2>2, <2>3, KeepIs
<1>2. CASE v \in DOMAIN s.names
  <2>1. s.names \in Maps(Seq(Values)) /\ s.temporary \in Maps(Values) /\ i.id \in Values
    BY ArgsOf DEF RenameStates
  <2>2. With(s.temporary, i.id, Top(s.names, v)) \in Maps(Values)
    BY <1>2, <2>1, TopIsValue, WithIs
  <2>3. t = [s EXCEPT !.temporary = With(s.temporary, i.id, Top(s.names, v))]
    BY <1>2 DEF RenameLoad
  <2> QED
    BY <1>2, <2>2, <2>3 DEF RenameStates
<1> QED
  BY <1>1, <1>2

\* ... for a store, ...
LEMMA RenameStoreIs ==
    ASSUME NEW s \in RenameStates, NEW i \in Shaped, i.op = "store",
           NEW t, t = RenameStore(s, i), NEW v, v = i.args[2], NEW x, x = Resolve(s.temporary, i.args[1])
    PROVE  /\ t \in RenameStates
           /\ t.temporary = s.temporary
           /\ v \in DOMAIN s.names =>
                /\ t.out = s.out
                /\ t.names = Push(s.names, v, x) /\ t.count = Increment(s.count, v)
           /\ v \notin DOMAIN s.names =>
                /\ t.out = Append(s.out, [i EXCEPT !.args = <<x, v>>])
                /\ t.names = s.names /\ t.count = s.count
<1>2. Len(i.args) = 2 /\ i.args \in Seq(Values) /\ 1 \in 1 .. 2 /\ 2 \in 1 .. 2
  BY ArgsOf DEF Shaped
<1>3. s.names \in Maps(Seq(Values)) /\ s.temporary \in Maps(Values) /\ s.count \in Maps(Nat)
  BY DEF RenameStates
<1>4. v \in Values /\ x \in Values
  BY <1>2, <1>3, ResolveIsValue, ArgsOf
<1>5. CASE v \notin DOMAIN s.names
  <2>1. <<x, v>> \in Seq(Values) /\ Len(<<x, v>>) = Len(i.args)
    BY <1>2, <1>4
  <2>2. [i.args EXCEPT ![1] = x] = <<x, v>>
    <3>1. i.args \in [1 .. 2 -> Values]
      BY <1>2, LenProperties
    <3> QED
      BY <3>1
  <2>3. t = Keep(s, [i EXCEPT !.args = [i.args EXCEPT ![1] = x]])
    BY <1>5 DEF RenameStore
  <2>4. [i EXCEPT !.args = <<x, v>>] \in Shaped
    BY <2>1, OtherArgs
  <2>5. t = Keep(s, [i EXCEPT !.args = <<x, v>>])
    BY <2>2, <2>3
  <2>6. PICK j \in Shaped : j = [i EXCEPT !.args = <<x, v>>]
    BY <2>4
  <2>7. t = Keep(s, j)
    BY <2>5, <2>6
  <2>8. j \in Shaped /\ s \in RenameStates
    BY <2>6
  <2>9. /\ t \in RenameStates /\ t.out = Append(s.out, j) /\ t.names = s.names
        /\ t.temporary = s.temporary /\ t.count = s.count
    BY ONLY <2>7, <2>8, KeepIs
  <2> QED
    BY ONLY <1>5, <2>6, <2>9
<1>6. CASE v \in DOMAIN s.names
  <2>1. Push(s.names, v, x) \in Maps(Seq(Values)) /\ Increment(s.count, v) \in Maps(Nat)
    BY <1>3, <1>4, PushIs, IncrementIs
  <2>2. t = [s EXCEPT !.names = Push(s.names, v, x), !.count = Increment(s.count, v)]
    BY <1>6 DEF RenameStore
  <2> QED
    BY <1>6, <2>1, <2>2 DEF RenameStates
<1> QED
  BY <1>5, <1>6

\* ... and for any code.
LEMMA RenameInstrType ==
    ASSUME NEW s \in RenameStates, NEW i \in Shaped, original \in Maps(Values)
    PROVE  RenameInstr(s, i) \in RenameStates
<1>1. CASE i.op = "phi"
  BY <1>1, RenamePhiIs DEF RenameInstr
<1>2. CASE i.op = "load"
  BY <1>2, RenameLoadIs DEF RenameInstr
<1>3. CASE i.op = "store"
  BY <1>3, RenameStoreIs DEF RenameInstr
<1>4. CASE i.op = "alloca"
  BY <1>4, KeepIs DEF RenameInstr
<1>5. CASE i.op \notin {"phi", "load", "store", "alloca"}
  BY <1>5, ResolvedIs, KeepIs DEF RenameInstr
<1> QED
  BY <1>1, <1>2, <1>3, <1>4, <1>5

\* The whole loop over a group, and every state of it.
LEMMA RenamingType ==
    ASSUME NEW c \in Seq(Shaped), names \in Maps(Seq(Values)), temporary \in Maps(Values),
           original \in Maps(Values), NEW F, IsRenaming(c, Len(c), F)
    PROVE  \A n \in 0 .. Len(c) : F[n] \in RenameStates
<1> DEFINE T == {n \in 0 .. Len(c) : F[n] \in RenameStates}
<1>0. Len(c) \in Nat
  BY LenProperties
<1>1. 0 \in T
  <2>1. F[0] = StartOfRename
    BY <1>0 DEF IsRenaming
  <2>2. <<>> \in Seq(Shaped) /\ NoMap \in Maps(Nat)
    BY EmptySeq, NoMapIsMap
  <2>3. StartOfRename \in RenameStates
    BY <2>2 DEF StartOfRename, RenameStates
  <2> QED
    BY <1>0, <2>1, <2>3
<1>2. ASSUME NEW n \in 0 .. Len(c) - 1, n \in T PROVE n + 1 \in T
  <2>1. F[n + 1] = RenameInstr(F[n], c[n + 1])
    BY <1>0 DEF IsRenaming, RenameStep
  <2>2. c[n + 1] \in Shaped
    BY <1>0, ElementOfSeq
  <2> QED
    BY <1>0, <1>2, <2>1, <2>2, RenameInstrType
<1> HIDE DEF T
<1>3. \A n \in 0 .. Len(c) : n \in T
  BY <1>0, <1>1, <1>2, CountingUp
<1> QED
  BY <1>3 DEF T

\* The loop of RenamePass over a group gives codes and maps of values.
LEMMA RenameCodesType ==
    ASSUME NEW c \in Seq(Shaped), names \in Maps(Seq(Values)), temporary \in Maps(Values),
           original \in Maps(Values)
    PROVE  RenameCodes(c) \in RenameStates
<1>1. Len(c) \in Nat
  BY LenProperties
<1>2. PICK F : IsRenaming(c, Len(c), F) /\ RenameCodes(c) = F[Len(c)]
  BY <1>1, RenamingIs
<1> QED
  BY <1>1, <1>2, RenamingType

\* What the loop over the allocas of codes c finds.
LEMMA AllocasFound ==
    ASSUME NEW c \in Seq(Shaped)
    PROVE  /\ IsAllocas(AllocasOf(c))
           /\ \A n \in 1 .. Len(AllocasOf(c)) : \E m \in 1 .. Len(c) : AllocasOf(c)[n] = c[m]
           /\ \A m \in 1 .. Len(c) : c[m].op = "alloca" =>
                  \E n \in 1 .. Len(AllocasOf(c)) : AllocasOf(c)[n] = c[m]
<1> DEFINE Found(m, a) ==
               /\ IsAllocas(a)
               /\ \A n \in 1 .. Len(a) : \E k \in 1 .. m : a[n] = c[k]
               /\ \A k \in 1 .. m : c[k].op = "alloca" => \E n \in 1 .. Len(a) : a[n] = c[k]
<1>0. Len(c) \in Nat /\ \A n \in 1 .. Len(c) : c[n] \in Shaped
  BY LenProperties, ElementOfSeq
<1>1. PICK F : IsCollecting(c, Len(c), F) /\ AllocasOf(c) = F[Len(c)]
  BY <1>0, CollectingIs
<1> DEFINE T == {m \in 0 .. Len(c) : Found(m, F[m])}
<1>2. 0 \in T
  <2>1. F[0] = <<>>
    BY <1>0, <1>1 DEF IsCollecting
  <2>2. Found(0, <<>>)
    BY EmptySeq DEF IsAllocas
  <2> QED
    BY <1>0, <2>1, <2>2
<1>3. ASSUME NEW m \in 0 .. Len(c) - 1, m \in T PROVE m + 1 \in T
  <2>1. PICK a : a = F[m]
    OBVIOUS
  <2>2. Found(m, a) /\ a \in Seq(Shaped) /\ Len(a) \in Nat
    BY <1>3, <2>1, LenProperties DEF IsAllocas
  <2>3. F[m + 1] = IF c[m + 1].op = "alloca" THEN Append(a, c[m + 1]) ELSE a
    BY <1>0, <1>1, <2>1, CollectingStep DEF CollectingGoes, CollectStep
  <2>4. CASE c[m + 1].op # "alloca"
    <3>1. Found(m + 1, a)
      BY <1>0, <2>2, <2>4
    <3>2. m + 1 \in 0 .. Len(c)
      BY <1>0
    <3>3. F[m + 1] = a
      BY <2>3, <2>4
    <3> QED
      BY <3>1, <3>2, <3>3
  <2>5. CASE c[m + 1].op = "alloca"
    <3>1. PICK b : b = Append(a, c[m + 1])
      OBVIOUS
    <3>2. b \in Seq(Shaped) /\ Len(b) = Len(a) + 1 /\ b[Len(a) + 1] = c[m + 1]
          /\ \A n \in 1 .. Len(a) : b[n] = a[n]
      <4>1. c[m + 1] \in Shaped
        BY <1>0
      <4> QED
        BY <2>2, <3>1, <4>1, AppendProperties
    <3>3. IsAllocas(b)
      BY <2>2, <2>5, <3>2 DEF IsAllocas
    <3>4. \A n \in 1 .. Len(b) : \E k \in 1 .. m + 1 : b[n] = c[k]
      <4>1. ASSUME NEW n \in 1 .. Len(b) PROVE \E k \in 1 .. m + 1 : b[n] = c[k]
        <5>1. CASE n = Len(a) + 1
          <6>1. b[n] = c[m + 1] /\ m + 1 \in 1 .. m + 1
            BY <3>2, <5>1
          <6> QED
            BY <6>1
        <5>2. CASE n \in 1 .. Len(a)
          <6>1. PICK k \in 1 .. m : a[n] = c[k]
            BY <2>2, <5>2
          <6>2. b[n] = c[k] /\ k \in 1 .. m + 1
            BY <3>2, <5>2, <6>1
          <6> QED
            BY <6>2
        <5>3. n = Len(a) + 1 \/ n \in 1 .. Len(a)
          <6>1. PICK L : L = Len(a)
            OBVIOUS
          <6>2. L \in Nat /\ n \in 1 .. L + 1
            BY <2>2, <3>2, <6>1
          <6> QED
            BY ONLY <6>1, <6>2
        <5> QED
          BY ONLY <5>1, <5>2, <5>3
      <4> QED
        BY <4>1
    <3>5. \A k \in 1 .. m + 1 : c[k].op = "alloca" => \E n \in 1 .. Len(b) : b[n] = c[k]
      <4>1. ASSUME NEW k \in 1 .. m + 1, c[k].op = "alloca" PROVE \E n \in 1 .. Len(b) : b[n] = c[k]
        <5>1. CASE k = m + 1
          BY <2>2, <3>2, <5>1
        <5>2. CASE k \in 1 .. m
          <6>1. PICK n \in 1 .. Len(a) : a[n] = c[k]
            BY <2>2, <4>1, <5>2
          <6>2. n \in 1 .. Len(b) /\ b[n] = a[n]
            BY <2>2, <3>2
          <6> QED
            BY <6>1, <6>2
        <5> QED
          BY <5>1, <5>2
      <4> QED
        BY <4>1
    <3>6. F[m + 1] = b /\ m + 1 \in 0 .. Len(c)
      BY <1>0, <2>3, <2>5, <3>1
    <3>7. Found(m + 1, b)
      BY <3>3, <3>4, <3>5
    <3> HIDE DEF Found
    <3> QED
      BY <3>6, <3>7
  <2> QED
    BY <2>4, <2>5
<1>4. \A m \in 0 .. Len(c) : m \in T
  <2> HIDE DEF T
  <2> QED
    BY <1>0, <1>2, <1>3, CountingUp
<1>5. Found(Len(c), F[Len(c)])
  BY <1>0, <1>4
<1> QED
  BY <1>1, <1>5

\* What Without leaves of codes c, and where: w is c up to code number m without
\* what mentions v, and code number n of w is code number e[n] of c.
Leaves(v, c, m, w, e) ==
    /\ w \in Seq(Shaped) /\ e \in [1 .. Len(w) -> 1 .. m]
    /\ \A n \in 1 .. Len(w) : w[n] = c[e[n]] /\ ~Mentions(v, w[n])
    /\ \A k, n \in 1 .. Len(w) : k < n => e[k] < e[n]
    /\ \A k \in 1 .. m : Mentions(v, c[k]) \/ \E n \in 1 .. Len(w) : e[n] = k

\* Nothing is left of no codes.
LEMMA LeavesNothing ==
    ASSUME NEW v, NEW c
    PROVE  Leaves(v, c, 0, <<>>, [n \in {} |-> 0])
<1>1. <<>> \in Seq(Shaped) /\ Len(<<>>) = 0
  BY EmptySeq
<1> QED
  BY <1>1 DEF Leaves

\* A code that mentions the variable is left out.
LEMMA LeavesOut ==
    ASSUME NEW v, NEW c, NEW m \in Nat, NEW w, NEW e, Leaves(v, c, m, w, e), Mentions(v, c[m + 1])
    PROVE  Leaves(v, c, m + 1, w, e)
<1>1. Len(w) \in Nat
  BY LenProperties DEF Leaves
<1>2. e \in [1 .. Len(w) -> 1 .. m + 1]
  BY <1>1 DEF Leaves
<1>3. ASSUME NEW k \in 1 .. m + 1 PROVE Mentions(v, c[k]) \/ \E n \in 1 .. Len(w) : e[n] = k
  <2>1. CASE k = m + 1
    BY <2>1
  <2>2. CASE k \in 1 .. m
    BY <2>2 DEF Leaves
  <2> QED
    BY <2>1, <2>2
<1> QED
  BY <1>2, <1>3 DEF Leaves

\* Any other code is left in.
LEMMA LeavesIn ==
    ASSUME NEW v, NEW c, NEW m \in Nat, NEW w, NEW e, Leaves(v, c, m, w, e), ~Mentions(v, c[m + 1]),
           c[m + 1] \in Shaped
    PROVE  Leaves(v, c, m + 1, Append(w, c[m + 1]), [n \in 1 .. Len(w) + 1 |-> IF n = Len(w) + 1 THEN m + 1 ELSE e[n]])
<1>1. PICK x, L, d : x = Append(w, c[m + 1]) /\ L = Len(w)
                     /\ d = [n \in 1 .. Len(w) + 1 |-> IF n = Len(w) + 1 THEN m + 1 ELSE e[n]]
  OBVIOUS
<1>2. L \in Nat /\ w \in Seq(Shaped) /\ e \in [1 .. L -> 1 .. m]
  BY <1>1, LenProperties DEF Leaves
<1>3. x \in Seq(Shaped) /\ Len(x) = L + 1 /\ x[L + 1] = c[m + 1] /\ \A n \in 1 .. L : x[n] = w[n]
  BY <1>1, <1>2, AppendProperties
<1>4. d \in [1 .. Len(x) -> 1 .. m + 1] /\ d[L + 1] = m + 1 /\ \A n \in 1 .. L : d[n] = e[n] /\ d[n] \in 1 .. m
  <2>1. d = [n \in 1 .. L + 1 |-> IF n = L + 1 THEN m + 1 ELSE e[n]]
    BY <1>1
  <2>2. \A n \in 1 .. L : e[n] \in 1 .. m
    BY <1>2
  <2>3. d \in [1 .. L + 1 -> 1 .. m + 1]
    BY <1>2, <2>1, <2>2
  <2> QED
    BY <1>2, <1>3, <2>1, <2>2, <2>3
<1>5. ASSUME NEW n \in 1 .. Len(x) PROVE x[n] = c[d[n]] /\ ~Mentions(v, x[n])
  <2>1. CASE n = L + 1
    BY <1>3, <1>4, <2>1
  <2>2. CASE n \in 1 .. L
    BY <1>1, <1>3, <1>4, <2>2 DEF Leaves
  <2> QED
    BY <1>2, <1>3, <2>1, <2>2
<1>6. ASSUME NEW k \in 1 .. Len(x), NEW n \in 1 .. Len(x), k < n PROVE d[k] < d[n]
  <2>1. k \in 1 .. L
    BY <1>2, <1>3, <1>6
  <2>2. CASE n = L + 1
    BY <1>4, <2>1, <2>2
  <2>3. CASE n \in 1 .. L
    BY <1>1, <1>4, <1>6, <2>1, <2>3 DEF Leaves
  <2> QED
    BY <1>2, <1>3, <2>2, <2>3
<1>7. ASSUME NEW k \in 1 .. m + 1, ~Mentions(v, c[k]) PROVE \E n \in 1 .. Len(x) : d[n] = k
  <2>1. CASE k = m + 1
    BY <1>2, <1>3, <1>4, <2>1
  <2>2. CASE k \in 1 .. m
    <3>1. PICK n \in 1 .. L : e[n] = k
      BY <1>1, <1>7, <2>2 DEF Leaves
    <3>2. n \in 1 .. Len(x) /\ d[n] = k
      BY <1>2, <1>3, <1>4, <3>1
    <3> QED
      BY <3>2
  <2> QED
    BY <2>1, <2>2
<1>8. Leaves(v, c, m + 1, x, d)
  BY <1>3, <1>4, <1>5, <1>6, <1>7 DEF Leaves
<1> QED
  BY <1>1, <1>8

\* The loop leaves, after each code, what it should.
LEMMA LeavingLeaves ==
    ASSUME NEW v, NEW c \in Seq(Shaped), NEW F, IsLeavingOut(v, c, Len(c), F), NEW m \in 0 .. Len(c)
    PROVE  \E e : Leaves(v, c, m, F[m], e)
<1> DEFINE T == {k \in 0 .. Len(c) : \E e : Leaves(v, c, k, F[k], e)}
<1>0. Len(c) \in Nat /\ \A n \in 1 .. Len(c) : c[n] \in Shaped
  BY LenProperties, ElementOfSeq
<1>1. 0 \in T
  <2>1. F[0] = <<>>
    BY <1>0 DEF IsLeavingOut
  <2>2. Leaves(v, c, 0, <<>>, [n \in {} |-> 0])
    BY LeavesNothing
  <2>3. Leaves(v, c, 0, F[0], [n \in {} |-> 0])
    BY <2>1, <2>2
  <2> QED
    BY <1>0, <2>3
<1>2. ASSUME NEW k \in 0 .. Len(c) - 1, k \in T PROVE k + 1 \in T
  <2>1. PICK e : Leaves(v, c, k, F[k], e)
    BY <1>2
  <2>2. F[k + 1] = IF Mentions(v, c[k + 1]) THEN F[k] ELSE Append(F[k], c[k + 1])
    BY <1>0, LeavingOutStep DEF LeavingOutGoes, LeaveOutStep
  <2>3. k \in Nat /\ c[k + 1] \in Shaped
    BY <1>0
  <2>4. \E d : Leaves(v, c, k + 1, F[k + 1], d)
    <3>1. CASE Mentions(v, c[k + 1])
      <4>1. Leaves(v, c, k + 1, F[k], e)
        BY <2>1, <2>3, <3>1, LeavesOut
      <4> QED
        BY <2>2, <3>1, <4>1
    <3>2. CASE ~Mentions(v, c[k + 1])
      <4>1. \E d : Leaves(v, c, k + 1, Append(F[k], c[k + 1]), d)
        BY <2>1, <2>3, <3>2, LeavesIn
      <4> QED
        BY <2>2, <3>2, <4>1
    <3> QED
      BY <3>1, <3>2
  <2> QED
    BY <1>0, <2>4
<1>3. \A k \in 0 .. Len(c) : k \in T
  <2> HIDE DEF T
  <2> QED
    BY <1>0, <1>1, <1>2, CountingUp
<1> QED
  BY <1>3

\* Without leaves the codes that do not mention the variable, in their order.
LEMMA WithoutIs ==
    ASSUME NEW v, NEW c \in Seq(Shaped)
    PROVE  \E e : Leaves(v, c, Len(c), Without(v, c), e)
<1>0. Len(c) \in Nat
  BY LenProperties
<1>1. PICK F : IsLeavingOut(v, c, Len(c), F) /\ Without(v, c) = F[Len(c)]
  BY <1>0, LeavingOutIs
<1>2. Len(c) \in 0 .. Len(c)
  BY <1>0
<1> QED
  BY <1>1, <1>2, LeavingLeaves

\* The codes of a function have the operands they should have.
LEMMA SourceIsShaped ==
    ASSUME NEW f \in FlowGraphs, NEW codes \in SourcesOf(f)
    PROVE  codes \in [Groups -> Seq(Shaped)]
<1>1. codes \in [Groups -> Seq(Instructions)]
  BY SourcesAssumption DEF IsFunction
<1>2. ASSUME NEW g \in Groups PROVE codes[g] \in Seq(Shaped)
  <2>1. codes[g] \in Seq(Instructions) /\ Len(codes[g]) \in Nat /\ DOMAIN codes[g] = 1 .. Len(codes[g])
    BY <1>1, LenProperties
  <2>2. ASSUME NEW n \in 1 .. Len(codes[g]) PROVE codes[g][n] \in Shaped
    <3>1. IsGenerated(codes[g][n])
      BY <2>1, SourcesAssumption DEF IsFunction
    <3>2. codes[g][n] \in Instructions
      BY <2>1, ElementOfSeq
    <3> QED
      BY <3>1, <3>2 DEF IsGenerated, Shaped
  <2> QED
    BY <2>1, <2>2, SeqDef
<1> QED
  BY <1>1, <1>2

\* Codes in the state: what a group holds.
LEMMA CodeOf ==
    ASSUME NEW codes \in [Groups -> Seq(Shaped)], NEW g \in Groups
    PROVE  /\ codes[g] \in Seq(Shaped) /\ Len(codes[g]) \in Nat
           /\ DOMAIN codes[g] = 1 .. Len(codes[g])
           /\ \A n \in 1 .. Len(codes[g]) : codes[g][n] \in Shaped
<1>1. codes[g] \in Seq(Shaped)
  OBVIOUS
<1> QED
  BY <1>1, LenProperties, ElementOfSeq

\* The types hold at first.
LEMMA InitTypeInv == Init => TypeInv
<1> SUFFICES ASSUME Init PROVE TypeInv
  OBVIOUS
<1>1. follows \in FlowGraphs /\ source \in SourcesOf(follows) /\ precedes = PrecedesOf(follows)
  BY DEF Init
<1>2. source \in [Groups -> Seq(Shaped)]
  BY <1>1, SourceIsShaped
<1>3. children \in [Groups -> SUBSET Groups]
  <2>1. PICK dom : children = [g \in Groups |-> {c \in Groups \ {Entry} : ImmediateDominator(dom, c) = g}]
    BY DEF Init
  <2>2. \A g \in Groups : {c \in Groups \ {Entry} : ImmediateDominator(dom, c) = g} \in SUBSET Groups
    OBVIOUS
  <2> QED
    BY <2>1, <2>2
<1>4. IsAllocas(AllocasOf(source[Entry]))
  BY <1>2, EntryAssumption, CodeOf, AllocasFound
<1>5. NoMap \in Maps(Seq(Values)) /\ NoMap \in Maps(Values) /\ DOMAIN NoMap = {} /\ <<>> \in Seq(Frames)
  BY NoMapIsMap, EmptySeq
<1> QED
  BY <1>1, <1>2, <1>3, <1>4, <1>5 DEF Init, TypeInv

\* The alloca the loop is at.
LEMMA CurrentIs ==
    ASSUME IsAllocas(scan), scan # <<>>
    PROVE  /\ Head(scan) \in Shaped /\ Head(scan) = scan[1] /\ Len(scan) \in Nat /\ Len(scan) >= 1
           /\ CurrentAlloca \in Values /\ \E v \in Names : CurrentAlloca = Address(v)
           /\ IsAllocas(Tail(scan)) /\ Len(Tail(scan)) = Len(scan) - 1
           /\ \A n \in 1 .. Len(scan) - 1 : Tail(scan)[n] = scan[n + 1]
<1>1. scan \in Seq(Shaped) /\ \A n \in 1 .. Len(scan) : scan[n].op = "alloca"
  BY DEF IsAllocas
<1>2. PICK L : L = Len(scan)
  OBVIOUS
<1>3. /\ L \in Nat /\ L >= 1 /\ Head(scan) = scan[1] /\ Tail(scan) \in Seq(Shaped) /\ Len(Tail(scan)) = L - 1
      /\ \A n \in 1 .. L - 1 : Tail(scan)[n] = scan[n + 1]
  BY <1>1, <1>2, HeadTailProperties, EmptySeq, LenProperties
<1>4. Head(scan) \in Shaped /\ Head(scan).op = "alloca"
  BY <1>1, <1>2, <1>3, ElementOfSeq
<1>5. ASSUME NEW n \in 1 .. Len(Tail(scan)) PROVE Tail(scan)[n].op = "alloca"
  <2>1. n \in 1 .. L - 1 /\ n + 1 \in 1 .. L
    BY <1>3
  <2> QED
    BY <1>1, <1>2, <1>3, <2>1
<1>6. CurrentAlloca \in Values /\ \E v \in Names : CurrentAlloca = Address(v)
  BY <1>4, ArgsOf DEF CurrentAlloca, Shaped
<1> QED
  BY <1>2, <1>3, <1>4, <1>5, <1>6 DEF IsAllocas

\* TryRemoveAllocIfStoreOnly leaves codes.
LEMMA RemoveType ==
    ASSUME TypeInv, RemoveAlloca
    PROVE  code' \in [Groups -> Seq(Shaped)]
<1>1. code' = [g \in Groups |-> Without(CurrentAlloca, code[g])]
  BY DEF RemoveAlloca
<1>2. ASSUME NEW g \in Groups PROVE Without(CurrentAlloca, code[g]) \in Seq(Shaped)
  <2>1. code[g] \in Seq(Shaped)
    BY CodeOf DEF TypeInv
  <2>2. PICK e : Leaves(CurrentAlloca, code[g], Len(code[g]), Without(CurrentAlloca, code[g]), e)
    BY <2>1, WithoutIs
  <2> QED
    BY <2>2 DEF Leaves
<1> QED
  BY <1>1, <1>2

\* A phi of all of whose sources are the address of its variable.
NewPhi(g, v) == Instr("phi", PhiOf(g, v[2]), [k \in DOMAIN precedes[g] |-> v])

\* The phi inserted in front of a group is a code, with a source for each predecessor.
LEMMA NewPhiIs ==
    ASSUME TypeInv, NEW g \in Groups, NEW v \in Values, NEW x \in Names, v = Address(x)
    PROVE  /\ NewPhi(g, v) \in Shaped /\ NewPhi(g, v).op = "phi" /\ NewPhi(g, v).id = PhiOf(g, x)
           /\ NewPhi(g, v).args = [k \in 1 .. Len(precedes[g]) |-> v]
           /\ PhiOf(g, x) \in Values /\ PhiOf(g, x)[1] = "phi" /\ v[2] = x /\ Undef(x) \in Values
           /\ Len(precedes[g]) \in Nat /\ DOMAIN precedes[g] = 1 .. Len(precedes[g])
<1>1. precedes[g] \in Seq(Groups)
  BY PrecedesAssumption DEF TypeInv
<1>2. Len(precedes[g]) \in Nat /\ DOMAIN precedes[g] = 1 .. Len(precedes[g])
  BY <1>1, LenProperties
<1>3. v[2] = x
  BY DEF Address
<1>4. PhiOf(g, x) \in Values /\ PhiOf(g, x)[1] = "phi" /\ Undef(x) \in Values
  BY ValuesAssumption DEF PhiOf
<1>5. PICK a : a = [k \in 1 .. Len(precedes[g]) |-> v]
  OBVIOUS
<1>6. a \in Seq(Values)
  BY <1>2, <1>5
<1>7. NewPhi(g, v) = [op |-> "phi", id |-> PhiOf(g, x), args |-> a]
  BY <1>2, <1>3, <1>5 DEF NewPhi, Instr
<1>8. NewPhi(g, v) \in Instructions
  BY <1>4, <1>6, <1>7 DEF Instructions
<1> QED
  BY <1>2, <1>3, <1>4, <1>5, <1>7, <1>8 DEF Shaped

Joins(v) == IteratedFrontier(frontier, StoresTo(v))

\* What a step of InsertPhis does, in terms of these.
PhisInserted(v) ==
    /\ code' = [g \in Groups |-> IF g \in Joins(v) THEN <<NewPhi(g, v)>> \o code[g] ELSE code[g]]
    /\ original' = [x \in DOMAIN original \cup {PhiOf(g, v[2]) : g \in Joins(v)} |->
                        IF x \in DOMAIN original THEN original[x] ELSE v]
    /\ names' = With(names, v, <<Undef(v[2])>>)

\* InsertPhis in terms of the groups it inserts phis in.
LEMMA InsertIs == InsertPhis => PhisInserted(CurrentAlloca)
  BY DEF InsertPhis, Joins, NewPhi, PhisInserted

\* VariableMemoryToRegister leaves codes and maps.
LEMMA InsertType ==
    ASSUME TypeInv, InsertPhis
    PROVE  /\ code' \in [Groups -> Seq(Shaped)]
           /\ names' \in Maps(Seq(Values))
           /\ original' \in Maps(Values) /\ \A x \in DOMAIN original' : x[1] = "phi"
<1>1. PICK v : v = CurrentAlloca
  OBVIOUS
<1>2. IsAllocas(scan) /\ scan # <<>>
  BY DEF TypeInv, InsertPhis
<1>3. PICK x \in Names : v \in Values /\ v = Address(x)
  BY <1>1, <1>2, CurrentIs
<1>4. v[2] = x /\ Undef(x) \in Values
  BY <1>3, ValuesAssumption DEF Address
<1>5. code' \in [Groups -> Seq(Shaped)]
  <2>1. code' = [g \in Groups |-> IF g \in Joins(v) THEN <<NewPhi(g, v)>> \o code[g] ELSE code[g]]
    BY <1>1, InsertIs DEF PhisInserted
  <2>2. ASSUME NEW g \in Groups PROVE <<NewPhi(g, v)>> \o code[g] \in Seq(Shaped) /\ code[g] \in Seq(Shaped)
    <3>1. NewPhi(g, v) \in Shaped
      BY <1>3, NewPhiIs
    <3>2. <<NewPhi(g, v)>> \in Seq(Shaped) /\ code[g] \in Seq(Shaped)
      BY <3>1, CodeOf DEF TypeInv
    <3> QED
      BY <3>2, ConcatProperties
  <2> QED
    BY <2>1, <2>2
<1>6. names' \in Maps(Seq(Values))
  <2>1. PICK u : u = <<Undef(x)>>
    OBVIOUS
  <2>2. u \in Seq(Values) /\ names \in Maps(Seq(Values))
    BY <1>4, <2>1 DEF TypeInv
  <2>3. names' = With(names, v, u)
    BY <1>1, <1>4, <2>1, InsertIs DEF PhisInserted
  <2> QED
    BY <1>3, <2>2, <2>3, WithIs
<1>7. original' \in Maps(Values) /\ \A y \in DOMAIN original' : y[1] = "phi"
  <2>1. PICK D : D = DOMAIN original \cup {PhiOf(g, x) : g \in Joins(v)}
    OBVIOUS
  <2>2. original' = [y \in D |-> IF y \in DOMAIN original THEN original[y] ELSE v]
    <3>1. original' = [y \in DOMAIN original \cup {PhiOf(g, v[2]) : g \in Joins(v)} |->
                          IF y \in DOMAIN original THEN original[y] ELSE v]
      BY <1>1, InsertIs DEF PhisInserted
    <3>2. {PhiOf(g, v[2]) : g \in Joins(v)} = {PhiOf(g, x) : g \in Joins(v)}
      BY <1>4
    <3> QED
      BY <2>1, <3>1, <3>2
  <2>3. DOMAIN original \subseteq Values /\ \A y \in DOMAIN original : original[y] \in Values /\ y[1] = "phi"
    BY MapEntry DEF TypeInv
  <2>4. \A g \in Groups : PhiOf(g, x) \in Values /\ PhiOf(g, x)[1] = "phi"
    BY <1>3, ValuesAssumption DEF PhiOf
  <2>5. Joins(v) \subseteq Groups
    BY DEF Joins, IteratedFrontier
  <2>6. D \in SUBSET Values /\ \A y \in D : y[1] = "phi"
    BY <2>1, <2>3, <2>4, <2>5
  <2>7. original' \in [D -> Values]
    BY <1>3, <2>2, <2>3
  <2> QED
    BY <2>6, <2>7 DEF Maps
<1> QED
  BY <1>5, <1>6, <1>7

\* What a call of RenamePass does once the loop over the group is done, in terms of
\* the state s the loop ends in.
Filled(g, codes, nm) ==
    [f \in Groups |->
        IF f \in Successors(follows, g)
        THEN [n \in DOMAIN codes[f] |-> FillPhi(g, f, nm, codes[f][n])] ELSE codes[f]]
Called(g) == IF stack = <<>> THEN <<>> ELSE [stack EXCEPT ![Len(stack)].todo = @ \ {g}]
NewFrame(g, s) == [group |-> g, todo |-> children[g], count |-> s.count]

GroupRenamed(g, s) ==
    /\ code' = Filled(g, [code EXCEPT ![g] = s.out], s.names)
    /\ original' = [x \in DOMAIN original \cup SuccessorPhis(g, [code EXCEPT ![g] = s.out]) |-> VariableOf(x)]
    /\ names' = s.names
    /\ temporary' = s.temporary
    /\ stack' = Append(Called(g), NewFrame(g, s))

\* RenameGroup in terms of the state its loop ends in.
LEMMA RenameGroupIs ==
    ASSUME NEW g, RenameGroup(g)
    PROVE  GroupRenamed(g, RenameCodes(code[g]))
  BY DEF RenameGroup, GroupRenamed, Filled, Called, NewFrame

\* A phi that is filled has other operands, as many as before.
LEMMA FillPhiIs ==
    ASSUME NEW g, NEW f, NEW nm \in Maps(Seq(Values)), NEW i \in Shaped, NEW j, j = FillPhi(g, f, nm, i)
    PROVE  /\ j \in Shaped /\ j.op = i.op /\ j.id = i.id /\ Len(j.args) = Len(i.args)
           /\ i.op # "phi" => j = i
           /\ i.op = "phi" /\ VariableOf(i.id) \notin DOMAIN nm => j = i
           /\ \A k \in 1 .. Len(i.args) : i.op = "phi" /\ VariableOf(i.id) \in DOMAIN nm =>
                  j.args[k] = IF precedes[f][k] = g THEN Top(nm, VariableOf(i.id)) ELSE i.args[k]
<1>1. CASE ~(i.op = "phi" /\ VariableOf(i.id) \in DOMAIN nm)
  BY <1>1 DEF FillPhi
<1>2. CASE i.op = "phi" /\ VariableOf(i.id) \in DOMAIN nm
  <2>1. PICK t : t = Top(nm, VariableOf(i.id))
    OBVIOUS
  <2>2. t \in Values
    BY <1>2, <2>1, TopIsValue
  <2>3. i.args \in Seq(Values) /\ Len(i.args) \in Nat /\ DOMAIN i.args = 1 .. Len(i.args)
        /\ \A k \in 1 .. Len(i.args) : i.args[k] \in Values
    BY ArgsOf
  <2>4. PICK a : a = [k \in 1 .. Len(i.args) |-> IF precedes[f][k] = g THEN t ELSE i.args[k]]
    OBVIOUS
  <2>5. a \in Seq(Values) /\ Len(a) = Len(i.args)
    BY <2>2, <2>3, <2>4
  <2>6. j = [i EXCEPT !.args = a]
    BY <1>2, <2>1, <2>3, <2>4 DEF FillPhi
  <2>7. j \in Shaped /\ j.op = i.op /\ j.id = i.id /\ j.args = a
    BY <2>5, <2>6, OtherArgs
  <2> QED
    BY <1>2, <2>1, <2>4, <2>5, <2>7
<1> QED
  BY <1>1, <1>2

\* The phis of the successors are still phis once filled.
LEMMA FilledType ==
    ASSUME NEW g, NEW codes \in [Groups -> Seq(Shaped)], NEW nm \in Maps(Seq(Values))
    PROVE  Filled(g, codes, nm) \in [Groups -> Seq(Shaped)]
<1>1. ASSUME NEW f \in Groups PROVE [n \in DOMAIN codes[f] |-> FillPhi(g, f, nm, codes[f][n])] \in Seq(Shaped)
  <2>1. Len(codes[f]) \in Nat /\ DOMAIN codes[f] = 1 .. Len(codes[f])
    BY CodeOf
  <2>2. ASSUME NEW n \in 1 .. Len(codes[f]) PROVE FillPhi(g, f, nm, codes[f][n]) \in Shaped
    <3>1. codes[f][n] \in Shaped
      BY CodeOf
    <3> QED
      BY <3>1, FillPhiIs
  <2>3. PICK L : L = Len(codes[f])
    OBVIOUS
  <2>4. [n \in 1 .. L |-> FillPhi(g, f, nm, codes[f][n])] \in [1 .. L -> Shaped]
    BY <2>2, <2>3
  <2> QED
    BY <2>1, <2>3, <2>4, SeqDef
<1> QED
  BY <1>1 DEF Filled

\* The calls that go on are still calls of RenamePass.
LEMMA CalledType ==
    ASSUME stack \in Seq(Frames), NEW g
    PROVE  Called(g) \in Seq(Frames)
<1>1. CASE stack = <<>>
  BY <1>1, EmptySeq DEF Called
<1>2. CASE stack # <<>>
  <2>1. PICK L : L = Len(stack)
    OBVIOUS
  <2>2. L \in Nat /\ L \in 1 .. L /\ stack[L] \in Frames
    BY <1>2, <2>1, EmptySeq, LenProperties, ElementOfSeq
  <2>3. [stack[L] EXCEPT !.todo = @ \ {g}] \in Frames
    BY <2>2 DEF Frames
  <2>4. Called(g) = [stack EXCEPT ![L] = [stack[L] EXCEPT !.todo = @ \ {g}]]
    BY <1>2, <2>1 DEF Called
  <2> QED
    BY <2>1, <2>2, <2>3, <2>4, ExceptSeq
<1> QED
  BY <1>1, <1>2

\* A call of RenamePass leaves codes, calls and maps.
LEMMA RenameGroupType ==
    ASSUME TypeInv, NEW g \in Groups, RenameGroup(g)
    PROVE  /\ code' \in [Groups -> Seq(Shaped)]
           /\ stack' \in Seq(Frames) /\ stack' # <<>>
           /\ names' \in Maps(Seq(Values)) /\ temporary' \in Maps(Values)
           /\ original' \in Maps(Values) /\ \A x \in DOMAIN original' : x[1] = "phi"
<1>1. PICK s : s = RenameCodes(code[g])
  OBVIOUS
<1>2. GroupRenamed(g, s)
  BY <1>1, RenameGroupIs
<1>3. s \in RenameStates
  <2>1. code[g] \in Seq(Shaped)
    BY CodeOf DEF TypeInv
  <2> QED
    BY <1>1, <2>1, RenameCodesType DEF TypeInv
<1>4. PICK renamed : renamed = [code EXCEPT ![g] = s.out]
  OBVIOUS
<1>5. renamed \in [Groups -> Seq(Shaped)]
  BY <1>3, <1>4 DEF TypeInv, RenameStates
<1>6. s.names \in Maps(Seq(Values)) /\ s.temporary \in Maps(Values) /\ s.count \in Maps(Nat)
  BY <1>3 DEF RenameStates
<1>7. code' \in [Groups -> Seq(Shaped)]
  <2>1. code' = Filled(g, renamed, s.names)
    BY <1>2, <1>4 DEF GroupRenamed
  <2> QED
    BY <1>5, <1>6, <2>1, FilledType
<1>8. stack' \in Seq(Frames) /\ stack' # <<>>
  <2>1. Called(g) \in Seq(Frames)
    BY CalledType DEF TypeInv
  <2>2. NewFrame(g, s) \in Frames
    BY <1>6 DEF NewFrame, Frames, TypeInv
  <2>3. stack' = Append(Called(g), NewFrame(g, s))
    BY <1>2 DEF GroupRenamed
  <2> QED
    BY <2>1, <2>2, <2>3, AppendProperties
<1>9. original' \in Maps(Values) /\ \A x \in DOMAIN original' : x[1] = "phi"
  <2>1. PICK D : D = DOMAIN original \cup SuccessorPhis(g, renamed)
    OBVIOUS
  <2>2. original' = [x \in D |-> VariableOf(x)]
    BY <1>2, <1>4, <2>1 DEF GroupRenamed
  <2>3. \A x \in DOMAIN original : x \in Values /\ x[1] = "phi" /\ original[x] \in Values
    BY MapEntry DEF TypeInv
  <2>4. ASSUME NEW x \in SuccessorPhis(g, renamed) PROVE x \in Values /\ x[1] = "phi"
    <3>0. PICK f \in Successors(follows, g) : \E n \in DOMAIN renamed[f] :
              x = renamed[f][n].id /\ \A m \in 1 .. n : renamed[f][m].op = "phi"
      BY DEF SuccessorPhis
    <3>1. PICK n \in DOMAIN renamed[f] : x = renamed[f][n].id /\ \A m \in 1 .. n : renamed[f][m].op = "phi"
      BY <3>0
    <3>2. f \in Groups
      BY GraphEdges, FlowGraphsAssumption DEF TypeInv, IsGraph
    <3>3. n \in 1 .. Len(renamed[f]) /\ renamed[f][n] \in Shaped
      BY <1>5, <3>2, CodeOf
    <3>4. renamed[f][n].op = "phi"
      <4>1. n \in 1 .. n
        BY <3>3
      <4> QED
        BY <3>1, <4>1
    <3> QED
      BY <3>1, <3>3, <3>4, ArgsOf DEF Shaped
  <2>5. D \in SUBSET Values /\ \A x \in D : x[1] = "phi"
    BY <2>1, <2>3, <2>4
  <2>6. \A x \in D : VariableOf(x) \in Values
    BY <2>3, ValuesAssumption DEF VariableOf
  <2>7. original' \in [D -> Values]
    BY <2>2, <2>6
  <2> QED
    BY <2>5, <2>7 DEF Maps
<1> QED
  BY <1>6, <1>7, <1>8, <1>9, <1>2 DEF GroupRenamed

\* The names that a call pushed, popped.
Popped(v) ==
    IF v \in DOMAIN Last(stack).count
    THEN SubSeq(names[v], 1, Len(names[v]) - Last(stack).count[v]) ELSE names[v]

\* The calls left after the innermost one returns.
LEMMA FrontType ==
    ASSUME stack \in Seq(Frames), stack # <<>>
    PROVE  /\ Len(stack) \in Nat /\ Len(stack) >= 1
           /\ Last(stack) = stack[Len(stack)] /\ Last(stack) \in Frames
           /\ Front(stack) \in Seq(Frames) /\ Len(Front(stack)) = Len(stack) - 1
           /\ \A n \in 1 .. Len(stack) - 1 : Front(stack)[n] = stack[n]
<1>1. PICK L : L = Len(stack)
  OBVIOUS
<1>2. L \in Nat /\ L >= 1 /\ \A n \in 1 .. L : stack[n] \in Frames
  BY <1>1, EmptySeq, LenProperties, ElementOfSeq
<1>3. Front(stack) = SubSeq(stack, 1, L - 1)
  BY <1>1 DEF Front
<1>4. SubSeq(stack, 1, L - 1) \in Seq(Frames) /\ Len(SubSeq(stack, 1, L - 1)) = L - 1
      /\ \A n \in 1 .. L - 1 : SubSeq(stack, 1, L - 1)[n] = stack[n]
  BY <1>2, SubSeqProperties
<1>5. L \in 1 .. L
  BY <1>2
<1> QED
  BY <1>1, <1>2, <1>3, <1>4, <1>5 DEF Last

\* What is left of the names of a variable when a call returns.
LEMMA PoppedType ==
    ASSUME TypeInv, stack # <<>>, NEW v \in DOMAIN names
    PROVE  Popped(v) \in Seq(Values)
<1>1. names[v] \in Seq(Values)
  BY MapEntry DEF TypeInv
<1>2. PICK L : L = Len(names[v])
  OBVIOUS
<1>3. L \in Nat /\ \A n \in 1 .. L : names[v][n] \in Values
  BY <1>1, <1>2, LenProperties, ElementOfSeq
<1>4. CASE v \in DOMAIN Last(stack).count
  <2>1. Last(stack).count \in Maps(Nat)
    BY FrontType DEF TypeInv, Frames
  <2>2. PICK c : c = Last(stack).count[v]
    OBVIOUS
  <2>3. c \in Nat
    BY <1>4, <2>1, <2>2, MapEntry
  <2>4. \A n \in 1 .. L - c : names[v][n] \in Values
    BY <1>3, <2>3
  <2>5. L - c \in Int /\ 1 \in Int
    BY <1>3, <2>3
  <2>6. SubSeq(names[v], 1, L - c) \in Seq(Values)
    BY <2>4, <2>5, SubSeqProperties
  <2> QED
    BY <1>2, <1>4, <2>2, <2>6 DEF Popped
<1> QED
  BY <1>1, <1>4 DEF Popped

\* A round starts with the allocas of the entry and empty maps.
LEMMA StartRoundType ==
    ASSUME TypeInv, StartRound(code[Entry])
    PROVE  /\ phase' = "scan" /\ IsAllocas(scan') /\ names' \in Maps(Seq(Values)) /\ temporary' \in Maps(Values)
           /\ original' \in Maps(Values) /\ \A x \in DOMAIN original' : x[1] = "phi"
<1>1. code[Entry] \in Seq(Shaped)
  BY EntryAssumption, CodeOf DEF TypeInv
<1> QED
  BY <1>1, AllocasFound, NoMapIsMap DEF StartRound

\* The end of a call keeps the types.
LEMMA ReturnType ==
    ASSUME TypeInv, ReturnFromChild
    PROVE  TypeInv'
<1>1. stack # <<>> /\ phase = "rename" /\ stack' = Front(stack) /\ UNCHANGED <<graph, code>>
  BY DEF ReturnFromChild, TypeInv
<1>2. stack' \in Seq(Frames) /\ Len(stack) \in Nat /\ Len(stack) >= 1 /\ Len(stack') = Len(stack) - 1
  BY <1>1, FrontType DEF TypeInv
<1>3. CASE Len(stack) = 1
  <2>1. StartRound(code[Entry])
    BY <1>3 DEF ReturnFromChild
  <2> QED
    BY <1>1, <1>2, <2>1, StartRoundType DEF TypeInv, graph
<1>4. CASE Len(stack) # 1
  <2>1. names' = [v \in DOMAIN names |-> Popped(v)] /\ UNCHANGED <<phase, scan, temporary, original>>
    BY <1>4 DEF ReturnFromChild, Popped
  <2>2. \A v \in DOMAIN names : Popped(v) \in Seq(Values)
    BY <1>1, PoppedType
  <2>3. names' \in Maps(Seq(Values))
    <3>1. DOMAIN names \in SUBSET Values
      BY MapEntry DEF TypeInv
    <3>2. names' \in [DOMAIN names -> Seq(Values)]
      BY <2>1, <2>2
    <3> QED
      BY <3>1, <3>2 DEF Maps
  <2>4. stack' # <<>>
    BY <1>2, <1>4, EmptySeq
  <2> QED
    BY <1>1, <1>2, <2>1, <2>3, <2>4 DEF TypeInv, graph
<1> QED
  BY <1>3, <1>4

\* Every step keeps the types.
LEMMA NextTypeInv == TypeInv /\ [PassNext \/ Finished]_vars => TypeInv'
<1> SUFFICES ASSUME TypeInv, [PassNext \/ Finished]_vars PROVE TypeInv'
  OBVIOUS
<1>1. CASE SkipAlloca
  <2>1. IsAllocas(scan')
    BY <1>1, CurrentIs DEF SkipAlloca, TypeInv
  <2> QED
    BY <1>1, <2>1 DEF SkipAlloca, TypeInv, graph, maps
<1>2. CASE RemoveAlloca
  <2>1. IsAllocas(scan')
    BY <1>2, CurrentIs DEF RemoveAlloca, TypeInv
  <2> QED
    BY <1>2, <2>1, RemoveType DEF RemoveAlloca, TypeInv, graph, maps
<1>3. CASE InsertPhis
  <2>1. IsAllocas(scan')
    BY <1>3, CurrentIs DEF InsertPhis, TypeInv
  <2>2. phase' = phase /\ phase # "rename" /\ UNCHANGED <<graph, stack, temporary>>
    BY <1>3 DEF InsertPhis
  <2> QED
    BY <1>3, <2>1, <2>2, InsertType DEF TypeInv, graph
<1>4. CASE StartRename
  <2>1. CASE names = NoMap
    BY <1>4, <2>1 DEF StartRename, TypeInv, graph, maps
  <2>2. CASE names # NoMap
    <3>1. RenameGroup(Entry) /\ phase' = "rename" /\ UNCHANGED <<graph, scan>>
      BY <1>4, <2>2 DEF StartRename
    <3> QED
      BY <3>1, EntryAssumption, RenameGroupType DEF TypeInv, graph
  <2> QED
    BY <2>1, <2>2
<1>5. ASSUME NEW c \in Groups, RenameChild(c) PROVE TypeInv'
  <2>1. RenameGroup(c) /\ UNCHANGED <<graph, phase, scan>>
    BY <1>5 DEF RenameChild
  <2> QED
    BY <2>1, RenameGroupType DEF TypeInv, graph
<1>6. CASE ReturnFromChild
  BY <1>6, ReturnType
<1>7. CASE UNCHANGED vars
  BY <1>7 DEF TypeInv, vars, graph, maps
<1> QED
  BY <1>1, <1>2, <1>3, <1>4, <1>5, <1>6, <1>7 DEF PassNext, Finished

\* The pass only makes what TypeOK says: the recursion is in groups of the function
\* and original_variable_map only knows phis.
THEOREM TypeCorrect == Spec => []TypeOK
<1>1. TypeInv => TypeOK
  <2> SUFFICES ASSUME TypeInv PROVE TypeOK
    OBVIOUS
  <2>1. ASSUME NEW n \in DOMAIN stack PROVE stack[n].group \in Groups /\ stack[n].todo \subseteq Groups
    <3>1. stack[n] \in Frames
      BY LenProperties, ElementOfSeq DEF TypeInv
    <3> QED
      BY <3>1 DEF Frames
  <2> QED
    BY <2>1 DEF TypeInv, TypeOK
<1> QED
  BY <1>1, InitTypeInv, NextTypeInv, PTL DEF Spec

-----------------------------------------------------------------------------
(***************************************************************************)
(* Runs of codes.                                                          *)
(***************************************************************************)
IsRun(r) == r = [results |-> r.results, memory |-> r.memory, uses |-> r.uses, wild |-> r.wild]

\* Codes that only load from and store to variables, K among them those loaded.
Direct(K, i) ==
    /\ i.op \in {"alloca", "load", "store", "use", "jump", "phi"}
    /\ i.op = "load" => i.args[1] \in K /\ i.args[1][1] = "address"
    /\ i.op = "store" => i.args[2][1] = "address"

\* What each kind of code does to a run.
LEMMA RunLoad ==
    ASSUME NEW r, IsRun(r), NEW i, i.op = "load", i.args[1][1] = "address",
           NEW q, q = RunInstr(r, i)
    PROVE  /\ IsRun(q) /\ q.memory = r.memory /\ q.uses = r.uses
           /\ q.results = With(r.results, i.id, ReadMemory(r, i.args[1]))
<1>1. ValueOf(r, i.args[1]) = i.args[1]
  BY DEF ValueOf
<1>2. q = [r EXCEPT !.results = With(r.results, i.id, ReadMemory(r, i.args[1])),
                    !.wild = r.wild \/ i.args[1][1] # "address"]
  BY <1>1 DEF RunInstr
<1>3. PICK a, b : a = With(r.results, i.id, ReadMemory(r, i.args[1])) /\ b = (r.wild \/ i.args[1][1] # "address")
  OBVIOUS
<1>4. q = [r EXCEPT !.results = a, !.wild = b]
  BY <1>2, <1>3
<1>5. q = [results |-> a, memory |-> r.memory, uses |-> r.uses, wild |-> b]
  BY <1>4 DEF IsRun
<1> QED
  BY <1>3, <1>5 DEF IsRun

\* A store to a variable writes it.
LEMMA RunStore ==
    ASSUME NEW r, IsRun(r), NEW i, i.op = "store", i.args[2][1] = "address",
           NEW q, q = RunInstr(r, i)
    PROVE  /\ IsRun(q) /\ q.results = r.results /\ q.uses = r.uses
           /\ q.memory = With(r.memory, i.args[2], ValueOf(r, i.args[1]))
<1>1. ValueOf(r, i.args[2]) = i.args[2]
  BY DEF ValueOf
<1>2. q = [r EXCEPT !.memory = With(r.memory, i.args[2], ValueOf(r, i.args[1]))]
  BY <1>1 DEF RunInstr
<1>3. PICK a : a = With(r.memory, i.args[2], ValueOf(r, i.args[1]))
  OBVIOUS
<1>4. q = [results |-> r.results, memory |-> a, uses |-> r.uses, wild |-> r.wild]
  BY <1>2, <1>3 DEF IsRun
<1> QED
  BY <1>3, <1>4 DEF IsRun

\* What was used once the use i has run.
UsedBy(r, i) == r.uses \o [n \in DOMAIN i.args |-> ValueOf(r, i.args[n])]

\* A use adds the values of its operands to those used.
LEMMA RunUse ==
    ASSUME NEW r, IsRun(r), NEW i, i.op = "use", NEW q, q = RunInstr(r, i)
    PROVE  /\ IsRun(q) /\ q.results = r.results /\ q.memory = r.memory
           /\ q.uses = UsedBy(r, i)
<1>1. PICK a : a = UsedBy(r, i)
  OBVIOUS
<1>2. q = [r EXCEPT !.uses = a]
  BY <1>1 DEF RunInstr, UsedBy
<1>3. q = [results |-> r.results, memory |-> r.memory, uses |-> a, wild |-> r.wild]
  BY <1>2 DEF IsRun
<1> QED
  BY <1>1, <1>3 DEF IsRun

\* The other codes do nothing.
LEMMA RunOther ==
    ASSUME NEW r, NEW i, i.op \in {"alloca", "jump", "phi"}
    PROVE  RunInstr(r, i) = r
  BY DEF RunInstr

\* Two runs agree on their results, on what was used and on the variables K.
SameRun(K, r, q) ==
    /\ IsRun(r) /\ IsRun(q)
    /\ r.results = q.results /\ r.uses = q.uses
    /\ \A v \in K : ReadMemory(r, v) = ReadMemory(q, v)

\* An operand has the same value in runs with the same results.
LEMMA SameValue ==
    ASSUME NEW r, NEW q, r.results = q.results, NEW x
    PROVE  ValueOf(r, x) = ValueOf(q, x)
  BY DEF ValueOf

\* The memory after a store.
Written(r, a, y, v) == IF v = a THEN y ELSE ReadMemory(r, v)
\* What reading a variable gives after a store.
LEMMA ReadAfterWrite ==
    ASSUME NEW r, NEW q, NEW a, NEW y, q.memory = With(r.memory, a, y), NEW v, v[1] = "address"
    PROVE  ReadMemory(q, v) = Written(r, a, y, v)
  BY DEF With, ReadMemory, Written

\* Runs that agree still agree after a code.
LEMMA SameStep ==
    ASSUME NEW K, \A v \in K : v[1] = "address", NEW r, NEW q, SameRun(K, r, q), NEW i, Direct(K, i)
    PROVE  SameRun(K, RunInstr(r, i), RunInstr(q, i))
<1>0. IsRun(r) /\ IsRun(q) /\ r.results = q.results /\ r.uses = q.uses
      /\ \A v \in K : ReadMemory(r, v) = ReadMemory(q, v)
  BY DEF SameRun
<1>1. PICK s, t : s = RunInstr(r, i) /\ t = RunInstr(q, i)
  OBVIOUS
<1>2. CASE i.op = "load"
  <2>1. i.args[1] \in K /\ i.args[1][1] = "address"
    BY <1>2 DEF Direct
  <2>2. /\ IsRun(s) /\ s.memory = r.memory /\ s.uses = r.uses
        /\ s.results = With(r.results, i.id, ReadMemory(r, i.args[1]))
    BY <1>0, <1>1, <1>2, <2>1, RunLoad
  <2>3. /\ IsRun(t) /\ t.memory = q.memory /\ t.uses = q.uses
        /\ t.results = With(q.results, i.id, ReadMemory(q, i.args[1]))
    BY <1>0, <1>1, <1>2, <2>1, RunLoad
  <2>4. \A v \in K : ReadMemory(s, v) = ReadMemory(t, v)
    BY <1>0, <2>2, <2>3 DEF ReadMemory
  <2> QED
    BY <1>0, <1>1, <2>1, <2>2, <2>3, <2>4 DEF SameRun
<1>3. CASE i.op = "store"
  <2>1. i.args[2][1] = "address"
    BY <1>3 DEF Direct
  <2>2. PICK y : y = ValueOf(r, i.args[1])
    OBVIOUS
  <2>3. y = ValueOf(q, i.args[1])
    BY <1>0, <2>2, SameValue
  <2>4. IsRun(s) /\ s.results = r.results /\ s.uses = r.uses /\ s.memory = With(r.memory, i.args[2], y)
    BY <1>0, <1>1, <1>3, <2>1, <2>2, RunStore
  <2>5. IsRun(t) /\ t.results = q.results /\ t.uses = q.uses /\ t.memory = With(q.memory, i.args[2], y)
    BY <1>0, <1>1, <1>3, <2>1, <2>3, RunStore
  <2>6. ASSUME NEW v \in K PROVE ReadMemory(s, v) = ReadMemory(t, v)
    <3>0. PICK a : a = i.args[2] /\ v[1] = "address"
      OBVIOUS
    <3>1. s.memory = With(r.memory, a, y) /\ t.memory = With(q.memory, a, y)
      BY <2>4, <2>5, <3>0
    <3>2. ReadMemory(s, v) = Written(r, a, y, v)
      BY <3>0, <3>1, ReadAfterWrite
    <3>3. ReadMemory(t, v) = Written(q, a, y, v)
      BY <3>0, <3>1, ReadAfterWrite
    <3> QED
      BY <1>0, <3>2, <3>3 DEF Written
  <2> QED
    BY <1>0, <1>1, <2>4, <2>5, <2>6 DEF SameRun
<1>4. CASE i.op = "use"
  <2>1. UsedBy(r, i) = UsedBy(q, i)
    <3>1. \A n \in DOMAIN i.args : ValueOf(r, i.args[n]) = ValueOf(q, i.args[n])
      BY <1>0, SameValue
    <3> QED
      BY <1>0, <3>1 DEF UsedBy
  <2>2. IsRun(s) /\ s.results = r.results /\ s.memory = r.memory
        /\ s.uses = UsedBy(r, i)
    BY <1>0, <1>1, <1>4, RunUse
  <2>3. IsRun(t) /\ t.results = q.results /\ t.memory = q.memory
        /\ t.uses = UsedBy(q, i)
    BY <1>0, <1>1, <1>4, RunUse
  <2>4. \A v \in K : ReadMemory(s, v) = ReadMemory(t, v)
    BY <1>0, <2>2, <2>3 DEF ReadMemory
  <2> QED
    BY <1>0, <1>1, <2>1, <2>2, <2>3, <2>4 DEF SameRun
<1>5. CASE i.op \in {"alloca", "jump", "phi"}
  BY <1>5, RunOther
<1> QED
  BY <1>2, <1>3, <1>4, <1>5 DEF Direct

\* A loop that runs codes has the values another one has.
Agree(c, d, j) == \A n \in 1 .. j : c[n] = d[n]
\* Codes that agree up to a point run alike up to there.
LEMMA RunningUnique ==
    ASSUME NEW run, NEW c, NEW m \in Nat, NEW F, IsRunning(run, c, m, F),
           NEW d, NEW k \in Nat, NEW G, IsRunning(run, d, k, G),
           NEW j \in 0 .. m, j <= k, Agree(c, d, j)
    PROVE  F[j] = G[j]
<1> DEFINE T == {n \in 0 .. j : F[n] = G[n]}
<1>0. /\ F[0] = run /\ \A n \in 0 .. m - 1 : F[n + 1] = RunStep(run, c, n + 1, F[n])
      /\ G[0] = run /\ \A n \in 0 .. k - 1 : G[n + 1] = RunStep(run, d, n + 1, G[n])
  <2>0. m \in Nat /\ k \in Nat /\ IsRunning(run, c, m, F) /\ IsRunning(run, d, k, G)
    OBVIOUS
  <2>1. F[0] = run /\ \A n \in 0 .. m - 1 : F[n + 1] = RunStep(run, c, n + 1, F[n])
    BY ONLY <2>0, RunningStep DEF RunningGoes
  <2>2. G[0] = run /\ \A n \in 0 .. k - 1 : G[n + 1] = RunStep(run, d, n + 1, G[n])
    BY ONLY <2>0, RunningStep DEF RunningGoes
  <2> QED
    BY <2>1, <2>2
<1>1. 0 \in T
  BY <1>0
<1>2. ASSUME NEW n \in 0 .. j - 1, n \in T PROVE n + 1 \in T
  <2>1. F[n + 1] = RunStep(run, c, n + 1, F[n]) /\ G[n + 1] = RunStep(run, d, n + 1, G[n])
    <3>1. n \in 0 .. m - 1 /\ n \in 0 .. k - 1
      OBVIOUS
    <3> QED
      BY <1>0, <3>1
  <2>2. c[n + 1] = d[n + 1] /\ F[n] = G[n]
    BY <1>2 DEF Agree
  <2>3. F[n + 1] = G[n + 1]
    BY <2>1, <2>2 DEF RunStep
  <2> QED
    BY <2>3
<1> HIDE DEF T
<1>3. \A n \in 0 .. j : n \in T
  BY <1>1, <1>2, CountingUp
<1> QED
  BY <1>3 DEF T

\* Running no codes, and one code more.
LEMMA RunEmpty ==
    ASSUME NEW run
    PROVE  RunCodes(run, <<>>) = run
<1>1. Len(<<>>) = 0
  BY EmptySeq
<1>2. PICK F : IsRunning(run, <<>>, Len(<<>>), F) /\ RunCodes(run, <<>>) = F[Len(<<>>)]
  BY <1>1, RunningIs
<1> QED
  BY <1>1, <1>2, RunningStep DEF RunningGoes

\* Running codes and one more.
LEMMA RunAppend ==
    ASSUME NEW run, NEW S, NEW c \in Seq(S), NEW i \in S
    PROVE  RunCodes(run, Append(c, i)) = RunInstr(RunCodes(run, c), i)
<1>1. PICK L, d : L = Len(c) /\ d = Append(c, i)
  OBVIOUS
<1>2. L \in Nat /\ Len(d) = L + 1 /\ d[L + 1] = i /\ \A n \in 1 .. L : c[n] = d[n]
  BY <1>1, LenProperties, AppendProperties
<1>3. PICK F : IsRunning(run, c, L, F) /\ RunCodes(run, c) = F[L]
  BY <1>1, <1>2, RunningIs
<1>4. PICK k : k = L + 1
  OBVIOUS
<1>5. k \in Nat /\ Len(d) = k /\ L \in 0 .. L /\ L \in 0 .. k - 1 /\ L <= k
  BY <1>2, <1>4
<1>6. PICK G : IsRunning(run, d, k, G) /\ RunCodes(run, d) = G[k]
  <2>1. \E G : IsRunning(run, d, Len(d), G) /\ RunCodes(run, d) = G[Len(d)]
    BY <1>5, RunningIs
  <2> QED
    BY <1>5, <2>1
<1>7. F[L] = G[L]
  <2>1. Agree(c, d, L)
    BY <1>2 DEF Agree
  <2> QED
    BY <1>2, <1>3, <1>5, <1>6, <2>1, RunningUnique
<1>8. G[L + 1] = RunStep(run, d, L + 1, G[L])
  BY <1>5, <1>6, RunningStep DEF RunningGoes
<1> QED
  BY <1>1, <1>2, <1>3, <1>4, <1>6, <1>7, <1>8 DEF RunStep

AreAddresses(K) == \A v \in K : v[1] = "address"
AllDirect(K, c) == \A n \in 1 .. Len(c) : Direct(K, c[n])

\* A run agrees with itself.
LEMMA SameIsSame ==
    ASSUME NEW K, NEW r, IsRun(r)
    PROVE  SameRun(K, r, r)
  BY DEF SameRun

\* Agreement is transitive, on the variables common to both.
LEMMA SameIsTransitive ==
    ASSUME NEW K, NEW J, J \subseteq K, NEW r, NEW q, NEW s, SameRun(K, r, q), SameRun(J, q, s)
    PROVE  SameRun(J, r, s)
  BY DEF SameRun

\* SameStep for a set of addresses.
LEMMA SameStepOf ==
    ASSUME NEW K, AreAddresses(K), NEW r, NEW q, SameRun(K, r, q), NEW i, Direct(K, i)
    PROVE  SameRun(K, RunInstr(r, i), RunInstr(q, i))
  BY SameStep DEF AreAddresses

\* Runs that agree go on to agree.
LEMMA SameCodes ==
    ASSUME NEW K, AreAddresses(K), NEW c, Len(c) \in Nat, AllDirect(K, c), NEW r, NEW q, SameRun(K, r, q)
    PROVE  SameRun(K, RunCodes(r, c), RunCodes(q, c))
<1>1. PICK F : IsRunning(r, c, Len(c), F) /\ RunCodes(r, c) = F[Len(c)]
  BY RunningIs
<1>2. PICK G : IsRunning(q, c, Len(c), G) /\ RunCodes(q, c) = G[Len(c)]
  BY RunningIs
<1>3. F[0] = r /\ \A n \in 0 .. Len(c) - 1 : F[n + 1] = RunStep(r, c, n + 1, F[n])
  BY ONLY <1>1, Len(c) \in Nat, RunningStep DEF RunningGoes
<1>4. G[0] = q /\ \A n \in 0 .. Len(c) - 1 : G[n + 1] = RunStep(q, c, n + 1, G[n])
  BY ONLY <1>2, Len(c) \in Nat, RunningStep DEF RunningGoes
<1> DEFINE T == {n \in 0 .. Len(c) : SameRun(K, F[n], G[n])}
<1>5. 0 \in T
  BY <1>3, <1>4
<1>6. ASSUME NEW n \in 0 .. Len(c) - 1, n \in T PROVE n + 1 \in T
  <2>1. F[n + 1] = RunInstr(F[n], c[n + 1]) /\ G[n + 1] = RunInstr(G[n], c[n + 1])
    BY <1>3, <1>4 DEF RunStep
  <2>2. n + 1 \in 1 .. Len(c) /\ n + 1 \in 0 .. Len(c)
    OBVIOUS
  <2>3. Direct(K, c[n + 1])
    BY <2>2 DEF AllDirect
  <2>4. SameRun(K, F[n], G[n])
    BY <1>6
  <2>5. SameRun(K, F[n + 1], G[n + 1])
    BY <2>1, <2>3, <2>4, SameStepOf
  <2> QED
    BY <2>2, <2>5
<1> HIDE DEF T
<1>7. \A n \in 0 .. Len(c) : n \in T
  BY <1>5, <1>6, CountingUp
<1>8. Len(c) \in T
  BY <1>7
<1> QED
  BY <1>1, <1>2, <1>8 DEF T

\* Nothing but stores to v, and its alloca, mentions v.
OnlyWritten(v, i) == Mentions(v, i) => i.op = "alloca" \/ (i.op = "store" /\ i.args[2] = v)

\* A code that only writes v changes nothing but v.
LEMMA WrittenAside ==
    ASSUME NEW K, AreAddresses(K), NEW v, NEW r, NEW q, SameRun(K \ {v}, r, q), NEW i, Direct(K, i),
           Mentions(v, i), OnlyWritten(v, i)
    PROVE  SameRun(K \ {v}, RunInstr(r, i), q)
<1>1. CASE i.op = "alloca"
  BY <1>1, RunOther
<1>2. CASE i.op = "store" /\ i.args[2] = v
  <2>0. IsRun(r) /\ IsRun(q) /\ r.results = q.results /\ r.uses = q.uses
        /\ \A w \in K \ {v} : ReadMemory(r, w) = ReadMemory(q, w)
    BY DEF SameRun
  <2>1. PICK s, y : s = RunInstr(r, i) /\ y = ValueOf(r, i.args[1])
    OBVIOUS
  <2>2. IsRun(s) /\ s.results = r.results /\ s.uses = r.uses /\ s.memory = With(r.memory, v, y)
    <3>1. i.args[2][1] = "address"
      BY <1>2 DEF Direct
    <3> QED
      BY <1>2, <2>0, <2>1, <3>1, RunStore
  <2>3. ASSUME NEW w \in K \ {v} PROVE ReadMemory(s, w) = ReadMemory(q, w)
    <3>1. w[1] = "address" /\ w # v
      BY DEF AreAddresses
    <3>2. ReadMemory(s, w) = Written(r, v, y, w)
      BY <2>2, <3>1, ReadAfterWrite
    <3> QED
      BY <2>0, <3>1, <3>2 DEF Written
  <2> QED
    BY <2>0, <2>1, <2>2, <2>3 DEF SameRun
<1> QED
  BY <1>1, <1>2 DEF OnlyWritten

\* A code that does not mention v goes through the other variables.
LEMMA UnmentionedDirect ==
    ASSUME NEW K, NEW v, NEW i \in Shaped, Direct(K, i), ~Mentions(v, i)
    PROVE  Direct(K \ {v}, i)
<1>1. i.op = "load" => i.args[1] \in ToSet(i.args)
  BY ArgsOf DEF Shaped, ToSet
<1> QED
  BY <1>1 DEF Direct, Mentions

\* Codes without v do to the other variables what the codes do.
LEMMA WithoutSame ==
    ASSUME NEW K, AreAddresses(K), NEW v, NEW c \in Seq(Shaped), AllDirect(K, c),
           \A n \in 1 .. Len(c) : OnlyWritten(v, c[n]), NEW r, IsRun(r)
    PROVE  SameRun(K \ {v}, RunCodes(r, c), RunCodes(r, Without(v, c)))
<1>0. Len(c) \in Nat /\ \A n \in 1 .. Len(c) : c[n] \in Shaped
  BY LenProperties, ElementOfSeq
<1>1. PICK F : IsRunning(r, c, Len(c), F) /\ RunCodes(r, c) = F[Len(c)]
  BY <1>0, RunningIs
<1>2. PICK W : IsLeavingOut(v, c, Len(c), W) /\ Without(v, c) = W[Len(c)]
  BY <1>0, LeavingOutIs
<1>3. F[0] = r /\ \A n \in 0 .. Len(c) - 1 : F[n + 1] = RunStep(r, c, n + 1, F[n])
  <2>1. RunningGoes(r, c, Len(c), F)
    BY <1>0, <1>1, RunningStep
  <2> QED
    BY <2>1 DEF RunningGoes
<1>4. W[0] = <<>> /\ \A n \in 0 .. Len(c) - 1 : W[n + 1] = LeaveOutStep(v, c, n + 1, W[n])
  <2>1. LeavingOutGoes(v, c, Len(c), W)
    BY <1>0, <1>2, LeavingOutStep
  <2> QED
    BY <2>1 DEF LeavingOutGoes
<1> DEFINE T == {n \in 0 .. Len(c) : SameRun(K \ {v}, F[n], RunCodes(r, W[n]))}
<1>5. 0 \in T
  <2>1. RunCodes(r, W[0]) = r
    BY <1>4, RunEmpty
  <2> QED
    BY <1>0, <1>3, <2>1, SameIsSame
<1>6. ASSUME NEW n \in 0 .. Len(c) - 1, n \in T PROVE n + 1 \in T
  <2>1. PICK i, s, q : i = c[n + 1] /\ s = F[n] /\ q = RunCodes(r, W[n])
    OBVIOUS
  <2>2. n + 1 \in 1 .. Len(c) /\ n + 1 \in 0 .. Len(c) /\ n \in 0 .. Len(c)
    BY <1>0
  <2>3. i \in Shaped /\ Direct(K, i) /\ OnlyWritten(v, i) /\ SameRun(K \ {v}, s, q)
    BY <1>0, <1>6, <2>1, <2>2 DEF AllDirect
  <2>4. F[n + 1] = RunInstr(s, i) /\ W[n + 1] = IF Mentions(v, i) THEN W[n] ELSE Append(W[n], i)
    BY <1>3, <1>4, <2>1 DEF RunStep, LeaveOutStep
  <2>5. CASE Mentions(v, i)
    <3>1. SameRun(K \ {v}, RunInstr(s, i), q)
      BY <2>3, <2>5, WrittenAside
    <3> QED
      BY <2>1, <2>2, <2>4, <2>5, <3>1
  <2>6. CASE ~Mentions(v, i)
    <3>1. Direct(K \ {v}, i) /\ AreAddresses(K \ {v})
      BY <2>3, <2>6, UnmentionedDirect DEF AreAddresses
    <3>2. SameRun(K \ {v}, RunInstr(s, i), RunInstr(q, i))
      BY <2>3, <3>1, SameStepOf
    <3>3. W[n] \in Seq(Shaped)
      <4>1. PICK e : Leaves(v, c, n, W[n], e)
        BY <1>2, <2>2, LeavingLeaves
      <4> QED
        BY <4>1 DEF Leaves
    <3>4. RunCodes(r, Append(W[n], i)) = RunInstr(RunCodes(r, W[n]), i)
      BY <2>3, <3>3, RunAppend
    <3> QED
      BY <2>1, <2>2, <2>4, <2>6, <3>2, <3>4
  <2> QED
    BY <2>5, <2>6
<1> HIDE DEF T
<1>7. \A n \in 0 .. Len(c) : n \in T
  BY <1>0, <1>5, <1>6, CountingUp
<1>8. Len(c) \in T
  BY <1>0, <1>7
<1> QED
  BY <1>1, <1>2, <1>8 DEF T

\* A phi in front does nothing by itself.
LEMMA RunPrepend ==
    ASSUME NEW r, NEW c \in Seq(Shaped), NEW i \in Shaped, i.op = "phi"
    PROVE  RunCodes(r, <<i>> \o c) = RunCodes(r, c)
<1>1. PICK d, L : d = <<i>> \o c /\ L = Len(c)
  OBVIOUS
<1>2. L \in Nat /\ Len(d) = L + 1 /\ d[1] = i /\ \A n \in 1 .. L : d[n + 1] = c[n]
  <2>1. <<i>> \in Seq(Shaped) /\ Len(<<i>>) = 1 /\ <<i>>[1] = i
    OBVIOUS
  <2>2. L \in Nat /\ d \in Seq(Shaped) /\ Len(d) = 1 + L
    BY <1>1, <2>1, LenProperties, ConcatProperties
  <2>3. \A n \in 1 .. L + 1 : d[n] = IF n <= 1 THEN <<i>>[n] ELSE c[n - 1]
    BY <1>1, <2>1, <2>2, ConcatProperties
  <2>4. \A n \in 1 .. L : n + 1 \in 1 .. L + 1 /\ ~(n + 1 <= 1) /\ (n + 1) - 1 = n
    BY <2>2
  <2>5. 1 \in 1 .. L + 1
    BY <2>2
  <2> QED
    BY <2>1, <2>2, <2>3, <2>4, <2>5
<1>3. PICK F : IsRunning(r, c, L, F) /\ RunCodes(r, c) = F[L]
  BY <1>1, <1>2, RunningIs
<1>4. PICK M : M = L + 1
  OBVIOUS
<1>5. M \in Nat /\ Len(d) = M
  BY <1>2, <1>4
<1>6. PICK G : IsRunning(r, d, M, G) /\ RunCodes(r, d) = G[M]
  <2>1. \E G : IsRunning(r, d, Len(d), G) /\ RunCodes(r, d) = G[Len(d)]
    BY <1>5, RunningIs
  <2> QED
    BY <1>5, <2>1
<1>7. F[0] = r /\ \A n \in 0 .. L - 1 : F[n + 1] = RunStep(r, c, n + 1, F[n])
  BY ONLY <1>2, <1>3, RunningStep DEF RunningGoes
<1>8. G[0] = r /\ \A n \in 0 .. M - 1 : G[n + 1] = RunStep(r, d, n + 1, G[n])
  BY ONLY <1>5, <1>6, RunningStep DEF RunningGoes
<1> DEFINE T == {n \in 0 .. L : F[n] = G[n + 1]}
<1>9. 0 \in T
  <2>1. G[0 + 1] = RunStep(r, d, 0 + 1, G[0])
    BY <1>2, <1>4, <1>8
  <2>2. G[1] = RunInstr(r, i)
    BY <1>2, <1>8, <2>1 DEF RunStep
  <2> QED
    BY <1>2, <1>7, <2>2, RunOther
<1>10. ASSUME NEW n \in 0 .. L - 1, n \in T PROVE n + 1 \in T
  <2>1. F[n + 1] = RunInstr(F[n], c[n + 1])
    BY <1>7 DEF RunStep
  <2>2. n + 1 \in 0 .. M - 1 /\ n + 1 \in 1 .. L
    BY <1>2, <1>4
  <2>3. G[(n + 1) + 1] = RunInstr(G[n + 1], d[(n + 1) + 1])
    BY <1>8, <2>2 DEF RunStep
  <2>4. d[(n + 1) + 1] = c[n + 1] /\ F[n] = G[n + 1]
    BY <1>2, <1>10, <2>2
  <2> QED
    BY <2>1, <2>2, <2>3, <2>4
<1> HIDE DEF T
<1>11. \A n \in 0 .. L : n \in T
  BY <1>2, <1>9, <1>10, CountingUp
<1>12. L \in T
  BY <1>2, <1>11
<1> QED
  BY <1>1, <1>3, <1>4, <1>6, <1>12 DEF T

\* Other operands of phis make no difference to the run of the codes.
SameButPhis(c, d) ==
    /\ Len(c) = Len(d)
    /\ \A n \in 1 .. Len(c) : c[n] = d[n] \/ (c[n].op = "phi" /\ d[n].op = "phi")

\* Codes that differ in the sources of phis run alike.
LEMMA RunSameButPhis ==
    ASSUME NEW r, NEW c, NEW d, Len(c) \in Nat, SameButPhis(c, d)
    PROVE  RunCodes(r, c) = RunCodes(r, d)
<1>0. PICK L : L = Len(c)
  OBVIOUS
<1>1. L \in Nat /\ L = Len(d) /\ \A n \in 1 .. L : c[n] = d[n] \/ (c[n].op = "phi" /\ d[n].op = "phi")
  BY <1>0 DEF SameButPhis
<1>2. PICK F : IsRunning(r, c, L, F) /\ RunCodes(r, c) = F[L]
  BY <1>0, <1>1, RunningIs
<1>3. PICK G : IsRunning(r, d, L, G) /\ RunCodes(r, d) = G[L]
  BY <1>1, RunningIs
<1>4. F[0] = r /\ \A n \in 0 .. L - 1 : F[n + 1] = RunStep(r, c, n + 1, F[n])
  BY ONLY <1>1, <1>2, RunningStep DEF RunningGoes
<1>5. G[0] = r /\ \A n \in 0 .. L - 1 : G[n + 1] = RunStep(r, d, n + 1, G[n])
  BY ONLY <1>1, <1>3, RunningStep DEF RunningGoes
<1> DEFINE T == {n \in 0 .. L : F[n] = G[n]}
<1>6. 0 \in T
  BY <1>1, <1>4, <1>5
<1>7. ASSUME NEW n \in 0 .. L - 1, n \in T PROVE n + 1 \in T
  <2>1. F[n + 1] = RunInstr(F[n], c[n + 1]) /\ G[n + 1] = RunInstr(F[n], d[n + 1])
    BY <1>4, <1>5, <1>7 DEF RunStep
  <2>2. n + 1 \in 1 .. L /\ n + 1 \in 0 .. L
    BY <1>1
  <2>3. F[n + 1] = G[n + 1]
    BY <1>1, <2>1, <2>2, RunOther
  <2> QED
    BY <2>2, <2>3
<1> HIDE DEF T
<1>8. \A n \in 0 .. L : n \in T
  BY <1>1, <1>6, <1>7, CountingUp
<1>9. L \in T
  BY <1>1, <1>8
<1> QED
  BY <1>2, <1>3, <1>9 DEF T

-----------------------------------------------------------------------------
(***************************************************************************)
(* Functions without pointers.                                             *)
(***************************************************************************)
\* The source takes no address: it loads from and stores to variables, and neither
\* stores nor uses the address of one.
NoPointers(codes) ==
    \A g \in Groups : \A n \in DOMAIN codes[g] :
        LET i == codes[g][n]
        IN  /\ i.op = "load" => i.args[1][1] = "address"
            /\ i.op = "store" => i.args[1][1] # "address" /\ i.args[2][1] = "address"
            /\ i.op = "use" => \A x \in ToSet(i.args) : x[1] # "address"

\* The results of the loads of a group, and of those of the groups that strictly
\* dominate it.
Loads(src, g) == {src[g][n].id : n \in {n \in DOMAIN src[g] : src[g][n].op = "load"}}
Before(f, src, g) == UNION {Loads(src, d) : d \in StrictDominators(f, g)}

GraphInv ==
    /\ IsConnected(follows) /\ Mirrored(follows, precedes)
    /\ children = [g \in Groups |-> Kids(follows, g)]
    /\ frontier = [g \in Groups |-> Frontier(follows, g)]
    /\ precedes \in [Groups -> Seq(Groups)]
    /\ IsFunction(follows, source) /\ source \in [Groups -> Seq(Shaped)]
    /\ NoPointers(source)

\* Value x is a constant or the result of a load of A or of one before number n of c.
Available(A, c, n, x) ==
    x[1] = "constant" \/ x \in A \/ \E m \in 1 .. n - 1 : c[m].op = "load" /\ c[m].id = x

\* A code of a group that is not renamed yet: its loads and stores are of the
\* variables K, and what it uses is available.
BodyCode(K, L, A, c, n) ==
    /\ Direct(K, c[n])
    /\ c[n].op = "alloca" => c[n].args = <<>> /\ c[n].id \in K
    /\ c[n].op = "load" => c[n].id \in L
    /\ c[n].op = "store" => c[n].args[2] \in K /\ Available(A, c, n, c[n].args[1])
    /\ c[n].op = "use" => \A k \in 1 .. Len(c[n].args) : Available(A, c, n, c[n].args[k])
    /\ c[n].op = "jump" => c[n].args = <<>>
    /\ c[n].op \in {"store", "use", "jump"} => c[n].id = Nothing
    /\ c[n].op = "phi" => \A m \in 1 .. n : c[m].op = "phi"

GroupBody(K, L, A, c) ==
    /\ \A n \in 1 .. Len(c) : BodyCode(K, L, A, c, n)
    /\ \A x \in L : \E n \in 1 .. Len(c) : c[n].op = "load" /\ c[n].id = x

IsPhiFor(g, v, i) == i.op = "phi" /\ i.id = PhiOf(g, v[2])
HasPhi(codes, g, v) == \E n \in 1 .. Len(codes[g]) : IsPhiFor(g, v, codes[g][n])
HasStore(codes, g, v) == \E n \in 1 .. Len(codes[g]) : codes[g][n].op = "store" /\ codes[g][n].args[2] = v
Spreads(codes, g, v) == \A y \in Frontier(follows, g) : HasPhi(codes, y, v)

\* A phi of group g is of one of the variables P, and knows it.
PhiKnown(g, P, orig, i) ==
    /\ g # Entry /\ Len(i.args) = Len(precedes[g])
    /\ \E v \in P : i.id = PhiOf(g, v[2]) /\ i.id \in DOMAIN orig /\ orig[i.id] = v

\* Its source for a predecessor is the name out the variable has at the end of that
\* group if it is one of R, the renamed ones, and the address of the variable if not.
SourceFor(R, out, p, v) == IF p \in R THEN out[p][v] ELSE v
PhiFilled(g, P, R, out, i) ==
    \A v \in P : i.id = PhiOf(g, v[2]) =>
        \A k \in 1 .. Len(precedes[g]) : i.args[k] = SourceFor(R, out, precedes[g][k], v)

PhisKnown(P, orig, codes) ==
    \A g \in Groups : \A n \in 1 .. Len(codes[g]) : codes[g][n].op = "phi" => PhiKnown(g, P, orig, codes[g][n])
\* A phi that is known is known for its variable.
OriginalsKnown(P, orig) == \A x \in DOMAIN orig : \E v \in P : x[3] = v[2] /\ orig[x] = v
PhisFilled(P, R, out, codes) ==
    \A g \in Groups : \A n \in 1 .. Len(codes[g]) : codes[g][n].op = "phi" => PhiFilled(g, P, R, out, codes[g][n])

\* A variable that a group stores to, or has a phi for, has phis in its frontier.
PhisSpread(P, codes) ==
    \A g \in Groups : \A v \in P : HasPhi(codes, g, v) \/ HasStore(codes, g, v) => Spreads(codes, g, v)

\* Codes d leave in the variables K, and use, what codes c do.
KeepsMemory(K, c, d) == \A r : IsRun(r) => SameRun(K, RunCodes(r, c), RunCodes(r, d))

ScanIds == {scan[n].id : n \in 1 .. Len(scan)}
Live == DOMAIN names \cup ScanIds

AreVariables(K) == \A v \in K : \E x \in Names : v = Address(x)
Bodies(K, codes) ==
    \A g \in Groups : GroupBody(K, Loads(source, g), Before(follows, source, g), codes[g])
Memories(K, codes) == \A g \in Groups : KeepsMemory(K, source[g], codes[g])
AllocasOfAll(K, codes) == \A v \in K : \E n \in 1 .. Len(codes[Entry]) : codes[Entry][n].id = v
ScanDistinct ==
    /\ \A n \in 1 .. Len(scan) : scan[n].id \notin DOMAIN names
    /\ \A m, n \in 1 .. Len(scan) : scan[m].id = scan[n].id => m = n

ScanInv ==
    /\ stack = <<>> /\ temporary = NoMap
    /\ AreVariables(Live)
    /\ \A v \in DOMAIN names : names[v] = <<Undef(v[2])>>
    /\ ScanDistinct
    /\ Bodies(Live, code)
    /\ OriginalsKnown(DOMAIN names, original)
    /\ PhisKnown(DOMAIN names, original, code)
    /\ PhisFilled(DOMAIN names, {}, <<>>, code)
    /\ PhisSpread(DOMAIN names, code)
    /\ AllocasOfAll(Live, code)
    /\ Memories(Live, code)

-----------------------------------------------------------------------------
\* The addresses of variables.
LEMMA VariablesAre ==
    ASSUME NEW K, AreVariables(K), NEW v \in K
    PROVE  v[1] = "address" /\ v[2] \in Names /\ v = Address(v[2])
  BY DEF AreVariables, Address

\* They are addresses.
LEMMA VariablesAreAddresses ==
    ASSUME NEW K, AreVariables(K)
    PROVE  AreAddresses(K)
  BY VariablesAre DEF AreAddresses

\* The groups and their codes, as the pass finds them.
LEMMA InitGraph ==
    ASSUME Init, NoPointers(source)
    PROVE  GraphInv
<1>1. /\ follows \in FlowGraphs /\ source \in SourcesOf(follows) /\ precedes = PrecedesOf(follows)
      /\ children = [g \in Groups |-> {c \in Groups \ {Entry} : ImmediateDominator(DominatorMap(follows), c) = g}]
      /\ frontier = [g \in Groups |-> DominanceFrontier(follows, DominatorMap(follows), g)]
  BY DEF Init
<1>2. IsConnected(follows)
  BY <1>1, FlowGraphsAssumption, ConnectedAssumption DEF IsConnected, IsGraph
<1>3. Mirrored(follows, precedes) /\ precedes \in [Groups -> Seq(Groups)]
  BY <1>1, PrecedesAssumption
<1>4. source \in [Groups -> Seq(Shaped)] /\ IsFunction(follows, source)
  BY <1>1, SourceIsShaped, SourcesAssumption
<1>5. ASSUME NEW g \in Groups
      PROVE  {c \in Groups \ {Entry} : ImmediateDominator(DominatorMap(follows), c) = g} = Kids(follows, g)
  <2>1. ASSUME NEW c \in Groups, c # Entry, ImmediateDominator(DominatorMap(follows), c) = g
        PROVE  IsIdom(follows, g, c)
    BY <1>2, <2>1, GroupsAssumption, ImmediateDominatorExists
  <2>2. ASSUME NEW c \in Groups, IsIdom(follows, g, c)
        PROVE  c # Entry /\ ImmediateDominator(DominatorMap(follows), c) = g
    <3>1. c # Entry
      BY <1>2, <2>2, GroupsAssumption, IdomDepth
    <3>2. IsIdom(follows, ImmediateDominator(DominatorMap(follows), c), c)
      BY <1>2, <3>1, GroupsAssumption, ImmediateDominatorExists
    <3> QED
      BY <1>2, <2>2, <3>1, <3>2, GroupsAssumption, IdomUnique
  <2> QED
    BY <2>1, <2>2 DEF Kids
<1>6. children = [g \in Groups |-> Kids(follows, g)]
  BY <1>1, <1>5
<1>7. frontier = [g \in Groups |-> Frontier(follows, g)]
  BY <1>1 DEF Frontier
<1> QED
  BY <1>2, <1>3, <1>4, <1>6, <1>7 DEF GraphInv

\* What the source is made of, when it has no pointers.
LEMMA SourceCode ==
    ASSUME GraphInv, NEW g \in Groups, NEW n \in 1 .. Len(source[g])
    PROVE  /\ source[g][n] \in Shaped /\ IsGenerated(source[g][n])
           /\ source[g][n].op = "alloca" => g = Entry
           /\ \A x \in ToSet(source[g][n].args) : IsOperand(DominatorMap(follows), source, g, n, x)
           /\ source[g][n].op = "load" => source[g][n].args[1][1] = "address"
           /\ source[g][n].op = "store" => source[g][n].args[1][1] # "address" /\ source[g][n].args[2][1] = "address"
           /\ source[g][n].op = "use" => \A x \in ToSet(source[g][n].args) : x[1] # "address"
<1>1. n \in DOMAIN source[g] /\ source[g][n] \in Shaped
  BY CodeOf DEF GraphInv
<1>2. IsFunction(follows, source) /\ NoPointers(source)
  BY DEF GraphInv
<1>3. /\ IsGenerated(source[g][n])
      /\ source[g][n].op = "alloca" => g = Entry
      /\ \A x \in ToSet(source[g][n].args) : IsOperand(DominatorMap(follows), source, g, n, x)
  BY <1>1, <1>2 DEF IsFunction
<1>4. /\ source[g][n].op = "load" => source[g][n].args[1][1] = "address"
      /\ source[g][n].op = "store" => source[g][n].args[1][1] # "address" /\ source[g][n].args[2][1] = "address"
      /\ source[g][n].op = "use" => \A x \in ToSet(source[g][n].args) : x[1] # "address"
  BY <1>1, <1>2 DEF NoPointers
<1> QED
  BY <1>1, <1>3, <1>4

\* The results of the loads of a group.
LEMMA LoadsAre ==
    ASSUME GraphInv, NEW g \in Groups, NEW x
    PROVE  /\ x \in Loads(source, g) <=> \E n \in 1 .. Len(source[g]) : source[g][n].op = "load" /\ source[g][n].id = x
           /\ x \in Loads(source, g) => x[1] = "code"
<1>1. DOMAIN source[g] = 1 .. Len(source[g])
  BY CodeOf DEF GraphInv
<1>2. x \in Loads(source, g) <=> \E n \in 1 .. Len(source[g]) : source[g][n].op = "load" /\ source[g][n].id = x
  BY <1>1 DEF Loads
<1>3. ASSUME NEW n \in 1 .. Len(source[g]), source[g][n].op = "load" PROVE source[g][n].id[1] = "code"
  <2>1. IsGenerated(source[g][n])
    BY SourceCode
  <2> QED
    BY <1>3, <2>1 DEF IsGenerated
<1> QED
  BY <1>2, <1>3

\* An operand that is no address is available, in the source.
LEMMA SourceOperand ==
    ASSUME GraphInv, NEW g \in Groups, NEW n \in 1 .. Len(source[g]), NEW x,
           IsOperand(DominatorMap(follows), source, g, n, x), x[1] # "address"
    PROVE  Available(Before(follows, source, g), source[g], n, x)
<1>0. Len(source[g]) \in Nat
  BY CodeOf DEF GraphInv
<1>1. CASE x[1] = "constant"
  BY <1>1 DEF Available
<1>2. CASE x[1] # "constant"
  <2>1. x[1] = "code" /\ \E d \in DominatorMap(follows)[g] :
            \E m \in DOMAIN source[d] : source[d][m].id = x /\ (d = g => m < n)
    BY <1>2 DEF IsOperand
  <2>2. DominatorMap(follows)[g] = Dominators(follows, g) /\ Dominators(follows, g) \subseteq Groups
    BY DominatorMapIs, SelfDominates
  <2>3. PICK d \in Dominators(follows, g) : \E m \in DOMAIN source[d] : source[d][m].id = x /\ (d = g => m < n)
    BY <2>1, <2>2
  <2>4. d \in Groups /\ DOMAIN source[d] = 1 .. Len(source[d])
    BY <2>2, CodeOf DEF GraphInv
  <2>5. PICK m \in 1 .. Len(source[d]) : source[d][m].id = x /\ (d = g => m < n)
    BY <2>3, <2>4
  <2>6. source[d][m].op = "load"
    <3>1. IsGenerated(source[d][m])
      BY <2>4, SourceCode
    <3> QED
      BY <2>1, <2>5, <3>1 DEF IsGenerated, Address, Nothing
  <2>7. CASE d = g
    <3>1. m \in 1 .. n - 1
      BY <1>0, <2>5, <2>7
    <3> QED
      BY <2>5, <2>6, <2>7, <3>1 DEF Available
  <2>8. CASE d # g
    <3>1. x \in Loads(source, d)
      BY <2>4, <2>5, <2>6, LoadsAre
    <3> QED
      BY <2>3, <2>8, <3>1 DEF Available, Before, StrictDominators
  <2> QED
    BY <2>7, <2>8
<1> QED
  BY <1>1, <1>2

\* An operand that is one is a variable of the function.
LEMMA SourceVariable ==
    ASSUME GraphInv, NEW g, NEW n, NEW x, IsOperand(DominatorMap(follows), source, g, n, x), x[1] = "address"
    PROVE  \E m \in 1 .. Len(source[Entry]) : source[Entry][m].op = "alloca" /\ source[Entry][m].id = x
<1>1. DOMAIN source[Entry] = 1 .. Len(source[Entry])
  BY EntryAssumption, CodeOf DEF GraphInv
<1>2. PICK m \in 1 .. Len(source[Entry]) : source[Entry][m].id = x
  BY <1>1 DEF IsOperand
<1>3. IsGenerated(source[Entry][m])
  BY EntryAssumption, SourceCode
<1> QED
  BY <1>2, <1>3 DEF IsGenerated, Nothing

\* An operand is one of the values the set of operands lists.
LEMMA ArgInSet ==
    ASSUME NEW i \in Shaped, NEW k \in 1 .. Len(i.args)
    PROVE  i.args[k] \in ToSet(i.args)
  BY ArgsOf DEF ToSet

\* The operands an instruction of its kind has.
LEMMA ShapeOf ==
    ASSUME NEW i \in Shaped
    PROVE  /\ i.op = "load" => Len(i.args) = 1
           /\ i.op = "store" => Len(i.args) = 2
           /\ i.op = "phi" => i.id[1] = "phi"
           /\ i.op = "alloca" => \E v \in Names : i.id = Address(v)
  BY DEF Shaped

\* The codes of the source are as the scan of the allocas expects them.
LEMMA SourceBody ==
    ASSUME GraphInv, NEW g \in Groups, NEW K,
           \A m \in 1 .. Len(source[Entry]) : source[Entry][m].op = "alloca" => source[Entry][m].id \in K
    PROVE  /\ GroupBody(K, Loads(source, g), Before(follows, source, g), source[g])
           /\ \A n \in 1 .. Len(source[g]) : source[g][n].op # "phi"
<1>0. PICK c, A : c = source[g] /\ A = Before(follows, source, g)
  OBVIOUS
<1>1. ASSUME NEW n \in 1 .. Len(source[g]) PROVE c[n].op # "phi" /\ BodyCode(K, Loads(source, g), A, c, n)
  <2>1. PICK i : i = source[g][n] /\ i = c[n]
    BY <1>0
  <2>2. i \in Shaped /\ IsGenerated(i)
    BY <2>1, SourceCode
  <2>3. i.op = "alloca" => g = Entry
    BY <2>1, SourceCode
  <2>4. i.op = "store" => i.args[1][1] # "address" /\ i.args[2][1] = "address"
    BY <2>1, SourceCode
  <2>5. i.op = "load" => i.args[1][1] = "address"
    BY <2>1, SourceCode
  <2>6. ASSUME NEW k \in 1 .. Len(i.args) PROVE IsOperand(DominatorMap(follows), source, g, n, i.args[k])
    <3>1. i.args[k] \in ToSet(source[g][n].args)
      BY <2>1, <2>2, ArgInSet
    <3> QED
      BY <3>1, SourceCode
  <2>7. ASSUME NEW k \in 1 .. Len(i.args), i.args[k][1] = "address" PROVE i.args[k] \in K
    BY <2>6, <2>7, SourceVariable
  <2>8. ASSUME NEW k \in 1 .. Len(i.args), i.args[k][1] # "address" PROVE Available(A, c, n, i.args[k])
    BY <1>0, <2>6, <2>8, SourceOperand
  <2>9. CASE i.op = "alloca"
    <3>1. i.args = <<>> /\ \E v \in Names : i.id = Address(v)
      BY <2>2, <2>9 DEF IsGenerated
    <3>2. g = Entry /\ i.id \in K
      BY <2>1, <2>3, <2>9
    <3> QED
      BY <2>1, <2>9, <3>1, <3>2 DEF BodyCode, Direct
  <2>10. CASE i.op = "load"
    <3>1. 1 \in 1 .. Len(i.args)
      <4>1. Len(i.args) = 1
        BY <2>2, <2>10 DEF IsGenerated
      <4> QED
        BY <4>1
    <3>2. i.args[1] \in K
      BY <2>5, <2>7, <2>10, <3>1
    <3>3. i.id \in Loads(source, g)
      <4>1. \E k \in 1 .. Len(source[g]) : source[g][k].op = "load" /\ source[g][k].id = i.id
        BY <2>1, <2>10
      <4> QED
        BY <4>1, LoadsAre
    <3> QED
      BY <2>1, <2>5, <2>10, <3>2, <3>3 DEF BodyCode, Direct
  <2>11. CASE i.op = "store"
    <3>1. Len(i.args) = 2 /\ i.id = Nothing
      BY <2>2, <2>11 DEF IsGenerated
    <3>2. 1 \in 1 .. Len(i.args) /\ 2 \in 1 .. Len(i.args)
      BY <3>1
    <3>3. i.args[2] \in K
      BY <2>4, <2>7, <2>11, <3>2
    <3>4. Available(A, c, n, i.args[1])
      BY <2>4, <2>8, <2>11, <3>2
    <3> QED
      BY <2>1, <2>4, <2>11, <3>1, <3>3, <3>4 DEF BodyCode, Direct
  <2>12. CASE i.op = "use"
    <3>1. ASSUME NEW k \in 1 .. Len(i.args) PROVE Available(A, c, n, i.args[k])
      <4>1. i.args[k] \in ToSet(source[g][n].args)
        BY <2>1, <2>2, ArgInSet
      <4>2. i.args[k][1] # "address"
        BY <2>1, <2>12, <4>1, SourceCode
      <4> QED
        BY <2>8, <4>2
    <3>2. i.id = Nothing
      BY <2>2, <2>12 DEF IsGenerated
    <3> QED
      BY <2>1, <2>12, <3>1, <3>2 DEF BodyCode, Direct
  <2>13. CASE i.op = "jump"
    <3>1. i.args = <<>> /\ i.id = Nothing
      BY <2>2, <2>13 DEF IsGenerated
    <3> QED
      BY <2>1, <2>13, <3>1 DEF BodyCode, Direct
  <2>14. i.op \in {"alloca", "load", "store", "use", "jump"}
    BY <2>2 DEF IsGenerated
  <2> QED
    BY <2>1, <2>9, <2>10, <2>11, <2>12, <2>13, <2>14
<1>2. \A x \in Loads(source, g) : \E n \in 1 .. Len(c) : c[n].op = "load" /\ c[n].id = x
  BY <1>0, LoadsAre
<1> QED
  BY <1>0, <1>1, <1>2 DEF GroupBody

\* Codes do what they do themselves.
LEMMA KeepsItself ==
    ASSUME NEW K, AreAddresses(K), NEW c, Len(c) \in Nat, AllDirect(K, c)
    PROVE  KeepsMemory(K, c, c)
<1> SUFFICES ASSUME NEW r, IsRun(r) PROVE SameRun(K, RunCodes(r, c), RunCodes(r, c))
  BY DEF KeepsMemory
<1>1. SameRun(K, r, r)
  BY SameIsSame
<1> QED
  BY <1>1, SameCodes

\* Codes of a group go through the variables directly.
LEMMA BodyIsDirect ==
    ASSUME NEW K, NEW L, NEW A, NEW c, GroupBody(K, L, A, c)
    PROVE  AllDirect(K, c)
  BY DEF GroupBody, BodyCode, AllDirect

\* The allocas of the entry are all different.
LEMMA SourceAllocasDiffer ==
    ASSUME GraphInv, NEW m \in 1 .. Len(source[Entry]), NEW n \in 1 .. Len(source[Entry]),
           source[Entry][m].op = "alloca", source[Entry][m].id = source[Entry][n].id
    PROVE  m = n
<1>1. DOMAIN source[Entry] = 1 .. Len(source[Entry]) /\ source[Entry][m] \in Shaped
  BY EntryAssumption, CodeOf DEF GraphInv
<1>2. source[Entry][m].id # Nothing
  BY <1>1, ShapeOf DEF Address, Nothing
<1>3. IsFunction(follows, source)
  BY DEF GraphInv
<1> QED
  BY <1>1, <1>2, <1>3, EntryAssumption DEF IsFunction

\* The allocas that the loop finds are different if those of the codes are.
DifferentAllocas(c) ==
    \A m, n \in 1 .. Len(c) : c[m].op = "alloca" /\ c[m].id = c[n].id => m = n

DifferentIds(a) == \A m, n \in 1 .. Len(a) : a[m].id = a[n].id => m = n
FromFirst(a, c, m) == \A n \in 1 .. Len(a) : \E k \in 1 .. m : a[n] = c[k]

\* The allocas the scan looks at are all different.
LEMMA CollectedDiffer ==
    ASSUME NEW c \in Seq(Shaped), DifferentAllocas(c)
    PROVE  DifferentIds(AllocasOf(c))
<1>0. Len(c) \in Nat /\ \A n \in 1 .. Len(c) : c[n] \in Shaped
  BY LenProperties, ElementOfSeq
<1>1. PICK F : IsCollecting(c, Len(c), F) /\ AllocasOf(c) = F[Len(c)]
  BY <1>0, CollectingIs
<1>2. CollectingGoes(c, Len(c), F)
  BY <1>0, <1>1, CollectingStep
<1> DEFINE Good(m, a) == a \in Seq(Shaped) /\ DifferentIds(a) /\ FromFirst(a, c, m)
           T == {m \in 0 .. Len(c) : Good(m, F[m])}
<1>3. 0 \in T
  <2>1. <<>> \in Seq(Shaped) /\ Len(<<>>) = 0
    BY EmptySeq
  <2>2. Good(0, <<>>)
    BY <2>1 DEF DifferentIds, FromFirst
  <2>3. F[0] = <<>> /\ 0 \in 0 .. Len(c)
    BY <1>0, <1>2 DEF CollectingGoes
  <2> QED
    BY <2>2, <2>3
<1>4. ASSUME NEW m \in 0 .. Len(c) - 1, m \in T PROVE m + 1 \in T
  <2>1. PICK a, i, L : a = F[m] /\ i = c[m + 1] /\ L = Len(a)
    OBVIOUS
  <2>2. m + 1 \in 1 .. Len(c) /\ m + 1 \in 0 .. Len(c) /\ m \in Nat
    BY <1>0
  <2>3. a \in Seq(Shaped) /\ DifferentIds(a) /\ FromFirst(a, c, m) /\ i \in Shaped /\ L \in Nat
    BY <1>0, <1>4, <2>1, <2>2, LenProperties
  <2>4. F[m + 1] = IF i.op = "alloca" THEN Append(a, i) ELSE a
    BY <1>2, <2>1 DEF CollectingGoes, CollectStep
  <2>5. CASE i.op # "alloca"
    <3>1. FromFirst(a, c, m + 1)
      BY <2>2, <2>3 DEF FromFirst
    <3> QED
      BY <2>2, <2>3, <2>4, <2>5, <3>1
  <2>6. CASE i.op = "alloca"
    <3>1. PICK b : b = Append(a, i)
      OBVIOUS
    <3>2. b \in Seq(Shaped) /\ Len(b) = L + 1 /\ b[L + 1] = i /\ \A n \in 1 .. L : b[n] = a[n]
      BY <2>1, <2>3, <3>1, AppendProperties
    <3>3. ASSUME NEW n \in 1 .. L PROVE a[n].id # i.id
      <4>1. PICK k \in 1 .. m : a[n] = c[k]
        BY <2>1, <2>3 DEF FromFirst
      <4>2. k \in 1 .. Len(c) /\ k # m + 1
        BY <1>0, <2>2
      <4> QED
        BY <2>1, <2>2, <2>6, <4>1, <4>2 DEF DifferentAllocas
    <3>4. DifferentIds(b)
      <4> SUFFICES ASSUME NEW p \in 1 .. L + 1, NEW n \in 1 .. L + 1, b[p].id = b[n].id PROVE p = n
        BY <3>2 DEF DifferentIds
      <4>1. CASE p \in 1 .. L /\ n \in 1 .. L
        BY <2>1, <2>3, <3>2, <4>1 DEF DifferentIds
      <4>2. CASE p = L + 1 /\ n \in 1 .. L
        BY <3>2, <3>3, <4>2
      <4>3. CASE p \in 1 .. L /\ n = L + 1
        BY <3>2, <3>3, <4>3
      <4> QED
        BY <2>3, <4>1, <4>2, <4>3
    <3>5. FromFirst(b, c, m + 1)
      <4> SUFFICES ASSUME NEW n \in 1 .. L + 1 PROVE \E k \in 1 .. m + 1 : b[n] = c[k]
        BY <3>2 DEF FromFirst
      <4>1. CASE n = L + 1
        <5>1. b[n] = c[m + 1] /\ m + 1 \in 1 .. m + 1
          BY <2>1, <2>2, <3>2, <4>1
        <5> QED
          BY <5>1
      <4>2. CASE n \in 1 .. L
        <5>1. PICK k \in 1 .. m : a[n] = c[k]
          BY <2>1, <2>3, <4>2 DEF FromFirst
        <5>2. b[n] = c[k] /\ k \in 1 .. m + 1
          BY <2>2, <3>2, <4>2, <5>1
        <5> QED
          BY <5>2
      <4> QED
        BY <2>3, <4>1, <4>2
    <3> QED
      BY <2>2, <2>4, <2>6, <3>1, <3>2, <3>4, <3>5
  <2> QED
    BY <2>5, <2>6
<1>5. \A m \in 0 .. Len(c) : m \in T
  <2> HIDE DEF T
  <2> QED
    BY <1>0, <1>3, <1>4, CountingUp
<1>6. Good(Len(c), F[Len(c)])
  BY <1>0, <1>5
<1> QED
  BY <1>1, <1>6

\* The invariant of the scan holds at first.
LEMMA InitScanInv ==
    ASSUME Init, GraphInv
    PROVE  ScanInv
<1>1. /\ code = source /\ scan = AllocasOf(source[Entry]) /\ names = NoMap
      /\ temporary = NoMap /\ original = NoMap /\ stack = <<>> /\ DOMAIN names = {}
  BY DEF Init, NoMap
<1>2. source[Entry] \in Seq(Shaped) /\ Len(source[Entry]) \in Nat
  BY EntryAssumption, CodeOf DEF GraphInv
<1>3. /\ IsAllocas(scan)
      /\ \A n \in 1 .. Len(scan) : \E m \in 1 .. Len(source[Entry]) : scan[n] = source[Entry][m]
      /\ \A k \in 1 .. Len(source[Entry]) : source[Entry][k].op = "alloca" =>
             \E n \in 1 .. Len(scan) : scan[n] = source[Entry][k]
  BY <1>1, <1>2, AllocasFound
<1>4. Live = ScanIds
  BY <1>1 DEF Live
<1>5. AreVariables(Live)
  <2> SUFFICES ASSUME NEW n \in 1 .. Len(scan) PROVE \E x \in Names : scan[n].id = Address(x)
    BY <1>4 DEF AreVariables, ScanIds
  <2>1. scan[n] \in Shaped /\ scan[n].op = "alloca"
    BY <1>3, ElementOfSeq DEF IsAllocas
  <2> QED
    BY <2>1, ShapeOf
<1>6. ASSUME NEW m \in 1 .. Len(source[Entry]), source[Entry][m].op = "alloca"
      PROVE  source[Entry][m].id \in Live
  <2>1. PICK n \in 1 .. Len(scan) : scan[n] = source[Entry][m]
    BY <1>3, <1>6
  <2> QED
    BY <1>4, <2>1 DEF ScanIds
<1>7. ScanDistinct
  <2>1. DifferentAllocas(source[Entry])
    BY SourceAllocasDiffer DEF DifferentAllocas
  <2>2. DifferentIds(scan)
    BY <1>1, <1>2, <2>1, CollectedDiffer
  <2> QED
    BY <1>1, <2>2 DEF ScanDistinct, DifferentIds
<1>8. ASSUME NEW g \in Groups
      PROVE  /\ GroupBody(Live, Loads(source, g), Before(follows, source, g), source[g])
             /\ \A n \in 1 .. Len(source[g]) : source[g][n].op # "phi"
  BY <1>6, SourceBody
<1>9. Bodies(Live, code) /\ Memories(Live, code)
  <2> SUFFICES ASSUME NEW g \in Groups PROVE KeepsMemory(Live, source[g], source[g])
    BY <1>1, <1>8 DEF Bodies, Memories
  <2>1. AreAddresses(Live) /\ Len(source[g]) \in Nat
    BY <1>5, VariablesAreAddresses, CodeOf DEF GraphInv
  <2>2. AllDirect(Live, source[g])
    BY <1>8, BodyIsDirect
  <2> QED
    BY <2>1, <2>2, KeepsItself
<1>10. PhisKnown(DOMAIN names, original, code) /\ PhisFilled(DOMAIN names, {}, <<>>, code)
       /\ PhisSpread(DOMAIN names, code) /\ OriginalsKnown(DOMAIN names, original)
  BY <1>1, <1>8 DEF OriginalsKnown, PhisKnown, PhisFilled, PhisSpread
<1>11. AllocasOfAll(Live, code)
  <2> SUFFICES ASSUME NEW n \in 1 .. Len(scan) PROVE \E m \in 1 .. Len(code[Entry]) : code[Entry][m].id = scan[n].id
    BY <1>4 DEF AllocasOfAll, ScanIds
  <2> QED
    BY <1>1, <1>3
<1> QED
  BY <1>1, <1>5, <1>7, <1>9, <1>10, <1>11 DEF ScanInv

-----------------------------------------------------------------------------
(***************************************************************************)
(* The scan of the allocas.                                                *)
(***************************************************************************)
\* What is available is no address, and no code that is left out.
LEMMA AvailableIs ==
    ASSUME NEW K, NEW L, \A x \in L : x[1] = "code", NEW A, \A x \in A : x[1] = "code",
           NEW c, GroupBody(K, L, A, c), NEW n \in 1 .. Len(c), Len(c) \in Nat,
           NEW x, Available(A, c, n, x)
    PROVE  x[1] \in {"constant", "code"}
<1>1. CASE x[1] = "constant" \/ x \in A
  BY <1>1
<1>2. ASSUME NEW m \in 1 .. n - 1, c[m].op = "load", c[m].id = x PROVE x[1] = "code"
  <2>1. m \in 1 .. Len(c)
    OBVIOUS
  <2>2. BodyCode(K, L, A, c, m)
    BY <2>1 DEF GroupBody
  <2> QED
    BY <1>2, <2>2 DEF BodyCode
<1> QED
  BY <1>1, <1>2 DEF Available

\* The results of loads of the source are results.
LEMMA LoadsAreCodes ==
    ASSUME GraphInv, NEW g \in Groups
    PROVE  /\ \A x \in Loads(source, g) : x[1] = "code"
           /\ \A x \in Before(follows, source, g) : x[1] = "code"
<1>1. ASSUME NEW h \in Groups, NEW x \in Loads(source, h) PROVE x[1] = "code"
  BY LoadsAre
<1>2. StrictDominators(follows, g) \subseteq Groups
  BY SelfDominates DEF StrictDominators
<1> QED
  BY <1>1, <1>2 DEF Before

\* The alloca the scan is at.
LEMMA CurrentIsLive ==
    ASSUME TypeInv, ScanInv, scan # <<>>, NEW v, v = CurrentAlloca
    PROVE  /\ v \in Live /\ v \notin DOMAIN names /\ v \in Values
           /\ v[1] = "address" /\ v[2] \in Names /\ v = Address(v[2])
           /\ Len(scan) \in Nat /\ Len(Tail(scan)) = Len(scan) - 1
           /\ \A n \in 1 .. Len(Tail(scan)) : Tail(scan)[n] = scan[n + 1] /\ Tail(scan)[n].id # v
           /\ \A n \in 1 .. Len(scan) : scan[n].id = v \/ \E m \in 1 .. Len(Tail(scan)) : Tail(scan)[m] = scan[n]
<1>1. scan \in Seq(Shaped) /\ IsAllocas(scan)
  BY DEF TypeInv, IsAllocas
<1>2. Len(scan) \in Nat /\ Len(scan) >= 1 /\ v = scan[1].id
  BY <1>1, LenProperties, EmptySeq DEF CurrentAlloca
<1>3. 1 \in 1 .. Len(scan)
  BY <1>2
<1>4. v \in ScanIds /\ v \in Live /\ v \notin DOMAIN names
  BY <1>2, <1>3 DEF ScanIds, Live, ScanInv, ScanDistinct
<1>5. AreVariables(Live)
  BY DEF ScanInv
<1>6. v[1] = "address" /\ v[2] \in Names /\ v = Address(v[2])
  BY <1>4, <1>5, VariablesAre
<1>7. v \in Values
  BY <1>6, ValuesAssumption
<1>8. PICK t, L : t = Tail(scan) /\ L = Len(scan)
  OBVIOUS
<1>9. Len(t) = L - 1 /\ \A n \in 1 .. L - 1 : t[n] = scan[n + 1]
  BY <1>1, <1>2, <1>8, HeadTailProperties
<1>10. ASSUME NEW n \in 1 .. L - 1 PROVE t[n].id # v
  <2>1. n + 1 \in 1 .. L /\ n + 1 # 1
    BY <1>2, <1>8
  <2> QED
    BY <1>2, <1>3, <1>8, <1>9, <2>1 DEF ScanInv, ScanDistinct
<1>11. ASSUME NEW n \in 1 .. L, n # 1 PROVE \E m \in 1 .. L - 1 : t[m] = scan[n]
  <2>1. n - 1 \in 1 .. L - 1 /\ (n - 1) + 1 = n
    BY <1>2, <1>8, <1>11
  <2>2. t[n - 1] = scan[(n - 1) + 1]
    BY <1>9, <2>1
  <2> QED
    BY <2>1, <2>2
<1>12. \A n \in 1 .. L : scan[n].id = v \/ \E m \in 1 .. L - 1 : t[m] = scan[n]
  BY <1>2, <1>11
<1> QED
  BY <1>2, <1>4, <1>6, <1>7, <1>8, <1>9, <1>10, <1>12

\* In a function without pointers no alloca is skipped.
LEMMA NothingSkipped ==
    ASSUME TypeInv, GraphInv, ScanInv, scan # <<>>
    PROVE  CanVariableToRegister(CurrentAlloca)
<1>1. PICK v : v = CurrentAlloca
  OBVIOUS
<1>2. v[1] = "address"
  BY <1>1, CurrentIsLive
<1>3. ASSUME NEW u \in Users(v), u.op = "store" PROVE u.args[1] # v
  <2>1. PICK g \in Groups : \E n \in DOMAIN code[g] : u = code[g][n]
    BY DEF Users
  <2>2. DOMAIN code[g] = 1 .. Len(code[g]) /\ Len(code[g]) \in Nat
    BY CodeOf DEF TypeInv
  <2>3. PICK n \in 1 .. Len(code[g]) : u = code[g][n]
    BY <2>1, <2>2
  <2>4. GroupBody(Live, Loads(source, g), Before(follows, source, g), code[g])
    BY DEF ScanInv, Bodies
  <2>5. Available(Before(follows, source, g), code[g], n, u.args[1])
    BY <1>3, <2>3, <2>4 DEF GroupBody, BodyCode
  <2>6. u.args[1][1] \in {"constant", "code"}
    BY <2>2, <2>4, <2>5, AvailableIs, LoadsAreCodes
  <2> QED
    BY <1>2, <2>6
<1> QED
  BY <1>1, <1>3 DEF CanVariableToRegister

\* What is left of the codes of a group when a variable goes that is only stored to.
LEMMA LeavesBody ==
    ASSUME NEW K, NEW L, NEW A, NEW c \in Seq(Shaped), GroupBody(K, L, A, c), NEW v,
           \A n \in 1 .. Len(c) : OnlyWritten(v, c[n]),
           NEW w, NEW e, Leaves(v, c, Len(c), w, e)
    PROVE  GroupBody(K \ {v}, L, A, w)
<1>0. Len(c) \in Nat /\ Len(w) \in Nat /\ \A n \in 1 .. Len(c) : c[n] \in Shaped
  BY LenProperties, ElementOfSeq DEF Leaves
<1>1. ASSUME NEW n \in 1 .. Len(w)
      PROVE  /\ e[n] \in 1 .. Len(c) /\ w[n] = c[e[n]] /\ ~Mentions(v, w[n]) /\ w[n] \in Shaped
             /\ BodyCode(K, L, A, c, e[n])
             /\ \A k \in 1 .. Len(w) : k < n => e[k] < e[n]
             /\ \A k \in 1 .. n : e[k] \in 1 .. e[n]
  <2>1. e[n] \in 1 .. Len(c) /\ w[n] = c[e[n]] /\ ~Mentions(v, w[n])
    BY DEF Leaves
  <2>2. BodyCode(K, L, A, c, e[n])
    BY <2>1 DEF GroupBody
  <2>3. \A k \in 1 .. Len(w) : k < n => e[k] < e[n]
    BY DEF Leaves
  <2>4. ASSUME NEW k \in 1 .. n PROVE e[k] \in 1 .. e[n]
    <3>1. k \in 1 .. Len(w)
      BY <1>0
    <3>2. e[k] \in 1 .. Len(c)
      BY <3>1 DEF Leaves
    <3>3. k = n \/ e[k] < e[n]
      BY <2>3, <3>1
    <3> QED
      BY <1>0, <2>1, <3>2, <3>3
  <2> QED
    BY <1>0, <2>1, <2>2, <2>3, <2>4
<1>2. ASSUME NEW k \in 1 .. Len(c), c[k].op = "load" PROVE \E n \in 1 .. Len(w) : e[n] = k
  <2>1. ~Mentions(v, c[k])
    BY <1>2 DEF OnlyWritten
  <2> QED
    BY <2>1 DEF Leaves
<1>3. ASSUME NEW n \in 1 .. Len(w), NEW x, Available(A, c, e[n], x) PROVE Available(A, w, n, x)
  <2>1. ASSUME NEW m \in 1 .. e[n] - 1, c[m].op = "load", c[m].id = x
        PROVE  \E k \in 1 .. n - 1 : w[k].op = "load" /\ w[k].id = x
    <3>1. e[n] \in 1 .. Len(c)
      BY <1>1
    <3>2. m \in 1 .. Len(c) /\ m < e[n]
      BY <1>0, <3>1
    <3>3. PICK k \in 1 .. Len(w) : e[k] = m
      BY <1>2, <2>1, <3>2
    <3>4. w[k] = c[m] /\ (n < k => e[n] < e[k])
      BY <1>1, <3>3
    <3>5. k # n /\ ~(n < k)
      BY <3>1, <3>2, <3>3, <3>4
    <3>6. k \in 1 .. n - 1
      BY <1>0, <3>5
    <3> QED
      BY <2>1, <3>4, <3>6
  <2> QED
    BY <1>3, <2>1 DEF Available
<1>4. ASSUME NEW n \in 1 .. Len(w) PROVE BodyCode(K \ {v}, L, A, w, n)
  <2>1. PICK i : i = w[n]
    OBVIOUS
  <2>2. /\ e[n] \in 1 .. Len(c) /\ i = c[e[n]] /\ ~Mentions(v, i) /\ i \in Shaped
        /\ BodyCode(K, L, A, c, e[n])
    BY <1>1, <2>1
  <2>3. Direct(K \ {v}, i)
    BY <2>2, UnmentionedDirect DEF BodyCode
  <2>4. i.op = "store" => i.args[2] \in K \ {v} /\ Available(A, w, n, i.args[1])
    <3> HAVE i.op = "store"
    <3>1. i.args[2] \in K /\ Available(A, c, e[n], i.args[1])
      BY <2>2 DEF BodyCode
    <3>2. Len(i.args) = 2
      BY <2>2, ShapeOf
    <3>3. 2 \in 1 .. Len(i.args)
      BY <3>2
    <3>4. i.args[2] \in ToSet(i.args)
      BY <2>2, <3>3, ArgInSet
    <3> QED
      BY <1>3, <2>2, <3>1, <3>4 DEF Mentions
  <2>5. i.op = "use" => \A k \in 1 .. Len(i.args) : Available(A, w, n, i.args[k])
    BY <1>3, <2>2 DEF BodyCode
  <2>6. i.op = "phi" => \A m \in 1 .. n : w[m].op = "phi"
    <3> SUFFICES ASSUME i.op = "phi", NEW m \in 1 .. n PROVE w[m].op = "phi"
      OBVIOUS
    <3>1. m \in 1 .. Len(w) /\ e[m] \in 1 .. e[n]
      BY <1>0, <1>1
    <3>2. w[m] = c[e[m]]
      BY <1>1, <3>1
    <3> QED
      BY <2>2, <3>1, <3>2 DEF BodyCode
  <2>7. /\ i.op = "alloca" => i.args = <<>> /\ i.id \in K \ {v}
        /\ i.op = "load" => i.id \in L
        /\ i.op = "jump" => i.args = <<>>
        /\ i.op \in {"store", "use", "jump"} => i.id = Nothing
    BY <2>2 DEF BodyCode, Mentions
  <2> QED
    BY <2>1, <2>3, <2>4, <2>5, <2>6, <2>7 DEF BodyCode
<1>5. ASSUME NEW x \in L PROVE \E n \in 1 .. Len(w) : w[n].op = "load" /\ w[n].id = x
  <2>1. PICK k \in 1 .. Len(c) : c[k].op = "load" /\ c[k].id = x
    BY DEF GroupBody
  <2>2. PICK n \in 1 .. Len(w) : e[n] = k
    BY <1>2, <2>1
  <2>3. w[n] = c[k]
    BY <1>1, <2>2
  <2> QED
    BY <2>1, <2>3
<1> QED
  BY <1>4, <1>5 DEF GroupBody

\* The variables that are left when one goes.
LEMMA RemoveLive ==
    ASSUME TypeInv, ScanInv, scan # <<>>, NEW v, v = CurrentAlloca, scan' = Tail(scan), names' = names
    PROVE  Live' = Live \ {v} /\ ScanDistinct'
<1>1. /\ v \notin DOMAIN names /\ Len(scan) \in Nat /\ Len(scan') = Len(scan) - 1
      /\ \A n \in 1 .. Len(scan') : scan'[n] = scan[n + 1] /\ scan'[n].id # v
      /\ \A n \in 1 .. Len(scan) : scan[n].id = v \/ \E m \in 1 .. Len(scan') : scan'[m] = scan[n]
  BY CurrentIsLive
<1>2. \A n \in 1 .. Len(scan') : n + 1 \in 1 .. Len(scan)
  BY <1>1
<1>3. ScanIds' = ScanIds \ {v}
  BY <1>1, <1>2 DEF ScanIds
<1>4. Live' = Live \ {v}
  BY <1>1, <1>3 DEF Live
<1>5. ScanDistinct'
  <2>1. \A n \in 1 .. Len(scan') : scan'[n].id \notin DOMAIN names'
    BY <1>1, <1>2 DEF ScanInv, ScanDistinct
  <2>2. ASSUME NEW m \in 1 .. Len(scan'), NEW n \in 1 .. Len(scan'), scan'[m].id = scan'[n].id PROVE m = n
    <3>1. m + 1 \in 1 .. Len(scan) /\ n + 1 \in 1 .. Len(scan) /\ scan[m + 1].id = scan[n + 1].id
      BY <1>1, <1>2, <2>2
    <3>2. m + 1 = n + 1
      BY <3>1 DEF ScanInv, ScanDistinct
    <3> QED
      BY <1>1, <3>2
  <2> QED
    BY <2>1, <2>2 DEF ScanDistinct
<1> QED
  BY <1>4, <1>5

\* Only what writes a variable that is only stored to mentions it.
LEMMA OnlyStoresWrite ==
    ASSUME TypeInv, GraphInv, ScanInv, scan # <<>>, NEW v, v = CurrentAlloca, OnlyStores(v),
           NEW g \in Groups, NEW n \in 1 .. Len(code[g])
    PROVE  OnlyWritten(v, code[g][n])
<1>1. PICK i, K, A : i = code[g][n] /\ K = Live /\ A = Before(follows, source, g)
  OBVIOUS
<1>2. DOMAIN code[g] = 1 .. Len(code[g]) /\ Len(code[g]) \in Nat /\ i \in Shaped
  BY <1>1, CodeOf DEF TypeInv
<1>3. GroupBody(K, Loads(source, g), A, code[g])
  BY <1>1 DEF ScanInv, Bodies
<1>4. BodyCode(K, Loads(source, g), A, code[g], n)
  BY <1>3 DEF GroupBody
<1>5. v[1] = "address"
  BY CurrentIsLive
<1>6. CASE v \in ToSet(i.args)
  <2>1. i \in Users(v)
    BY <1>1, <1>2, <1>6 DEF Users
  <2>2. i.op = "store"
    BY <2>1 DEF OnlyStores
  <2>3. Len(i.args) = 2 /\ DOMAIN i.args = 1 .. Len(i.args)
    BY <1>2, <2>2, ShapeOf, ArgsOf
  <2>4. v = i.args[1] \/ v = i.args[2]
    BY <1>6, <2>3 DEF ToSet
  <2>5. Available(A, code[g], n, i.args[1])
    BY <1>1, <1>4, <2>2 DEF BodyCode
  <2>6. i.args[1][1] \in {"constant", "code"}
    BY <1>1, <1>2, <1>3, <2>5, AvailableIs, LoadsAreCodes
  <2> QED
    BY <1>1, <1>5, <2>2, <2>4, <2>6 DEF OnlyWritten
<1>7. CASE i.id = v
  <2>1. i.op # "load"
    <3>1. i.op = "load" => i.id \in Loads(source, g)
      BY <1>1, <1>4 DEF BodyCode
    <3> QED
      BY <1>5, <1>7, <3>1, LoadsAreCodes
  <2>2. i.op \notin {"store", "use", "jump"}
    BY <1>1, <1>4, <1>5, <1>7 DEF BodyCode, Nothing
  <2>3. i.op # "phi"
    BY <1>2, <1>5, <1>7, ShapeOf
  <2>4. i.op \in {"alloca", "load", "store", "use", "jump", "phi"}
    BY <1>1, <1>4 DEF BodyCode, Direct
  <2> QED
    BY <1>1, <2>1, <2>2, <2>3, <2>4 DEF OnlyWritten
<1> QED
  BY <1>1, <1>6, <1>7 DEF OnlyWritten, Mentions

\* The phis of the other variables stay when a variable goes.
LEMMA PhisDoNotMention ==
    ASSUME TypeInv, GraphInv, ScanInv, scan # <<>>, NEW v, v = CurrentAlloca,
           NEW g \in Groups, NEW n \in 1 .. Len(code[g]), code[g][n].op = "phi"
    PROVE  ~Mentions(v, code[g][n])
<1>1. PICK i : i = code[g][n]
  OBVIOUS
<1>2. i \in Shaped /\ i.id[1] = "phi"
  BY <1>1, CodeOf, ShapeOf DEF TypeInv
<1>3. v \notin DOMAIN names /\ v[1] = "address"
  BY CurrentIsLive
<1>4. PhiKnown(g, DOMAIN names, original, i)
  BY <1>1 DEF ScanInv, PhisKnown
<1>5. PICK u \in DOMAIN names : i.id = PhiOf(g, u[2])
  BY <1>4 DEF PhiKnown
<1>6. PhiFilled(g, DOMAIN names, {}, <<>>, i)
  BY <1>1 DEF ScanInv, PhisFilled
<1>7. \A k \in 1 .. Len(precedes[g]) : i.args[k] = u
  BY <1>5, <1>6 DEF PhiFilled, SourceFor
<1>8. DOMAIN i.args = 1 .. Len(i.args) /\ Len(i.args) = Len(precedes[g])
  BY <1>2, <1>4, ArgsOf DEF PhiKnown
<1>9. v \notin ToSet(i.args)
  BY <1>3, <1>5, <1>7, <1>8 DEF ToSet
<1> QED
  BY <1>1, <1>2, <1>3, <1>9 DEF Mentions

\* TryRemoveAllocIfStoreOnly keeps the invariant.
LEMMA RemoveScanInv ==
    ASSUME TypeInv, GraphInv, ScanInv, RemoveAlloca
    PROVE  ScanInv'
<1>1. PICK v : v = CurrentAlloca
  OBVIOUS
<1>2. /\ scan # <<>> /\ OnlyStores(v) /\ scan' = Tail(scan) /\ code' = [g \in Groups |-> Without(v, code[g])]
      /\ names' = names /\ stack' = stack /\ temporary' = temporary /\ original' = original
      /\ source' = source /\ follows' = follows /\ precedes' = precedes
  BY <1>1 DEF RemoveAlloca, graph, maps
<1>3. Live' = Live \ {v} /\ ScanDistinct'
  BY <1>1, <1>2, RemoveLive
<1>4. v \notin DOMAIN names /\ v[1] = "address"
  BY <1>1, <1>2, CurrentIsLive
<1>5. AreVariables(Live) /\ AreAddresses(Live)
  BY VariablesAreAddresses DEF ScanInv
<1>6. ASSUME NEW g \in Groups
      PROVE  /\ \E e : Leaves(v, code[g], Len(code[g]), code'[g], e)
             /\ code[g] \in Seq(Shaped) /\ Len(code[g]) \in Nat
             /\ \A n \in 1 .. Len(code[g]) : OnlyWritten(v, code[g][n])
             /\ GroupBody(Live, Loads(source, g), Before(follows, source, g), code[g])
  BY <1>1, <1>2, CodeOf, WithoutIs, OnlyStoresWrite DEF TypeInv, ScanInv, Bodies
<1>7. ASSUME NEW g \in Groups, NEW n \in 1 .. Len(code'[g])
      PROVE  \E m \in 1 .. Len(code[g]) : code'[g][n] = code[g][m]
  <2>1. PICK e : Leaves(v, code[g], Len(code[g]), code'[g], e)
    BY <1>6
  <2> QED
    BY <2>1 DEF Leaves
<1>8. ASSUME NEW g \in Groups, NEW m \in 1 .. Len(code[g]), ~Mentions(v, code[g][m])
      PROVE  \E n \in 1 .. Len(code'[g]) : code'[g][n] = code[g][m]
  <2>1. PICK e : Leaves(v, code[g], Len(code[g]), code'[g], e)
    BY <1>6
  <2>2. PICK n \in 1 .. Len(code'[g]) : e[n] = m
    BY <1>8, <2>1 DEF Leaves
  <2>3. code'[g][n] = code[g][m]
    BY <2>1, <2>2 DEF Leaves
  <2> QED
    BY <2>3
<1>9. Bodies(Live, code)'
  <2> SUFFICES ASSUME NEW g \in Groups
               PROVE  GroupBody(Live \ {v}, Loads(source, g), Before(follows, source, g), code'[g])
    BY <1>2, <1>3 DEF Bodies
  <2> QED
    BY <1>6, LeavesBody
<1>10. PhisKnown(DOMAIN names, original, code)'
  <2> SUFFICES ASSUME NEW g \in Groups, NEW n \in 1 .. Len(code'[g]), code'[g][n].op = "phi"
               PROVE  PhiKnown(g, DOMAIN names, original, code'[g][n])
    BY <1>2 DEF PhisKnown, PhiKnown
  <2>1. PICK m \in 1 .. Len(code[g]) : code'[g][n] = code[g][m]
    BY <1>7
  <2>2. PhiKnown(g, DOMAIN names, original, code[g][m])
    BY <2>1 DEF ScanInv, PhisKnown
  <2> QED
    BY <1>2, <2>1, <2>2 DEF PhiKnown
<1>11. PhisFilled(DOMAIN names, {}, <<>>, code)'
  <2> SUFFICES ASSUME NEW g \in Groups, NEW n \in 1 .. Len(code'[g]), code'[g][n].op = "phi"
               PROVE  PhiFilled(g, DOMAIN names, {}, <<>>, code'[g][n])
    BY <1>2 DEF PhisFilled, PhiFilled
  <2>1. PICK m \in 1 .. Len(code[g]) : code'[g][n] = code[g][m]
    BY <1>7
  <2>2. PhiFilled(g, DOMAIN names, {}, <<>>, code[g][m])
    BY <2>1 DEF ScanInv, PhisFilled
  <2> QED
    BY <1>2, <2>1, <2>2 DEF PhiFilled
<1>12. ASSUME NEW g \in Groups, NEW u \in DOMAIN names
       PROVE  /\ HasPhi(code, g, u) => HasPhi(code', g, u)
              /\ HasPhi(code', g, u) => HasPhi(code, g, u)
              /\ HasStore(code', g, u) => HasStore(code, g, u)
  <2>1. ASSUME NEW n \in 1 .. Len(code[g]), IsPhiFor(g, u, code[g][n]) PROVE HasPhi(code', g, u)
    <3>1. ~Mentions(v, code[g][n])
      BY <1>1, <1>2, <2>1, PhisDoNotMention DEF IsPhiFor
    <3> QED
      BY <1>8, <2>1, <3>1 DEF HasPhi
  <2> QED
    BY <1>7, <2>1 DEF HasPhi, HasStore
<1>13. PhisSpread(DOMAIN names, code)'
  <2> SUFFICES ASSUME NEW g \in Groups, NEW u \in DOMAIN names, HasPhi(code', g, u) \/ HasStore(code', g, u)
               PROVE  \A y \in Frontier(follows, g) : HasPhi(code', y, u)
    BY <1>2 DEF PhisSpread, Spreads
  <2>1. Spreads(code, g, u)
    BY <1>12 DEF ScanInv, PhisSpread
  <2>2. Frontier(follows, g) \subseteq Groups
    BY FrontierIs
  <2> QED
    BY <1>12, <2>1, <2>2 DEF Spreads
<1>14. AllocasOfAll(Live, code)'
  <2> SUFFICES ASSUME NEW u \in Live, u # v PROVE \E n \in 1 .. Len(code'[Entry]) : code'[Entry][n].id = u
    BY <1>3 DEF AllocasOfAll
  <2>1. PICK m \in 1 .. Len(code[Entry]) : code[Entry][m].id = u
    BY DEF ScanInv, AllocasOfAll
  <2>2. OnlyWritten(v, code[Entry][m]) /\ BodyCode(Live, Loads(source, Entry), Before(follows, source, Entry), code[Entry], m)
    BY <1>6, EntryAssumption DEF GroupBody
  <2>3. u[1] = "address"
    BY <1>5 DEF AreAddresses
  <2>4. ~Mentions(v, code[Entry][m])
    <3> SUFFICES ASSUME Mentions(v, code[Entry][m]) PROVE FALSE
      OBVIOUS
    <3>1. code[Entry][m].op = "alloca" \/ code[Entry][m].op = "store"
      BY <2>2 DEF OnlyWritten
    <3>2. code[Entry][m].op # "store"
      BY <2>1, <2>2, <2>3 DEF BodyCode, Nothing
    <3>3. code[Entry][m].args = <<>>
      BY <2>2, <3>1, <3>2 DEF BodyCode
    <3> QED
      BY <2>1, <3>3 DEF Mentions, ToSet
  <2> QED
    BY <1>8, <2>1, <2>4, EntryAssumption
<1>15. Memories(Live, code)'
  <2> SUFFICES ASSUME NEW g \in Groups, NEW r, IsRun(r)
               PROVE  SameRun(Live \ {v}, RunCodes(r, source[g]), RunCodes(r, code'[g]))
    BY <1>2, <1>3 DEF Memories, KeepsMemory
  <2>1. SameRun(Live, RunCodes(r, source[g]), RunCodes(r, code[g]))
    BY DEF ScanInv, Memories, KeepsMemory
  <2>2. AllDirect(Live, code[g])
    BY <1>6, BodyIsDirect
  <2>3. SameRun(Live \ {v}, RunCodes(r, code[g]), RunCodes(r, Without(v, code[g])))
    BY <1>5, <1>6, <2>2, WithoutSame
  <2>4. code'[g] = Without(v, code[g])
    BY <1>2
  <2> QED
    BY <2>1, <2>3, <2>4, SameIsTransitive
<1>16. AreVariables(Live)'
  BY <1>3, <1>5 DEF AreVariables
<1>17. OriginalsKnown(DOMAIN names, original)'
  BY <1>2 DEF ScanInv, OriginalsKnown
<1> QED
  BY <1>17, <1>2, <1>3, <1>9, <1>10, <1>11, <1>13, <1>14, <1>15, <1>16 DEF ScanInv

\* The groups a variable gets a phi in: closed under the frontier, and without the
\* entry, which nothing jumps to.
LEMMA JoinsAre ==
    ASSUME TypeInv, GraphInv, NEW v
    PROVE  /\ Joins(v) \subseteq Groups /\ Entry \notin Joins(v)
           /\ \A g \in Joins(v) \cup StoresTo(v) : Frontier(follows, g) \subseteq Joins(v)
<1>1. Joins(v) \subseteq Groups
  BY DEF Joins, IteratedFrontier
<1>2. StoresTo(v) \subseteq Groups
  BY DEF StoresTo
<1>3. \A g \in Groups : frontier[g] = Frontier(follows, g)
  BY DEF GraphInv
<1>4. Entry \notin Joins(v)
  <2>1. ASSUME NEW g \in Groups PROVE Frontier(follows, g) \subseteq Groups \ {Entry}
    <3>1. ASSUME NEW p \in Groups PROVE Entry \notin Successors(follows, p)
      BY <3>1 DEF GraphInv, IsFunction, Predecessors
    <3> QED
      BY <3>1, FrontierIs
  <2>2. ClosedUnder(frontier, StoresTo(v), Groups \ {Entry})
    BY <1>2, <1>3, <2>1 DEF ClosedUnder
  <2> QED
    BY <2>2 DEF Joins, IteratedFrontier
<1>5. ASSUME NEW g \in Joins(v) \cup StoresTo(v), NEW y \in Frontier(follows, g) PROVE y \in Joins(v)
  <2>1. g \in Groups /\ y \in Groups
    BY <1>1, <1>2, FrontierIs
  <2>2. ASSUME NEW S \in SUBSET Groups, ClosedUnder(frontier, StoresTo(v), S) PROVE y \in S
    <3>1. g \in StoresTo(v) \cup S
      BY <2>2 DEF Joins, IteratedFrontier
    <3> QED
      BY <1>3, <2>1, <2>2, <3>1 DEF ClosedUnder
  <2> QED
    BY <2>1, <2>2 DEF Joins, IteratedFrontier
<1> QED
  BY <1>1, <1>4, <1>5

\* Codes with a phi in front.
LEMMA PrependIs ==
    ASSUME NEW c \in Seq(Shaped), NEW i \in Shaped, NEW d, d = <<i>> \o c
    PROVE  /\ Len(c) \in Nat /\ Len(d) = Len(c) + 1 /\ d[1] = i
           /\ \A n \in 1 .. Len(c) : n + 1 \in 1 .. Len(d) /\ d[n + 1] = c[n]
           /\ \A n \in 1 .. Len(d) : n = 1 \/ (n - 1 \in 1 .. Len(c) /\ d[n] = c[n - 1])
<1>1. PICK L : L = Len(c)
  OBVIOUS
<1>2. <<i>> \in Seq(Shaped) /\ Len(<<i>>) = 1 /\ <<i>>[1] = i
  OBVIOUS
<1>3. L \in Nat /\ Len(d) = L + 1
  BY <1>1, <1>2, LenProperties, ConcatProperties
<1>4. d[1] = i
  BY <1>2, <1>3, ConcatProperties
<1>5. ASSUME NEW n \in 1 .. L PROVE d[n + 1] = c[n]
  <2>1. n + 1 \in Len(<<i>>) + 1 .. Len(<<i>>) + Len(c) /\ (n + 1) - Len(<<i>>) = n
    BY <1>1, <1>2, <1>3
  <2> QED
    BY <1>2, <2>1, ConcatProperties
<1>6. ASSUME NEW n \in 1 .. L + 1, n # 1 PROVE n - 1 \in 1 .. L /\ d[n] = c[n - 1]
  <2>1. n - 1 \in 1 .. L /\ (n - 1) + 1 = n
    BY <1>3, <1>6
  <2>2. d[(n - 1) + 1] = c[n - 1]
    BY <1>5, <2>1
  <2> QED
    BY <2>1, <2>2
<1>7. \A n \in 1 .. L : n + 1 \in 1 .. L + 1
  BY <1>3
<1> QED
  BY <1>1, <1>3, <1>4, <1>5, <1>6, <1>7

\* A phi in front of the codes of a group leaves them what they are.
LEMMA PrependBody ==
    ASSUME NEW K, NEW L, NEW A, NEW c \in Seq(Shaped), GroupBody(K, L, A, c), NEW i \in Shaped, i.op = "phi",
           NEW d, d = <<i>> \o c
    PROVE  GroupBody(K, L, A, d)
<1>1. /\ Len(c) \in Nat /\ Len(d) = Len(c) + 1 /\ d[1] = i
      /\ \A n \in 1 .. Len(c) : n + 1 \in 1 .. Len(d) /\ d[n + 1] = c[n]
      /\ \A n \in 1 .. Len(d) : n = 1 \/ (n - 1 \in 1 .. Len(c) /\ d[n] = c[n - 1])
  BY PrependIs
<1>2. ASSUME NEW n \in 1 .. Len(c), NEW x, Available(A, c, n, x) PROVE Available(A, d, n + 1, x)
  <2>1. ASSUME NEW m \in 1 .. n - 1, c[m].op = "load", c[m].id = x
        PROVE  \E k \in 1 .. (n + 1) - 1 : d[k].op = "load" /\ d[k].id = x
    <3>1. m + 1 \in 1 .. (n + 1) - 1 /\ m \in 1 .. Len(c)
      BY <1>1
    <3>2. d[m + 1] = c[m]
      BY <1>1, <3>1
    <3> QED
      BY <2>1, <3>1, <3>2
  <2> QED
    BY <1>2, <2>1 DEF Available
<1>3. BodyCode(K, L, A, d, 1)
  BY <1>1 DEF BodyCode, Direct
<1>4. ASSUME NEW n \in 1 .. Len(c) PROVE BodyCode(K, L, A, d, n + 1)
  <2>1. PICK j : j = c[n] /\ j = d[n + 1]
    BY <1>1
  <2>2. BodyCode(K, L, A, c, n)
    BY DEF GroupBody
  <2>3. j.op = "phi" => \A m \in 1 .. n + 1 : d[m].op = "phi"
    <3> SUFFICES ASSUME j.op = "phi", NEW m \in 1 .. n + 1 PROVE d[m].op = "phi"
      OBVIOUS
    <3>1. CASE m = 1
      BY <1>1, <3>1
    <3>2. CASE m # 1
      <4>1. m - 1 \in 1 .. n /\ m \in 1 .. Len(d)
        BY <1>1, <3>2
      <4>2. d[m] = c[m - 1]
        BY <1>1, <3>2, <4>1
      <4> QED
        BY <2>1, <2>2, <4>1, <4>2 DEF BodyCode
    <3> QED
      BY <3>1, <3>2
  <2>4. j.op = "store" => Available(A, d, n + 1, j.args[1])
    BY <1>2, <2>1, <2>2 DEF BodyCode
  <2>5. j.op = "use" => \A k \in 1 .. Len(j.args) : Available(A, d, n + 1, j.args[k])
    BY <1>2, <2>1, <2>2 DEF BodyCode
  <2> QED
    BY <2>1, <2>2, <2>3, <2>4, <2>5 DEF BodyCode
<1>5. ASSUME NEW n \in 1 .. Len(d) PROVE BodyCode(K, L, A, d, n)
  <2>1. CASE n = 1
    BY <1>3, <2>1
  <2>2. CASE n # 1
    <3>1. n - 1 \in 1 .. Len(c) /\ (n - 1) + 1 = n
      BY <1>1, <2>2
    <3>2. BodyCode(K, L, A, d, (n - 1) + 1)
      BY <1>4, <3>1
    <3> QED
      BY <3>1, <3>2
  <2> QED
    BY <2>1, <2>2
<1>6. ASSUME NEW x \in L PROVE \E n \in 1 .. Len(d) : d[n].op = "load" /\ d[n].id = x
  <2>1. PICK n \in 1 .. Len(c) : c[n].op = "load" /\ c[n].id = x
    BY DEF GroupBody
  <2> QED
    BY <1>1, <2>1
<1> QED
  BY <1>5, <1>6 DEF GroupBody

\* The variables when one gets its phis.
LEMMA InsertLive ==
    ASSUME TypeInv, ScanInv, scan # <<>>, NEW v, v = CurrentAlloca, scan' = Tail(scan), NEW y, names' = With(names, v, y)
    PROVE  /\ Live' = Live /\ ScanDistinct' /\ DOMAIN names' = DOMAIN names \cup {v}
           /\ names'[v] = y /\ \A u \in DOMAIN names : u # v /\ names'[u] = names[u]
<1>1. /\ v \notin DOMAIN names /\ v \in Live /\ Len(scan) \in Nat /\ Len(scan') = Len(scan) - 1
      /\ \A n \in 1 .. Len(scan') : scan'[n] = scan[n + 1] /\ scan'[n].id # v
      /\ \A n \in 1 .. Len(scan) : scan[n].id = v \/ \E m \in 1 .. Len(scan') : scan'[m] = scan[n]
  BY CurrentIsLive
<1>2. \A n \in 1 .. Len(scan') : n + 1 \in 1 .. Len(scan)
  BY <1>1
<1>3. /\ DOMAIN names' = DOMAIN names \cup {v}
      /\ names'[v] = y /\ \A u \in DOMAIN names : u # v /\ names'[u] = names[u]
  BY <1>1 DEF With
<1>4. Live' = Live
  <2>1. ScanIds' \subseteq ScanIds /\ ScanIds \subseteq ScanIds' \cup {v}
    BY <1>1, <1>2 DEF ScanIds
  <2> QED
    BY <1>1, <1>3, <2>1 DEF Live
<1>5. ScanDistinct'
  <2>1. \A n \in 1 .. Len(scan') : scan'[n].id \notin DOMAIN names'
    BY <1>1, <1>2, <1>3 DEF ScanInv, ScanDistinct
  <2>2. ASSUME NEW m \in 1 .. Len(scan'), NEW n \in 1 .. Len(scan'), scan'[m].id = scan'[n].id PROVE m = n
    <3>1. m + 1 \in 1 .. Len(scan) /\ n + 1 \in 1 .. Len(scan) /\ scan[m + 1].id = scan[n + 1].id
      BY <1>1, <1>2, <2>2
    <3>2. m + 1 = n + 1
      BY <3>1 DEF ScanInv, ScanDistinct
    <3> QED
      BY <1>1, <3>2
  <2> QED
    BY <2>1, <2>2 DEF ScanDistinct
<1> QED
  BY <1>3, <1>4, <1>5

\* VariableMemoryToRegister keeps the invariant.
LEMMA InsertScanInv ==
    ASSUME TypeInv, GraphInv, ScanInv, InsertPhis
    PROVE  ScanInv'
<1>1. PICK v : v = CurrentAlloca
  OBVIOUS
<1>2. /\ scan # <<>> /\ scan' = Tail(scan) /\ stack' = stack /\ temporary' = temporary
      /\ source' = source /\ follows' = follows /\ precedes' = precedes /\ PhisInserted(v)
  BY <1>1, InsertIs DEF InsertPhis, graph
<1>3. PICK J : J = Joins(v)
  OBVIOUS
<1>4. /\ v \notin DOMAIN names /\ v \in Live /\ v \in Values
      /\ v[1] = "address" /\ v[2] \in Names /\ v = Address(v[2])
  BY <1>1, <1>2, CurrentIsLive
<1>5. /\ code' = [g \in Groups |-> IF g \in J THEN <<NewPhi(g, v)>> \o code[g] ELSE code[g]]
      /\ original' = [x \in DOMAIN original \cup {PhiOf(g, v[2]) : g \in J} |->
                          IF x \in DOMAIN original THEN original[x] ELSE v]
      /\ names' = With(names, v, <<Undef(v[2])>>)
  BY <1>2, <1>3 DEF PhisInserted
<1>6. /\ Live' = Live /\ ScanDistinct' /\ DOMAIN names' = DOMAIN names \cup {v}
      /\ names'[v] = <<Undef(v[2])>> /\ \A u \in DOMAIN names : u # v /\ names'[u] = names[u]
  BY <1>1, <1>2, <1>5, InsertLive
<1>7. J \subseteq Groups /\ Entry \notin J /\ \A g \in J \cup StoresTo(v) : Frontier(follows, g) \subseteq J
  BY <1>3, JoinsAre
<1>8. AreVariables(Live) /\ AreAddresses(Live)
  BY VariablesAreAddresses DEF ScanInv
<1>9. ASSUME NEW g \in Groups
      PROVE  /\ code[g] \in Seq(Shaped) /\ Len(code[g]) \in Nat
             /\ GroupBody(Live, Loads(source, g), Before(follows, source, g), code[g])
             /\ NewPhi(g, v) \in Shaped /\ NewPhi(g, v).op = "phi" /\ NewPhi(g, v).id = PhiOf(g, v[2])
             /\ Len(NewPhi(g, v).args) = Len(precedes[g])
             /\ \A k \in 1 .. Len(precedes[g]) : NewPhi(g, v).args[k] = v
  <2>1. PICK x, i, L : x = v[2] /\ i = NewPhi(g, v) /\ L = Len(precedes[g])
    OBVIOUS
  <2>8. x \in Names /\ v = Address(x) /\ v \in Values
    BY <1>4, <2>1
  <2>9. /\ NewPhi(g, v) \in Shaped /\ NewPhi(g, v).op = "phi" /\ NewPhi(g, v).id = PhiOf(g, x)
        /\ NewPhi(g, v).args = [k \in 1 .. Len(precedes[g]) |-> v] /\ Len(precedes[g]) \in Nat
    BY <2>8, NewPhiIs
  <2>2. /\ i \in Shaped /\ i.op = "phi" /\ i.id = PhiOf(g, x)
        /\ i.args = [k \in 1 .. Len(precedes[g]) |-> v] /\ Len(precedes[g]) \in Nat
    BY <2>1, <2>9
  <2>3. i.args = [k \in 1 .. L |-> v] /\ L \in Nat
    BY <2>1, <2>2
  <2>4. Len(i.args) \in Nat /\ DOMAIN i.args = 1 .. Len(i.args)
    BY <2>2, ArgsOf
  <2>5. Len(i.args) = L /\ \A k \in 1 .. L : i.args[k] = v
    BY <2>3, <2>4
  <2>6. code[g] \in Seq(Shaped) /\ Len(code[g]) \in Nat
    BY CodeOf DEF TypeInv
  <2>7. GroupBody(Live, Loads(source, g), Before(follows, source, g), code[g])
    BY DEF ScanInv, Bodies
  <2> QED
    BY <2>1, <2>2, <2>5, <2>6, <2>7
<1>10. ASSUME NEW g \in Groups, NEW n \in 1 .. Len(code'[g])
       PROVE  \/ g \in J /\ code'[g][n] = NewPhi(g, v)
              \/ \E m \in 1 .. Len(code[g]) : code'[g][n] = code[g][m]
  <2>1. CASE g \in J
    <3>1. code'[g] = <<NewPhi(g, v)>> \o code[g]
      BY <1>5, <2>1
    <3> QED
      BY <1>9, <2>1, <3>1, PrependIs
  <2>2. CASE g \notin J
    BY <1>5, <2>2
  <2> QED
    BY <2>1, <2>2
<1>11. ASSUME NEW g \in Groups, NEW m \in 1 .. Len(code[g])
       PROVE  \E n \in 1 .. Len(code'[g]) : code'[g][n] = code[g][m]
  <2>1. CASE g \in J
    <3>1. code'[g] = <<NewPhi(g, v)>> \o code[g]
      BY <1>5, <2>1
    <3>2. m + 1 \in 1 .. Len(code'[g]) /\ code'[g][m + 1] = code[g][m]
      BY <1>9, <3>1, PrependIs
    <3> QED
      BY <3>2
  <2>2. CASE g \notin J
    BY <1>5, <2>2
  <2> QED
    BY <2>1, <2>2
<1>12. ASSUME NEW g \in J PROVE \E n \in 1 .. Len(code'[g]) : code'[g][n] = NewPhi(g, v)
  <2>1. g \in Groups /\ code'[g] = <<NewPhi(g, v)>> \o code[g]
    BY <1>5, <1>7
  <2>2. Len(code[g]) \in Nat /\ Len(code'[g]) = Len(code[g]) + 1 /\ code'[g][1] = NewPhi(g, v)
    BY <1>9, <2>1, PrependIs
  <2>3. 1 \in 1 .. Len(code'[g])
    BY <2>2
  <2> QED
    BY <2>2, <2>3
<1>13. Bodies(Live, code)'
  <2> SUFFICES ASSUME NEW g \in Groups
               PROVE  GroupBody(Live, Loads(source, g), Before(follows, source, g), code'[g])
    BY <1>2, <1>6 DEF Bodies
  <2>1. CASE g \in J
    <3>1. code'[g] = <<NewPhi(g, v)>> \o code[g]
      BY <1>5, <2>1
    <3> QED
      BY <1>9, <3>1, PrependBody
  <2>2. CASE g \notin J
    <3>1. code'[g] = code[g]
      BY <1>5, <2>2
    <3> QED
      BY <1>9, <3>1
  <2> QED
    BY <2>1, <2>2
<1>14. OriginalsKnown(DOMAIN names, original)'
  <2> SUFFICES ASSUME NEW x \in DOMAIN original'
               PROVE  \E u \in DOMAIN names' : x[3] = u[2] /\ original'[x] = u
    BY DEF OriginalsKnown
  <2>1. CASE x \in DOMAIN original
    <3>1. original'[x] = original[x]
      BY <1>5, <2>1
    <3>2. PICK u \in DOMAIN names : x[3] = u[2] /\ original[x] = u
      BY <2>1 DEF ScanInv, OriginalsKnown
    <3> QED
      BY <1>6, <3>1, <3>2
  <2>2. CASE x \notin DOMAIN original
    <3>1. original'[x] = v
      BY <1>5, <2>2
    <3>2. PICK g \in J : x = PhiOf(g, v[2])
      BY <1>5, <2>2
    <3>3. x[3] = v[2]
      BY <3>2 DEF PhiOf
    <3> QED
      BY <1>6, <3>1, <3>3
  <2> QED
    BY <2>1, <2>2
<1>15. ASSUME NEW g \in J PROVE PhiOf(g, v[2]) \in DOMAIN original' /\ original'[PhiOf(g, v[2])] = v
  <2>1. PICK x : x = PhiOf(g, v[2])
    OBVIOUS
  <2>2. x \in DOMAIN original'
    BY <1>5, <2>1
  <2>3. PICK u \in DOMAIN names' : x[3] = u[2] /\ original'[x] = u
    BY <1>14, <2>2 DEF OriginalsKnown
  <2>4. x[3] = v[2]
    BY <2>1 DEF PhiOf
  <2>5. u \in Live
    BY <1>4, <1>6, <2>3 DEF Live
  <2>6. u = Address(u[2])
    BY <1>8, <2>5, VariablesAre
  <2> QED
    BY <1>4, <2>1, <2>2, <2>3, <2>4, <2>6
<1>16. PhisKnown(DOMAIN names, original, code)'
  <2> SUFFICES ASSUME NEW g \in Groups, NEW n \in 1 .. Len(code'[g]), code'[g][n].op = "phi"
               PROVE  PhiKnown(g, DOMAIN names', original', code'[g][n])
    BY <1>2 DEF PhisKnown, PhiKnown
  <2>1. CASE g \in J /\ code'[g][n] = NewPhi(g, v)
    <3>1. g # Entry /\ Len(NewPhi(g, v).args) = Len(precedes[g])
      BY <1>7, <1>9, <2>1
    <3>2. NewPhi(g, v).id = PhiOf(g, v[2])
      BY <1>9
    <3> QED
      BY <1>6, <1>15, <2>1, <3>1, <3>2 DEF PhiKnown
  <2>2. ASSUME NEW m \in 1 .. Len(code[g]), code'[g][n] = code[g][m] PROVE PhiKnown(g, DOMAIN names', original', code'[g][n])
    <3>1. PhiKnown(g, DOMAIN names, original, code[g][m])
      BY <2>2 DEF ScanInv, PhisKnown
    <3> QED
      BY <1>5, <1>6, <2>2, <3>1 DEF PhiKnown
  <2> QED
    BY <1>10, <2>1, <2>2
<1>17. PhisFilled(DOMAIN names, {}, <<>>, code)'
  <2> SUFFICES ASSUME NEW g \in Groups, NEW n \in 1 .. Len(code'[g]), code'[g][n].op = "phi",
                      NEW u \in DOMAIN names', code'[g][n].id = PhiOf(g, u[2]), NEW k \in 1 .. Len(precedes[g])
               PROVE  code'[g][n].args[k] = u
    BY <1>2 DEF PhisFilled, PhiFilled, SourceFor
  <2>1. u \in Live /\ u = Address(u[2])
    BY <1>4, <1>6, <1>8, VariablesAre DEF Live
  <2>2. CASE code'[g][n] = NewPhi(g, v)
    <3>1. u[2] = v[2]
      <4>1. PhiOf(g, u[2]) = PhiOf(g, v[2])
        BY <1>9, <2>2
      <4> QED
        BY <4>1 DEF PhiOf
    <3> QED
      BY <1>4, <1>9, <2>1, <2>2, <3>1
  <2>3. ASSUME NEW m \in 1 .. Len(code[g]), code'[g][n] = code[g][m] PROVE code'[g][n].args[k] = u
    <3>1. PhiKnown(g, DOMAIN names, original, code[g][m]) /\ PhiFilled(g, DOMAIN names, {}, <<>>, code[g][m])
      BY <2>3 DEF ScanInv, PhisKnown, PhisFilled
    <3>2. PICK w \in DOMAIN names : code[g][m].id = PhiOf(g, w[2])
      BY <3>1 DEF PhiKnown
    <3>3. w = Address(w[2]) /\ w[2] = u[2]
      BY <1>8, <2>3, <3>2, VariablesAre DEF Live, PhiOf
    <3> QED
      BY <2>1, <2>3, <3>1, <3>2, <3>3 DEF PhiFilled, SourceFor
  <2> QED
    BY <1>10, <2>2, <2>3
<1>18. ASSUME NEW g \in Groups, NEW u \in DOMAIN names
       PROVE  /\ HasPhi(code, g, u) => HasPhi(code', g, u)
              /\ HasPhi(code', g, u) => HasPhi(code, g, u)
              /\ HasStore(code', g, u) => HasStore(code, g, u)
  <2>1. ASSUME NEW n \in 1 .. Len(code'[g]), IsPhiFor(g, u, code'[g][n]) PROVE HasPhi(code, g, u)
    <3>1. u # v /\ u = Address(u[2])
      BY <1>6, <1>8, VariablesAre DEF Live
    <3>2. code'[g][n] # NewPhi(g, v)
      <4> SUFFICES ASSUME code'[g][n] = NewPhi(g, v) PROVE FALSE
        OBVIOUS
      <4>1. PhiOf(g, u[2]) = PhiOf(g, v[2])
        BY <1>9, <2>1 DEF IsPhiFor
      <4>2. u[2] = v[2]
        BY <4>1 DEF PhiOf
      <4> QED
        BY <1>4, <3>1, <4>2
    <3> QED
      BY <1>10, <2>1, <3>2 DEF HasPhi
  <2>2. ASSUME NEW n \in 1 .. Len(code'[g]), code'[g][n].op = "store", code'[g][n].args[2] = u PROVE HasStore(code, g, u)
    <3>1. code'[g][n] # NewPhi(g, v)
      BY <1>9, <2>2
    <3> QED
      BY <1>10, <2>2, <3>1 DEF HasStore
  <2> QED
    BY <1>11, <2>1, <2>2 DEF HasPhi, HasStore
<1>19. ASSUME NEW g \in Groups, HasPhi(code', g, v) \/ HasStore(code', g, v) PROVE g \in J \cup StoresTo(v)
  <2>1. ASSUME NEW n \in 1 .. Len(code'[g]), IsPhiFor(g, v, code'[g][n]) PROVE g \in J
    <3> SUFFICES ASSUME NEW m \in 1 .. Len(code[g]), code'[g][n] = code[g][m] PROVE FALSE
      BY <1>10
    <3>1. PhiKnown(g, DOMAIN names, original, code[g][m])
      BY <2>1 DEF ScanInv, PhisKnown, IsPhiFor
    <3>2. PICK w \in DOMAIN names : code[g][m].id = PhiOf(g, w[2])
      BY <3>1 DEF PhiKnown
    <3>3. w = Address(w[2]) /\ w[2] = v[2]
      BY <1>8, <2>1, <3>2, VariablesAre DEF Live, PhiOf, IsPhiFor
    <3> QED
      BY <1>4, <3>3
  <2>2. ASSUME NEW n \in 1 .. Len(code'[g]), code'[g][n].op = "store", code'[g][n].args[2] = v PROVE g \in StoresTo(v)
    <3>1. code'[g][n] # NewPhi(g, v)
      BY <1>9, <2>2
    <3>2. PICK m \in 1 .. Len(code[g]) : code'[g][n] = code[g][m]
      BY <1>10, <3>1
    <3>3. m \in DOMAIN code[g]
      BY CodeOf DEF TypeInv
    <3> QED
      BY <2>2, <3>2, <3>3 DEF StoresTo
  <2> QED
    BY <1>19, <2>1, <2>2 DEF HasPhi, HasStore
<1>20. PhisSpread(DOMAIN names, code)'
  <2> SUFFICES ASSUME NEW g \in Groups, NEW u \in DOMAIN names', HasPhi(code', g, u) \/ HasStore(code', g, u),
                      NEW y \in Frontier(follows, g)
               PROVE  HasPhi(code', y, u)
    BY <1>2 DEF PhisSpread, Spreads
  <2>1. y \in Groups
    BY FrontierIs
  <2>2. CASE u = v
    <3>1. y \in J
      BY <1>7, <1>19, <2>2
    <3>2. PICK n \in 1 .. Len(code'[y]) : code'[y][n] = NewPhi(y, v)
      BY <1>12, <3>1
    <3>3. IsPhiFor(y, v, code'[y][n])
      BY <1>9, <2>1, <3>2 DEF IsPhiFor
    <3> QED
      BY <2>2, <3>3 DEF HasPhi
  <2>3. CASE u # v
    <3>1. u \in DOMAIN names
      BY <1>6, <2>3
    <3>2. Spreads(code, g, u)
      BY <1>18, <3>1 DEF ScanInv, PhisSpread
    <3> QED
      BY <1>18, <2>1, <3>1, <3>2 DEF Spreads
  <2> QED
    BY <2>2, <2>3
<1>21. AllocasOfAll(Live, code)'
  <2> SUFFICES ASSUME NEW u \in Live PROVE \E n \in 1 .. Len(code'[Entry]) : code'[Entry][n].id = u
    BY <1>6 DEF AllocasOfAll
  <2>1. PICK m \in 1 .. Len(code[Entry]) : code[Entry][m].id = u
    BY DEF ScanInv, AllocasOfAll
  <2> QED
    BY <1>11, <2>1, EntryAssumption
<1>22. Memories(Live, code)'
  <2> SUFFICES ASSUME NEW g \in Groups, NEW r, IsRun(r)
               PROVE  SameRun(Live, RunCodes(r, source[g]), RunCodes(r, code'[g]))
    BY <1>2, <1>6 DEF Memories, KeepsMemory
  <2>1. SameRun(Live, RunCodes(r, source[g]), RunCodes(r, code[g]))
    BY DEF ScanInv, Memories, KeepsMemory
  <2>2. RunCodes(r, code'[g]) = RunCodes(r, code[g])
    <3>1. CASE g \in J
      <4>1. code'[g] = <<NewPhi(g, v)>> \o code[g]
        BY <1>5, <3>1
      <4> QED
        BY <1>9, <4>1, RunPrepend
    <3>2. CASE g \notin J
      BY <1>5, <3>2
    <3> QED
      BY <3>1, <3>2
  <2> QED
    BY <2>1, <2>2
<1>23. AreVariables(Live)'
  BY <1>6, <1>8 DEF AreVariables
<1>24. \A u \in DOMAIN names' : names'[u] = <<Undef(u[2])>>
  BY <1>6 DEF ScanInv
<1> QED
  BY <1>2, <1>6, <1>13, <1>14, <1>16, <1>17, <1>20, <1>21, <1>22, <1>23, <1>24 DEF ScanInv

-----------------------------------------------------------------------------
(***************************************************************************)
(* The loop of RenamePass over a group.                                    *)
(***************************************************************************)
\* In group g, value x is there: a constant, undef, or a phi of one of the variables
\* P in a group that dominates g.
Good(codes, P, g, x) ==
    \/ x[1] \in {"constant", "undef"}
    \/ \E h \in Dominators(follows, g) : \E v \in P : x = PhiOf(h, v[2]) /\ HasPhi(codes, h, v)

\* A code of a group that is renamed.
RenamedCode(codes, P, g, i) ==
    /\ i.op \in {"use", "jump", "phi"}
    /\ i.op = "use" => \A k \in 1 .. Len(i.args) : Good(codes, P, g, i.args[k])
    /\ i.op = "jump" => i.args = <<>>
    /\ i.op \in {"use", "jump"} => i.id = Nothing

\* What holds when RenamePass is called for group g, P being the variables.
Ready(P, g) ==
    /\ g \in Groups /\ DOMAIN names = P /\ AreVariables(P)
    /\ \A v \in P : Len(names[v]) >= 1 /\ Good(code, P, g, Top(names, v))
    /\ GroupBody(P, Loads(source, g), Before(follows, source, g), code[g])
    /\ \A x \in Before(follows, source, g) : x \in DOMAIN temporary /\ Good(code, P, g, temporary[x])
    /\ \A x \in DOMAIN temporary : x[1] = "code" /\ x \notin Loads(source, g)
    /\ \A n \in 1 .. Len(code[g]) : code[g][n].op = "phi" => PhiKnown(g, P, original, code[g][n])
    /\ \A v \in P : HasPhi(code, g, v) \/ HasStore(code, g, v) => Spreads(code, g, v)

Counted(count, v) == IF v \in DOMAIN count THEN count[v] ELSE 0
Grown(a, b, k) == Len(b) = Len(a) + k /\ \A n \in 1 .. Len(a) : b[n] = a[n]

\* The names after some codes: those before, and as many more as counted.
NamesSoFar(P, g, s) ==
    /\ DOMAIN s.names = P /\ DOMAIN s.count \subseteq P
    /\ \A v \in P : Grown(names[v], s.names[v], Counted(s.count, v)) /\ Good(code, P, g, Top(s.names, v))
    /\ \A v \in DOMAIN s.count : Spreads(code, g, v)

\* The replacements after the first n codes.
LoadsSoFar(P, g, n, s) ==
    /\ \A x \in DOMAIN temporary : x \in DOMAIN s.temporary /\ s.temporary[x] = temporary[x]
    /\ \A m \in 1 .. n : code[g][m].op = "load" => code[g][m].id \in DOMAIN s.temporary
    /\ \A x \in DOMAIN s.temporary :
           x \in DOMAIN temporary \/ (x \in Loads(source, g) /\ Good(code, P, g, s.temporary[x]))

\* What is kept of the first n codes.
KeptSoFar(P, g, n, s) ==
    /\ \A m \in 1 .. Len(s.out) :
           /\ RenamedCode(code, P, g, s.out[m])
           /\ s.out[m].op = "phi" => \E k \in 1 .. n : s.out[m] = code[g][k]
    /\ \A k \in 1 .. n : code[g][k].op = "phi" => \E m \in 1 .. Len(s.out) : s.out[m] = code[g][k]

LoopState(P, g, n, s) ==
    s \in RenameStates /\ NamesSoFar(P, g, s) /\ LoadsSoFar(P, g, n, s) /\ KeptSoFar(P, g, n, s)

-----------------------------------------------------------------------------
\* The top of a stack that is not empty.
LEMMA TopIs ==
    ASSUME NEW nm \in Maps(Seq(Values)), NEW v \in DOMAIN nm, Len(nm[v]) >= 1
    PROVE  Top(nm, v) = nm[v][Len(nm[v])] /\ Len(nm[v]) \in Nat
<1>1. nm[v] \in Seq(Values)
  BY MapEntry
<1>2. Len(nm[v]) \in Nat /\ nm[v] # <<>>
  BY <1>1, LenProperties, EmptySeq
<1> QED
  BY <1>1, <1>2 DEF Top, Last

\* What push() does to the stack of a variable.
LEMMA PushedIs ==
    ASSUME NEW nm \in Maps(Seq(Values)), NEW v \in DOMAIN nm, v \in Values, NEW x \in Values,
           NEW p, p = Push(nm, v, x)
    PROVE  /\ DOMAIN p = DOMAIN nm /\ p \in Maps(Seq(Values))
           /\ \A u \in DOMAIN nm : u # v => p[u] = nm[u] /\ Top(p, u) = Top(nm, u)
           /\ Grown(nm[v], p[v], 1) /\ Top(p, v) = x
<1>1. p \in Maps(Seq(Values)) /\ IsWith(p, nm, v, Pushed(nm, v, x))
  BY PushIs
<1>2. p[v] = Append(nm[v], x) /\ DOMAIN p = DOMAIN nm
  BY <1>1 DEF IsWith, Pushed
<1>3. nm[v] \in Seq(Values) /\ Len(nm[v]) \in Nat
  BY MapEntry, LenProperties
<1>4. Grown(nm[v], p[v], 1) /\ Len(p[v]) = Len(nm[v]) + 1 /\ p[v][Len(p[v])] = x
  BY <1>2, <1>3, AppendProperties DEF Grown
<1>5. Top(p, v) = x
  <2>1. Len(p[v]) >= 1 /\ v \in DOMAIN p
    BY <1>2, <1>3, <1>4
  <2> QED
    BY <1>1, <1>4, <2>1, TopIs
<1>6. ASSUME NEW u \in DOMAIN nm, u # v PROVE p[u] = nm[u] /\ Top(p, u) = Top(nm, u)
  BY <1>1, <1>6 DEF IsWith, Top
<1> QED
  BY <1>1, <1>2, <1>4, <1>5, <1>6

\* Growing twice.
LEMMA GrownTwice ==
    ASSUME NEW a, Len(a) \in Nat, NEW b, NEW c, NEW j \in Nat, NEW k \in Nat, Grown(a, b, j), Grown(b, c, k)
    PROVE  Grown(a, c, j + k)
<1>1. Len(b) = Len(a) + j /\ Len(c) = Len(b) + k
  BY DEF Grown
<1>2. ASSUME NEW n \in 1 .. Len(a) PROVE c[n] = a[n]
  <2>1. n \in 1 .. Len(b)
    BY <1>1
  <2> QED
    BY <2>1 DEF Grown
<1> QED
  BY <1>1, <1>2 DEF Grown

\* A push of a name that is there keeps the names in order.
LEMMA PushNames ==
    ASSUME TypeInv, NEW P, NEW g, DOMAIN names = P, NEW s \in RenameStates, NamesSoFar(P, g, s), NEW v \in P, v \in Values, NEW x \in Values,
           Good(code, P, g, x), Spreads(code, g, v),
           NEW t, t.names = Push(s.names, v, x), t.count = Increment(s.count, v)
    PROVE  NamesSoFar(P, g, t)
<1>1. s.names \in Maps(Seq(Values)) /\ s.count \in Maps(Nat) /\ DOMAIN s.names = P
  BY DEF RenameStates, NamesSoFar
<1>2. /\ DOMAIN t.names = P
      /\ \A u \in P : u # v => t.names[u] = s.names[u] /\ Top(t.names, u) = Top(s.names, u)
      /\ Grown(s.names[v], t.names[v], 1) /\ Top(t.names, v) = x
  BY <1>1, PushedIs
<1>3. IsWith(t.count, s.count, v, OneMore(s.count, v))
  BY <1>1, IncrementIs
<1>4. /\ DOMAIN t.count = DOMAIN s.count \cup {v} /\ Counted(t.count, v) = Counted(s.count, v) + 1
      /\ \A u \in P : u # v => Counted(t.count, u) = Counted(s.count, u)
  BY <1>3 DEF IsWith, Counted, OneMore
<1>5. ASSUME NEW u \in P PROVE Grown(names[u], t.names[u], Counted(t.count, u)) /\ Good(code, P, g, Top(t.names, u))
  <2>1. Grown(names[u], s.names[u], Counted(s.count, u)) /\ Good(code, P, g, Top(s.names, u))
    BY DEF NamesSoFar
  <2>2. CASE u # v
    BY <1>2, <1>4, <2>1, <2>2
  <2>3. CASE u = v
    <3>1. names[v] \in Seq(Values) /\ Len(names[v]) \in Nat
      BY MapEntry, LenProperties DEF TypeInv
    <3>2. Counted(s.count, v) \in Nat
      BY <1>1, MapEntry DEF Counted
    <3>3. Grown(names[v], t.names[v], Counted(s.count, v) + 1)
      BY <1>2, <2>1, <2>3, <3>1, <3>2, GrownTwice
    <3> QED
      BY <1>2, <1>4, <2>3, <3>3
  <2> QED
    BY <2>2, <2>3
<1>6. DOMAIN t.count \subseteq P /\ \A u \in DOMAIN t.count : Spreads(code, g, u)
  BY <1>4 DEF NamesSoFar
<1> QED
  BY <1>2, <1>5, <1>6 DEF NamesSoFar

\* What an operand is replaced by.
LEMMA ResolveGood ==
    ASSUME GraphInv, NEW P, NEW g, Ready(P, g), NEW n \in Nat, n <= Len(code[g]), Len(code[g]) \in Nat, NEW s, LoadsSoFar(P, g, n, s),
           NEW x, Available(Before(follows, source, g), code[g], n + 1, x), NEW y, y = Resolve(s.temporary, x)
    PROVE  /\ Good(code, P, g, y)
           /\ x[1] = "constant" => y = x
           /\ x[1] # "constant" => x \in DOMAIN s.temporary /\ y = s.temporary[x]
<1>1. g \in Groups
  BY DEF Ready
<1>2. \A z \in DOMAIN s.temporary : z[1] = "code"
  <2>1. \A z \in Loads(source, g) : z[1] = "code"
    BY <1>1, LoadsAreCodes
  <2> QED
    BY <2>1 DEF LoadsSoFar, Ready
<1>3. CASE x[1] = "constant"
  BY <1>2, <1>3 DEF Resolve, Good
<1>4. CASE x[1] # "constant"
  <2>1. x \in DOMAIN s.temporary /\ Good(code, P, g, s.temporary[x])
    <3>1. CASE x \in Before(follows, source, g)
      <4>1. x \in DOMAIN temporary /\ Good(code, P, g, temporary[x])
        BY <3>1 DEF Ready
      <4> QED
        BY <4>1 DEF LoadsSoFar
    <3>2. CASE x \notin Before(follows, source, g)
      <4>1. PICK m \in 1 .. n : code[g][m].op = "load" /\ code[g][m].id = x
        BY <1>4, <3>2 DEF Available
      <4>2. x \in DOMAIN s.temporary
        BY <4>1 DEF LoadsSoFar
      <4>3. x \notin DOMAIN temporary \/ x \notin Loads(source, g)
        BY DEF Ready
      <4>4. x \in Loads(source, g)
        BY <4>1 DEF Ready, GroupBody, BodyCode
      <4> QED
        BY <4>2, <4>3, <4>4 DEF LoadsSoFar
    <3> QED
      BY <3>1, <3>2
  <2> QED
    BY <1>4, <2>1 DEF Resolve
<1> QED
  BY <1>3, <1>4

\* A code that is kept.
LEMMA KeptAnother ==
    ASSUME NEW P, NEW g, NEW n \in Nat, NEW s \in RenameStates, KeptSoFar(P, g, n, s), NEW j \in Shaped, RenamedCode(code, P, g, j),
           j.op = "phi" \/ code[g][n + 1].op = "phi" => j = code[g][n + 1],
           NEW t, t.out = Append(s.out, j)
    PROVE  KeptSoFar(P, g, n + 1, t)
<1>1. s.out \in Seq(Shaped) /\ Len(s.out) \in Nat
  BY LenProperties DEF RenameStates
<1>2. /\ Len(t.out) = Len(s.out) + 1 /\ t.out[Len(s.out) + 1] = j
      /\ \A m \in 1 .. Len(s.out) : t.out[m] = s.out[m]
  BY <1>1, AppendProperties
<1>3. ASSUME NEW m \in 1 .. Len(t.out)
      PROVE  /\ RenamedCode(code, P, g, t.out[m])
             /\ t.out[m].op = "phi" => \E k \in 1 .. n + 1 : t.out[m] = code[g][k]
  <2>1. CASE m = Len(s.out) + 1
    <3>1. n + 1 \in 1 .. n + 1
      OBVIOUS
    <3> QED
      BY <1>2, <2>1, <3>1
  <2>2. CASE m # Len(s.out) + 1
    <3>1. m \in 1 .. Len(s.out) /\ t.out[m] = s.out[m]
      BY <1>1, <1>2, <2>2
    <3>2. RenamedCode(code, P, g, s.out[m]) /\ (s.out[m].op = "phi" => \E k \in 1 .. n : s.out[m] = code[g][k])
      BY <3>1 DEF KeptSoFar
    <3>3. \A k \in 1 .. n : k \in 1 .. n + 1
      OBVIOUS
    <3> QED
      BY <3>1, <3>2, <3>3
  <2> QED
    BY <2>1, <2>2
<1>4. ASSUME NEW k \in 1 .. n + 1, code[g][k].op = "phi" PROVE \E m \in 1 .. Len(t.out) : t.out[m] = code[g][k]
  <2>1. CASE k = n + 1
    <3>1. Len(s.out) + 1 \in 1 .. Len(t.out)
      BY <1>1, <1>2
    <3> QED
      BY <1>2, <1>4, <2>1, <3>1
  <2>2. CASE k # n + 1
    <3>1. k \in 1 .. n
      BY <2>2
    <3>2. PICK m \in 1 .. Len(s.out) : s.out[m] = code[g][k]
      BY <1>4, <3>1 DEF KeptSoFar
    <3>3. m \in 1 .. Len(t.out)
      BY <1>1, <1>2
    <3> QED
      BY <1>2, <3>2, <3>3
  <2> QED
    BY <2>1, <2>2
<1> QED
  BY <1>3, <1>4 DEF KeptSoFar

\* A code that goes.
LEMMA KeptNoOther ==
    ASSUME NEW P, NEW g, NEW n \in Nat, NEW s, KeptSoFar(P, g, n, s), code[g][n + 1].op # "phi", NEW t, t.out = s.out
    PROVE  KeptSoFar(P, g, n + 1, t)
<1>1. \A k \in 1 .. n + 1 : code[g][k].op = "phi" => k \in 1 .. n
  OBVIOUS
<1>2. \A k \in 1 .. n : k \in 1 .. n + 1
  OBVIOUS
<1> QED
  BY <1>1, <1>2 DEF KeptSoFar

\* A code that is no load.
LEMMA LoadsNoOther ==
    ASSUME NEW P, NEW g, NEW n \in Nat, NEW s, LoadsSoFar(P, g, n, s), code[g][n + 1].op # "load",
           NEW t, t.temporary = s.temporary
    PROVE  LoadsSoFar(P, g, n + 1, t)
<1>1. \A k \in 1 .. n + 1 : code[g][k].op = "load" => k \in 1 .. n
  OBVIOUS
<1> QED
  BY <1>1 DEF LoadsSoFar

\* The names of a state that has the same.
LEMMA NamesNoOther ==
    ASSUME NEW P, NEW g, NEW s, NamesSoFar(P, g, s), NEW t, t.names = s.names, t.count = s.count
    PROVE  NamesSoFar(P, g, t)
  BY DEF NamesSoFar

\* What a group that is renamed is made of.
LEMMA ReadyCode ==
    ASSUME TypeInv, NEW P, NEW g, Ready(P, g), NEW n \in 1 .. Len(code[g]), NEW i, i = code[g][n]
    PROVE  /\ i \in Shaped /\ BodyCode(P, Loads(source, g), Before(follows, source, g), code[g], n)
           /\ i.op \in {"alloca", "load", "store", "use", "jump", "phi"}
           /\ Len(code[g]) \in Nat /\ g \in Groups
           /\ P \subseteq Values /\ \A v \in P : v = Address(v[2]) /\ v[1] = "address" /\ v[2] \in Names
<1>1. g \in Groups /\ code \in [Groups -> Seq(Shaped)]
  BY DEF Ready, TypeInv
<1>2. code[g] \in Seq(Shaped) /\ Len(code[g]) \in Nat /\ i \in Shaped
  BY <1>1, CodeOf
<1>3. BodyCode(P, Loads(source, g), Before(follows, source, g), code[g], n)
  BY DEF Ready, GroupBody
<1>4. i.op \in {"alloca", "load", "store", "use", "jump", "phi"}
  BY <1>3 DEF BodyCode, Direct
<1>5. P \subseteq Values /\ \A v \in P : v = Address(v[2]) /\ v[1] = "address" /\ v[2] \in Names
  <2>1. DOMAIN names \subseteq Values /\ P = DOMAIN names /\ AreVariables(P)
    BY MapEntry DEF TypeInv, Ready
  <2> QED
    BY <2>1, VariablesAre
<1> QED
  BY <1>1, <1>2, <1>3, <1>4, <1>5

\* The loop at a phi.
LEMMA LoopPhi ==
    ASSUME TypeInv, GraphInv, NEW P, NEW g, Ready(P, g), NEW n \in Nat, n + 1 \in 1 .. Len(code[g]), NEW s, LoopState(P, g, n, s),
           NEW i, i = code[g][n + 1], i.op = "phi", NEW t, t = RenamePhi(s, i)
    PROVE  LoopState(P, g, n + 1, t)
<1>1. i \in Shaped /\ Len(code[g]) \in Nat /\ g \in Groups /\ P \subseteq Values
      /\ \A u \in P : u = Address(u[2]) /\ u[1] = "address" /\ u[2] \in Names
  BY ReadyCode
<1>2. s \in RenameStates /\ NamesSoFar(P, g, s) /\ LoadsSoFar(P, g, n, s) /\ KeptSoFar(P, g, n, s)
  BY DEF LoopState
<1>3. PICK v \in P : i.id = PhiOf(g, v[2]) /\ i.id \in DOMAIN original /\ original[i.id] = v
  <2>1. PhiKnown(g, P, original, i)
    BY DEF Ready
  <2> QED
    BY <2>1 DEF PhiKnown
<1>4. /\ t \in RenameStates /\ t.out = Append(s.out, i)
      /\ t.temporary = s.temporary /\ t.names = Push(s.names, v, i.id) /\ t.count = Increment(s.count, v)
  BY SMTT(30), <1>1, <1>2, <1>3, RenamePhiIs DEF TypeInv
<1>5. HasPhi(code, g, v) /\ Good(code, P, g, i.id) /\ i.id \in Values
  <2>1. HasPhi(code, g, v)
    BY <1>3 DEF HasPhi, IsPhiFor
  <2>2. g \in Dominators(follows, g)
    BY <1>1, SelfDominates
  <2>3. i.id \in Values
    BY <1>1, ArgsOf
  <2> QED
    BY <1>3, <2>1, <2>2, <2>3 DEF Good
<1>6. NamesSoFar(P, g, t)
  <2>1. Spreads(code, g, v) /\ DOMAIN names = P /\ v \in Values
    BY <1>1, <1>5 DEF Ready
  <2> QED
    BY <1>2, <1>4, <1>5, <2>1, PushNames
<1>7. LoadsSoFar(P, g, n + 1, t)
  BY <1>2, <1>4, LoadsNoOther
<1>8. KeptSoFar(P, g, n + 1, t)
  <2>1. RenamedCode(code, P, g, i)
    BY DEF RenamedCode
  <2> QED
    BY <1>1, <1>2, <1>4, <2>1, KeptAnother
<1> QED
  BY <1>4, <1>6, <1>7, <1>8 DEF LoopState

\* The loop at a load.
LEMMA LoopLoad ==
    ASSUME TypeInv, GraphInv, NEW P, NEW g, Ready(P, g), NEW n \in Nat, n + 1 \in 1 .. Len(code[g]), NEW s, LoopState(P, g, n, s),
           NEW i, i = code[g][n + 1], i.op = "load", NEW t, t = RenameLoad(s, i)
    PROVE  /\ LoopState(P, g, n + 1, t) /\ i.args[1] \in P /\ i.id \in Values
           /\ t.out = s.out /\ t.names = s.names
           /\ DOMAIN t.temporary = DOMAIN s.temporary \cup {i.id}
           /\ t.temporary[i.id] = Top(s.names, i.args[1])
           /\ \A x \in DOMAIN s.temporary : x # i.id => t.temporary[x] = s.temporary[x]
<1>1. i \in Shaped /\ Len(code[g]) \in Nat /\ g \in Groups /\ P \subseteq Values
      /\ BodyCode(P, Loads(source, g), Before(follows, source, g), code[g], n + 1)
  BY ReadyCode
<1>2. s \in RenameStates /\ NamesSoFar(P, g, s) /\ LoadsSoFar(P, g, n, s) /\ KeptSoFar(P, g, n, s)
  BY DEF LoopState
<1>3. PICK v \in P : v = i.args[1]
  BY <1>1 DEF BodyCode, Direct
<1>4. v \in DOMAIN s.names /\ Good(code, P, g, Top(s.names, v))
  BY <1>2 DEF NamesSoFar
<1>5. /\ t \in RenameStates /\ t.out = s.out /\ t.names = s.names /\ t.count = s.count
      /\ t.temporary = With(s.temporary, i.id, Top(s.names, v))
  BY <1>1, <1>2, <1>3, <1>4, RenameLoadIs
<1>6. i.id \in Values /\ i.id \in Loads(source, g)
  BY <1>1, ArgsOf DEF BodyCode
<1>7. Top(s.names, v) \in Values
  BY <1>2, <1>4, TopIsValue DEF RenameStates
<1>8. PICK y : y = Top(s.names, v)
  OBVIOUS
<1>9. IsWith(t.temporary, s.temporary, i.id, y)
  BY <1>2, <1>5, <1>6, <1>7, <1>8, WithIs DEF RenameStates
<1>10. /\ DOMAIN t.temporary = DOMAIN s.temporary \cup {i.id} /\ t.temporary[i.id] = y
       /\ \A x \in DOMAIN s.temporary : x # i.id => t.temporary[x] = s.temporary[x]
  BY <1>9 DEF IsWith
<1>11. LoadsSoFar(P, g, n + 1, t)
  <2>1. i.id \notin DOMAIN temporary
    BY <1>6 DEF Ready
  <2>2. \A x \in DOMAIN temporary : x \in DOMAIN t.temporary /\ t.temporary[x] = temporary[x]
    BY <1>2, <1>10, <2>1 DEF LoadsSoFar
  <2>3. ASSUME NEW m \in 1 .. n + 1, code[g][m].op = "load" PROVE code[g][m].id \in DOMAIN t.temporary
    <3>1. CASE m = n + 1
      BY <1>10, <3>1
    <3>2. CASE m # n + 1
      <4>1. m \in 1 .. n
        BY <3>2
      <4> QED
        BY <1>2, <1>10, <2>3, <4>1 DEF LoadsSoFar
    <3> QED
      BY <3>1, <3>2
  <2>4. ASSUME NEW x \in DOMAIN t.temporary
        PROVE  x \in DOMAIN temporary \/ (x \in Loads(source, g) /\ Good(code, P, g, t.temporary[x]))
    <3>1. CASE x = i.id
      BY <1>4, <1>6, <1>8, <1>10, <3>1
    <3>2. CASE x # i.id
      BY <1>2, <1>10, <3>2 DEF LoadsSoFar
    <3> QED
      BY <3>1, <3>2
  <2> QED
    BY <2>2, <2>3, <2>4 DEF LoadsSoFar
<1>12. NamesSoFar(P, g, t)
  BY <1>2, <1>5, NamesNoOther
<1>13. KeptSoFar(P, g, n + 1, t)
  BY <1>2, <1>5, KeptNoOther
<1> QED
  BY <1>3, <1>5, <1>6, <1>8, <1>10, <1>11, <1>12, <1>13 DEF LoopState

\* The loop at a store.
LEMMA LoopStore ==
    ASSUME TypeInv, GraphInv, NEW P, NEW g, Ready(P, g), NEW n \in Nat, n + 1 \in 1 .. Len(code[g]), NEW s, LoopState(P, g, n, s),
           NEW i, i = code[g][n + 1], i.op = "store", NEW t, t = RenameStore(s, i)
    PROVE  /\ LoopState(P, g, n + 1, t) /\ i.args[2] \in P
           /\ t.out = s.out /\ t.temporary = s.temporary
           /\ t.names = Push(s.names, i.args[2], Resolve(s.temporary, i.args[1]))
<1>1. i \in Shaped /\ Len(code[g]) \in Nat /\ g \in Groups /\ P \subseteq Values
      /\ BodyCode(P, Loads(source, g), Before(follows, source, g), code[g], n + 1)
  BY ReadyCode
<1>2. s \in RenameStates /\ NamesSoFar(P, g, s) /\ LoadsSoFar(P, g, n, s) /\ KeptSoFar(P, g, n, s)
  BY DEF LoopState
<1>3. PICK v \in P : v = i.args[2]
  BY <1>1 DEF BodyCode
<1>4. PICK x : x = i.args[1]
  OBVIOUS
<1>5. PICK y : y = Resolve(s.temporary, x)
  OBVIOUS
<1>6. x \in Values /\ Available(Before(follows, source, g), code[g], n + 1, x)
  <2>1. Len(i.args) = 2 /\ \A k \in 1 .. Len(i.args) : i.args[k] \in Values
    BY <1>1, ArgsOf, ShapeOf
  <2>2. x \in Values
    BY <1>4, <2>1
  <2> QED
    BY <1>1, <1>4, <2>2 DEF BodyCode
<1>7. Good(code, P, g, y) /\ y \in Values
  <2>1. n <= Len(code[g])
    BY <1>1
  <2>2. Good(code, P, g, y)
    BY <1>1, <1>2, <1>5, <1>6, <2>1, ResolveGood
  <2>3. y \in Values
    BY <1>2, <1>5, <1>6, ResolveIsValue DEF RenameStates
  <2> QED
    BY <2>2, <2>3
<1>8. v \in DOMAIN s.names
  BY <1>2 DEF NamesSoFar
<1>9. /\ t \in RenameStates /\ t.out = s.out /\ t.temporary = s.temporary
      /\ t.names = Push(s.names, v, y) /\ t.count = Increment(s.count, v)
  <2>1. y = Resolve(s.temporary, i.args[1])
    BY <1>4, <1>5
  <2>2. s \in RenameStates /\ i \in Shaped /\ v = i.args[2] /\ i.op = "store" /\ t = RenameStore(s, i)
    BY <1>1, <1>2, <1>3
  <2>3. /\ t \in RenameStates
        /\ t.temporary = s.temporary
        /\ v \in DOMAIN s.names =>
             /\ t.out = s.out
             /\ t.names = Push(s.names, v, y) /\ t.count = Increment(s.count, v)
        /\ v \notin DOMAIN s.names =>
             /\ t.out = Append(s.out, [i EXCEPT !.args = <<y, v>>])
             /\ t.names = s.names /\ t.count = s.count
    BY ONLY <2>1, <2>2, RenameStoreIs
  <2> QED
    BY <1>8, <2>3
<1>10. Spreads(code, g, v) /\ DOMAIN names = P /\ v \in Values
  <2>1. HasStore(code, g, v)
    BY <1>3 DEF HasStore
  <2> QED
    BY <1>1, <2>1 DEF Ready
<1>11. NamesSoFar(P, g, t)
  BY <1>2, <1>7, <1>9, <1>10, PushNames
<1>12. LoadsSoFar(P, g, n + 1, t)
  BY <1>2, <1>9, LoadsNoOther
<1>13. KeptSoFar(P, g, n + 1, t)
  BY <1>2, <1>9, KeptNoOther
<1> QED
  BY <1>3, <1>4, <1>5, <1>9, <1>11, <1>12, <1>13 DEF LoopState

\* The loop at a use or a jump.
LEMMA LoopUse ==
    ASSUME TypeInv, GraphInv, NEW P, NEW g, Ready(P, g), NEW n \in Nat, n + 1 \in 1 .. Len(code[g]), NEW s, LoopState(P, g, n, s),
           NEW i, i = code[g][n + 1], i.op \in {"use", "jump"}, NEW t, t = Keep(s, ResolveArgs(s, i))
    PROVE  /\ LoopState(P, g, n + 1, t) /\ t.names = s.names /\ t.temporary = s.temporary
           /\ t.out = Append(s.out, ResolveArgs(s, i))
<1>1. i \in Shaped /\ Len(code[g]) \in Nat /\ g \in Groups /\ P \subseteq Values
      /\ BodyCode(P, Loads(source, g), Before(follows, source, g), code[g], n + 1)
  BY ReadyCode
<1>2. s \in RenameStates /\ NamesSoFar(P, g, s) /\ LoadsSoFar(P, g, n, s) /\ KeptSoFar(P, g, n, s)
  BY DEF LoopState
<1>3. PICK j : j = ResolveArgs(s, i)
  OBVIOUS
<1>4. j \in Shaped /\ j.op = i.op /\ j.id = i.id
      /\ j.args = [k \in 1 .. Len(i.args) |-> Resolve(s.temporary, i.args[k])]
  BY <1>1, <1>2, <1>3, ResolvedIs
<1>5. t \in RenameStates /\ t.out = Append(s.out, j) /\ t.names = s.names
      /\ t.temporary = s.temporary /\ t.count = s.count
  BY <1>1, <1>2, <1>3, <1>4, KeepIs
<1>6. RenamedCode(code, P, g, j)
  <2>0. Len(i.args) \in Nat /\ Len(j.args) = Len(i.args)
    BY <1>1, <1>4, ArgsOf
  <2>1. i.id = Nothing /\ (i.op = "jump" => i.args = <<>>)
    BY <1>1 DEF BodyCode
  <2>2. i.op = "jump" => j.args = <<>>
    BY <1>4, <2>1
  <2>3. ASSUME i.op = "use", NEW k \in 1 .. Len(j.args) PROVE Good(code, P, g, j.args[k])
    <3>1. PICK x : x = i.args[k]
      OBVIOUS
    <3>2. PICK y : y = Resolve(s.temporary, x)
      OBVIOUS
    <3>3. k \in 1 .. Len(i.args)
      BY <2>0
    <3>4. j.args[k] = y
      BY <1>4, <3>1, <3>2, <3>3
    <3>5. Available(Before(follows, source, g), code[g], n + 1, x) /\ n <= Len(code[g])
      BY <1>1, <2>3, <3>1, <3>3 DEF BodyCode
    <3>6. Good(code, P, g, y)
      <4>1. LoadsSoFar(P, g, n, s) /\ Len(code[g]) \in Nat /\ Ready(P, g)
        BY <1>1, <1>2
      <4> QED
        BY ONLY GraphInv, n \in Nat, <3>2, <3>5, <4>1, ResolveGood, ZenonT(40)
    <3> QED
      BY <3>4, <3>6
  <2> QED
    BY <1>4, <2>1, <2>2, <2>3 DEF RenamedCode
<1>7. NamesSoFar(P, g, t)
  BY <1>2, <1>5, NamesNoOther
<1>8. LoadsSoFar(P, g, n + 1, t)
  BY <1>2, <1>5, LoadsNoOther
<1>9. KeptSoFar(P, g, n + 1, t)
  BY <1>2, <1>4, <1>5, <1>6, KeptAnother
<1> QED
  BY <1>3, <1>5, <1>7, <1>8, <1>9 DEF LoopState

\* The loop at an alloca.
LEMMA LoopAlloca ==
    ASSUME TypeInv, GraphInv, NEW P, NEW g, Ready(P, g), NEW n \in Nat, n + 1 \in 1 .. Len(code[g]), NEW s, LoopState(P, g, n, s),
           NEW i, i = code[g][n + 1], i.op = "alloca"
    PROVE  LoopState(P, g, n + 1, s) /\ i.id \in DOMAIN s.names
<1>1. i \in Shaped /\ BodyCode(P, Loads(source, g), Before(follows, source, g), code[g], n + 1)
  BY ReadyCode
<1>2. s \in RenameStates /\ NamesSoFar(P, g, s) /\ LoadsSoFar(P, g, n, s) /\ KeptSoFar(P, g, n, s)
  BY DEF LoopState
<1>3. i.id \in P /\ DOMAIN s.names = P
  BY <1>1, <1>2 DEF BodyCode, NamesSoFar
<1>4. LoadsSoFar(P, g, n + 1, s)
  BY <1>2, LoadsNoOther
<1>5. KeptSoFar(P, g, n + 1, s)
  BY <1>2, KeptNoOther
<1> QED
  BY <1>2, <1>3, <1>4, <1>5 DEF LoopState

\* The loop at any code.
LEMMA LoopStep ==
    ASSUME TypeInv, GraphInv, NEW P, NEW g, Ready(P, g), NEW n \in Nat, n + 1 \in 1 .. Len(code[g]), NEW s, LoopState(P, g, n, s),
           NEW i, i = code[g][n + 1], NEW t, t = RenameInstr(s, i)
    PROVE  LoopState(P, g, n + 1, t)
<1>1. i.op \in {"alloca", "load", "store", "use", "jump", "phi"}
  BY ReadyCode
<1>2. CASE i.op = "phi"
  <2>1. t = RenamePhi(s, i)
    BY <1>2 DEF RenameInstr
  <2> QED
    BY <1>2, <2>1, LoopPhi
<1>3. CASE i.op = "load"
  <2>1. t = RenameLoad(s, i)
    BY <1>3 DEF RenameInstr
  <2> QED
    BY <1>3, <2>1, LoopLoad
<1>4. CASE i.op = "store"
  <2>1. t = RenameStore(s, i)
    BY <1>4 DEF RenameInstr
  <2> QED
    BY <1>4, <2>1, LoopStore
<1>5. CASE i.op \in {"use", "jump"}
  <2>1. t = Keep(s, ResolveArgs(s, i))
    BY <1>5 DEF RenameInstr
  <2> QED
    BY <1>5, <2>1, LoopUse
<1>6. CASE i.op = "alloca"
  <2>1. LoopState(P, g, n + 1, s) /\ i.id \in DOMAIN s.names
    BY <1>6, LoopAlloca
  <2>2. t = s
    BY <1>6, <2>1 DEF RenameInstr
  <2> QED
    BY <2>1, <2>2
<1> QED
  BY <1>1, <1>2, <1>3, <1>4, <1>5, <1>6

\* Where the loop starts.
LEMMA LoopStart ==
    ASSUME TypeInv, NEW P, NEW g, Ready(P, g), NEW s, s = StartOfRename
    PROVE  LoopState(P, g, 0, s)
<1>1. s = [out |-> <<>>, names |-> names, temporary |-> temporary, count |-> NoMap]
  BY DEF StartOfRename
<1>2. s.out = <<>> /\ s.names = names /\ s.temporary = temporary /\ s.count = NoMap
  BY <1>1
<1>3. NoMap \in Maps(Nat) /\ DOMAIN NoMap = {}
  BY NoMapIsMap
<1>4. s \in RenameStates
  BY <1>1, <1>3 DEF RenameStates, TypeInv
<1>5. NamesSoFar(P, g, s)
  <2>1. ASSUME NEW v \in P PROVE Grown(names[v], s.names[v], Counted(s.count, v)) /\ Good(code, P, g, Top(s.names, v))
    <3>1. names[v] \in Seq(Values) /\ Len(names[v]) \in Nat
      BY MapEntry, LenProperties DEF TypeInv, Ready
    <3>2. Counted(s.count, v) = 0
      BY <1>2, <1>3 DEF Counted
    <3>3. Good(code, P, g, Top(s.names, v))
      BY <1>2 DEF Ready
    <3> QED
      BY <1>2, <3>1, <3>2, <3>3 DEF Grown
  <2> QED
    BY <1>2, <1>3, <2>1 DEF NamesSoFar, Ready
<1>6. LoadsSoFar(P, g, 0, s)
  BY <1>2 DEF LoadsSoFar
<1>7. KeptSoFar(P, g, 0, s)
  BY <1>2 DEF KeptSoFar
<1> QED
  BY <1>4, <1>5, <1>6, <1>7 DEF LoopState

\* The whole loop.
LEMMA LoopRuns ==
    ASSUME TypeInv, GraphInv, NEW P, NEW g, Ready(P, g), NEW F, IsRenaming(code[g], Len(code[g]), F)
    PROVE  Len(code[g]) \in Nat /\ \A n \in 0 .. Len(code[g]) : LoopState(P, g, n, F[n])
<1>1. Len(code[g]) \in Nat
  <2>1. code \in [Groups -> Seq(Shaped)] /\ g \in Groups
    BY DEF TypeInv, Ready
  <2> QED
    BY <2>1, CodeOf
<1>2. RenamingGoes(code[g], Len(code[g]), F)
  BY <1>1, RenamingStep
<1> DEFINE T == {n \in 0 .. Len(code[g]) : LoopState(P, g, n, F[n])}
<1>3. 0 \in T
  <2>1. F[0] = StartOfRename
    BY <1>2 DEF RenamingGoes
  <2>2. LoopState(P, g, 0, F[0])
    BY <2>1, LoopStart
  <2> QED
    BY <1>1, <2>2
<1>4. ASSUME NEW n \in 0 .. Len(code[g]) - 1, n \in T PROVE n + 1 \in T
  <2>1. F[n + 1] = RenameInstr(F[n], code[g][n + 1])
    BY <1>2 DEF RenamingGoes, RenameStep
  <2>2. n \in Nat /\ n + 1 \in 1 .. Len(code[g]) /\ LoopState(P, g, n, F[n])
    BY <1>1, <1>4
  <2>3. PICK s : s = F[n]
    OBVIOUS
  <2>4. PICK i : i = code[g][n + 1]
    OBVIOUS
  <2>5. PICK t : t = F[n + 1]
    OBVIOUS
  <2>6. LoopState(P, g, n + 1, t)
    BY <2>1, <2>2, <2>3, <2>4, <2>5, LoopStep
  <2> QED
    BY <1>1, <2>2, <2>5, <2>6
<1>5. \A n \in 0 .. Len(code[g]) : n \in T
  <2> HIDE DEF T
  <2> QED
    BY <1>1, <1>3, <1>4, CountingUp
<1> QED
  BY <1>1, <1>5

-----------------------------------------------------------------------------
(***************************************************************************)
(* What a call of RenamePass makes of the codes.                           *)
(***************************************************************************)
\* A group is not among the predecessors of a group it does not lead to.
LEMMA NoPredecessor ==
    ASSUME GraphInv, NEW g \in Groups, NEW f \in Groups, f \notin Successors(follows, g),
           NEW k \in 1 .. Len(precedes[f])
    PROVE  precedes[f][k] # g
<1>1. follows \in [Groups -> Seq(Groups)] /\ precedes \in [Groups -> Seq(Groups)]
  BY DEF GraphInv, IsConnected, IsGraph
<1> DEFINE S == {i \in DOMAIN follows[g] : follows[g][i] = f}
           T == {j \in DOMAIN precedes[f] : precedes[f][j] = g}
<1>2. Cardinality(S) = Cardinality(T)
  BY DEF GraphInv, Mirrored
<1>3. S = {}
  BY DEF Successors, ToSet
<1>4. precedes[f] \in Seq(Groups) /\ DOMAIN precedes[f] = 1 .. Len(precedes[f]) /\ Len(precedes[f]) \in Nat
  BY <1>1, LenProperties
<1>5. IsFiniteSet(T)
  <2>1. IsFiniteSet(DOMAIN precedes[f])
    BY <1>4, FS_Interval
  <2>2. T \subseteq DOMAIN precedes[f]
    OBVIOUS
  <2> HIDE DEF T
  <2> QED
    BY <2>1, <2>2, FS_Subset
<1>6. T = {}
  <2>1. Cardinality({}) = 0
    BY FS_EmptySet
  <2>2. Cardinality(T) = 0
    BY <1>2, <1>3, <2>1
  <2> HIDE DEF T
  <2> QED
    BY <1>5, <2>2, FS_EmptySet
<1> QED
  BY <1>4, <1>6

\* Code j of group f is code i, its sources for predecessor g filled.
FilledFor(P, g, f, nm, i, j) ==
    /\ j.op = i.op /\ j.id = i.id /\ Len(j.args) = Len(i.args)
    /\ i.op # "phi" => j = i
    /\ \A v \in P : i.op = "phi" /\ i.id = PhiOf(f, v[2]) =>
           \A k \in 1 .. Len(i.args) : j.args[k] = IF precedes[f][k] = g THEN Top(nm, v) ELSE i.args[k]

\* So is each code of each group when the names nm are known for g.
LEMMA FillingFills ==
    ASSUME TypeInv, GraphInv, NEW P, AreVariables(P), NEW g \in Groups, NEW f \in Groups, NEW nm \in Maps(Seq(Values)),
           DOMAIN nm = P, NEW codes \in [Groups -> Seq(Shaped)], NEW n \in 1 .. Len(codes[f]),
           codes[f][n].op = "phi" => PhiKnown(f, P, original, codes[f][n]),
           NEW d, d = Filled(g, codes, nm)
    PROVE  Len(d[f]) = Len(codes[f]) /\ FilledFor(P, g, f, nm, codes[f][n], d[f][n])
<1>1. codes[f] \in Seq(Shaped) /\ Len(codes[f]) \in Nat /\ DOMAIN codes[f] = 1 .. Len(codes[f]) /\ codes[f][n] \in Shaped
  BY CodeOf
<1>2. PICK i \in Shaped : i = codes[f][n]
  BY <1>1
<1>3. Len(i.args) \in Nat
  BY ArgsOf
<1>4. i.op = "phi" => PhiKnown(f, P, original, i)
  BY <1>2
<1>5. CASE f \in Successors(follows, g)
  <2>1. d[f] = [m \in 1 .. Len(codes[f]) |-> FillPhi(g, f, nm, codes[f][m])]
    BY <1>1, <1>5 DEF Filled
  <2>2. Len(d[f]) = Len(codes[f])
    BY <1>1, <2>1
  <2>3. PICK j : j = FillPhi(g, f, nm, i)
    OBVIOUS
  <2>4. d[f][n] = j
    BY <1>2, <2>1, <2>3
  <2>5. /\ j \in Shaped /\ j.op = i.op /\ j.id = i.id /\ Len(j.args) = Len(i.args)
        /\ i.op # "phi" => j = i
        /\ i.op = "phi" /\ VariableOf(i.id) \notin DOMAIN nm => j = i
        /\ \A k \in 1 .. Len(i.args) : i.op = "phi" /\ VariableOf(i.id) \in DOMAIN nm =>
                  j.args[k] = IF precedes[f][k] = g THEN Top(nm, VariableOf(i.id)) ELSE i.args[k]
    BY <2>3, FillPhiIs
  <2>6. ASSUME NEW v \in P, i.op = "phi", i.id = PhiOf(f, v[2]), NEW k \in 1 .. Len(i.args)
        PROVE  j.args[k] = IF precedes[f][k] = g THEN Top(nm, v) ELSE i.args[k]
    <3>1. PICK u \in P : i.id = PhiOf(f, u[2]) /\ i.id \in DOMAIN original /\ original[i.id] = u
      BY <1>4, <2>6 DEF PhiKnown
    <3>2. u[2] = v[2]
      BY <2>6, <3>1 DEF PhiOf
    <3>3. u = v
      BY <3>2, VariablesAre
    <3>4. VariableOf(i.id) = v
      BY <3>1, <3>3 DEF VariableOf
    <3> QED
      BY <2>5, <2>6, <3>4
  <2> QED
    BY <1>2, <2>2, <2>4, <2>5, <2>6 DEF FilledFor
<1>6. CASE f \notin Successors(follows, g)
  <2>1. d[f] = codes[f]
    BY <1>6 DEF Filled
  <2>2. ASSUME NEW v \in P, i.op = "phi", i.id = PhiOf(f, v[2]), NEW k \in 1 .. Len(i.args)
        PROVE  precedes[f][k] # g
    <3>1. Len(i.args) = Len(precedes[f])
      BY <1>4, <2>2 DEF PhiKnown
    <3> QED
      BY <1>6, <2>2, <3>1, NoPredecessor
  <2>3. FilledFor(P, g, f, nm, i, i)
    BY <2>2 DEF FilledFor
  <2> QED
    BY <1>2, <2>1, <2>3
<1> QED
  BY <1>5, <1>6

\* The codes once g is renamed: what the loop kept, and what was there before.
Replaced(g, s) == [code EXCEPT ![g] = s.out]

\* They are sequences of codes.
LEMMA ReplacedIs ==
    ASSUME TypeInv, NEW g \in Groups, NEW s \in RenameStates
    PROVE  /\ Replaced(g, s) \in [Groups -> Seq(Shaped)]
           /\ Replaced(g, s)[g] = s.out
           /\ \A f \in Groups : f # g => Replaced(g, s)[f] = code[f]
  BY DEF Replaced, TypeInv, RenameStates

\* Its phis are known.
LEMMA ReplacedKnown ==
    ASSUME TypeInv, NEW P, PhisKnown(P, original, code), NEW g \in Groups, NEW s, NEW n, LoopState(P, g, n, s),
           n = Len(code[g])
    PROVE  PhisKnown(P, original, Replaced(g, s))
<1>1. s \in RenameStates /\ KeptSoFar(P, g, n, s)
  BY DEF LoopState
<1>2. PICK d : d = Replaced(g, s)
  OBVIOUS
<1>3. d[g] = s.out /\ \A f \in Groups : f # g => d[f] = code[f]
  BY <1>1, <1>2, ReplacedIs
<1>4. ASSUME NEW f \in Groups, NEW m \in 1 .. Len(d[f]), d[f][m].op = "phi"
      PROVE  PhiKnown(f, P, original, d[f][m])
  <2>1. CASE f = g
    <3>1. PICK k \in 1 .. n : s.out[m] = code[g][k]
      BY <1>1, <1>3, <1>4, <2>1 DEF KeptSoFar
    <3>2. PhiKnown(g, P, original, code[g][k])
      BY <1>3, <1>4, <2>1, <3>1 DEF PhisKnown
    <3> QED
      BY <1>3, <2>1, <3>1, <3>2
  <2>2. CASE f # g
    <3>1. d[f] = code[f]
      BY <1>3, <2>2
    <3> QED
      BY <1>4, <3>1 DEF PhisKnown
  <2> QED
    BY <2>1, <2>2
<1>5. PhisKnown(P, original, d)
  BY <1>4 DEF PhisKnown
<1> QED
  BY <1>2, <1>5

\* What the codes are after g is renamed, s being the state its loop ends in.
CodeAfter(P, g, s) ==
    \A f \in Groups :
        /\ Len(code'[f]) = Len(Replaced(g, s)[f])
        /\ \A n \in 1 .. Len(Replaced(g, s)[f]) : FilledFor(P, g, f, s.names, Replaced(g, s)[f][n], code'[f][n])

\* Codes c and d have phis for the same variables.
SamePhis(P, c, d) == \A h \in Groups, v \in P : HasPhi(c, h, v) <=> HasPhi(d, h, v)

\* The loop in RenamePass ends in a state as described.
LEMMA LoopEnds ==
    ASSUME TypeInv, GraphInv, NEW P, NEW g, Ready(P, g), NEW s, s = RenameCodes(code[g]),
           NEW n, n = Len(code[g])
    PROVE  LoopState(P, g, n, s) /\ n \in Nat
<1>1. Len(code[g]) \in Nat
  <2>1. code \in [Groups -> Seq(Shaped)] /\ g \in Groups
    BY DEF TypeInv, Ready
  <2> QED
    BY <2>1, CodeOf
<1>2. PICK F : IsRenaming(code[g], Len(code[g]), F) /\ RenameCodes(code[g]) = F[Len(code[g])]
  BY <1>1, RenamingIs
<1>3. \A m \in 0 .. Len(code[g]) : LoopState(P, g, m, F[m])
  BY <1>2, LoopRuns
<1>4. LoopState(P, g, n, F[n])
  BY <1>1, <1>3
<1> QED
  BY <1>1, <1>2, <1>4

\* What RenamePass makes of the codes.
LEMMA CodesRenamed ==
    ASSUME TypeInv, GraphInv, NEW P, NEW g, Ready(P, g), PhisKnown(P, original, code),
           NEW s, NEW n, n = Len(code[g]), LoopState(P, g, n, s), GroupRenamed(g, s)
    PROVE  CodeAfter(P, g, s)
<1>1. g \in Groups /\ AreVariables(P)
  BY DEF Ready
<1>2. s \in RenameStates /\ NamesSoFar(P, g, s)
  BY DEF LoopState
<1>3. PICK nm \in Maps(Seq(Values)) : nm = s.names
  BY <1>2 DEF RenameStates
<1>4. DOMAIN nm = P
  BY <1>2, <1>3 DEF NamesSoFar
<1>5. PICK d \in [Groups -> Seq(Shaped)] : d = Replaced(g, s)
  BY <1>1, <1>2, ReplacedIs
<1>6. PICK e : e = code'
  OBVIOUS
<1>7. e = Filled(g, d, nm)
  BY <1>3, <1>5, <1>6 DEF GroupRenamed, Replaced
<1>8. PhisKnown(P, original, d)
  BY <1>1, <1>5, ReplacedKnown
<1>9. ASSUME NEW f \in Groups
      PROVE  Len(e[f]) = Len(d[f]) /\ \A m \in 1 .. Len(d[f]) : FilledFor(P, g, f, nm, d[f][m], e[f][m])
  <2>1. ASSUME NEW m \in 1 .. Len(d[f]) PROVE FilledFor(P, g, f, nm, d[f][m], e[f][m])
    <3>1. d[f][m].op = "phi" => PhiKnown(f, P, original, d[f][m])
      BY <1>8 DEF PhisKnown
    <3> QED
      BY <1>1, <1>4, <1>7, <3>1, FillingFills
  <2>2. Len(e[f]) = Len(d[f])
    <3>1. d[f] \in Seq(Shaped) /\ DOMAIN d[f] = 1 .. Len(d[f]) /\ Len(d[f]) \in Nat
      BY CodeOf
    <3> QED
      BY <1>7, <3>1 DEF Filled
  <2> QED
    BY <2>1, <2>2
<1> QED
  BY <1>3, <1>5, <1>6, <1>9 DEF CodeAfter

\* Each code is one that was there before or that the loop kept, but for the sources of phis.
LEMMA CodeWas ==
    ASSUME TypeInv, NEW P, NEW g \in Groups, NEW s \in RenameStates, CodeAfter(P, g, s), NEW f \in Groups,
           NEW m \in 1 .. Len(code'[f])
    PROVE  /\ f = g => m \in 1 .. Len(s.out) /\ FilledFor(P, g, f, s.names, s.out[m], code'[f][m])
           /\ f # g => m \in 1 .. Len(code[f]) /\ FilledFor(P, g, f, s.names, code[f][m], code'[f][m])
<1>1. PICK d : d = Replaced(g, s)
  OBVIOUS
<1>2. d[g] = s.out /\ (f # g => d[f] = code[f])
  BY <1>1, ReplacedIs
<1>3. m \in 1 .. Len(d[f]) /\ FilledFor(P, g, f, s.names, d[f][m], code'[f][m])
  BY <1>1 DEF CodeAfter
<1> QED
  BY <1>2, <1>3

\* And each of those is there.
LEMMA CodeIs ==
    ASSUME TypeInv, NEW P, NEW g \in Groups, NEW s \in RenameStates, CodeAfter(P, g, s), NEW f \in Groups
    PROVE  /\ f = g => Len(code'[f]) = Len(s.out)
           /\ f # g => Len(code'[f]) = Len(code[f])
<1>1. PICK d : d = Replaced(g, s)
  OBVIOUS
<1>2. d[g] = s.out /\ (f # g => d[f] = code[f])
  BY <1>1, ReplacedIs
<1>3. Len(code'[f]) = Len(d[f])
  BY <1>1 DEF CodeAfter
<1> QED
  BY <1>2, <1>3

\* No phi comes or goes.
LEMMA PhisStay ==
    ASSUME TypeInv, NEW P, NEW g \in Groups, NEW s, NEW n, n = Len(code[g]), LoopState(P, g, n, s), CodeAfter(P, g, s)
    PROVE  SamePhis(P, code', code)
<1>1. s \in RenameStates /\ KeptSoFar(P, g, n, s)
  BY DEF LoopState
<1>2. ASSUME NEW h \in Groups, NEW v \in P, HasPhi(code', h, v) PROVE HasPhi(code, h, v)
  <2>1. PICK m \in 1 .. Len(code'[h]) : IsPhiFor(h, v, code'[h][m])
    BY <1>2 DEF HasPhi
  <2>2. CASE h = g
    <3>1. m \in 1 .. Len(s.out) /\ FilledFor(P, g, g, s.names, s.out[m], code'[g][m])
      BY <1>1, <2>1, <2>2, CodeWas
    <3>2. s.out[m].op = "phi" /\ s.out[m].id = PhiOf(g, v[2])
      BY <2>1, <2>2, <3>1 DEF FilledFor, IsPhiFor
    <3>3. PICK k \in 1 .. n : s.out[m] = code[g][k]
      BY <1>1, <3>1, <3>2 DEF KeptSoFar
    <3> QED
      BY <2>2, <3>2, <3>3 DEF HasPhi, IsPhiFor
  <2>3. CASE h # g
    <3>1. m \in 1 .. Len(code[h]) /\ FilledFor(P, g, h, s.names, code[h][m], code'[h][m])
      BY <1>1, <2>1, <2>3, CodeWas
    <3> QED
      BY <2>1, <3>1 DEF FilledFor, HasPhi, IsPhiFor
  <2> QED
    BY <2>2, <2>3
<1>3. ASSUME NEW h \in Groups, NEW v \in P, HasPhi(code, h, v) PROVE HasPhi(code', h, v)
  <2>1. PICK m \in 1 .. Len(code[h]) : IsPhiFor(h, v, code[h][m])
    BY <1>3 DEF HasPhi
  <2>2. CASE h = g
    <3>1. PICK k \in 1 .. Len(s.out) : s.out[k] = code[g][m]
      BY <1>1, <2>1, <2>2 DEF KeptSoFar, IsPhiFor
    <3>2. k \in 1 .. Len(code'[g])
      BY <1>1, CodeIs
    <3>3. FilledFor(P, g, g, s.names, s.out[k], code'[g][k])
      BY <1>1, <3>2, CodeWas
    <3> QED
      BY <2>1, <2>2, <3>1, <3>2, <3>3 DEF FilledFor, HasPhi, IsPhiFor
  <2>3. CASE h # g
    <3>1. m \in 1 .. Len(code'[h])
      BY <1>1, <2>3, CodeIs
    <3>2. FilledFor(P, g, h, s.names, code[h][m], code'[h][m])
      BY <1>1, <2>3, <3>1, CodeWas
    <3> QED
      BY <2>1, <3>1, <3>2 DEF FilledFor, HasPhi, IsPhiFor
  <2> QED
    BY <2>2, <2>3
<1> QED
  BY <1>2, <1>3 DEF SamePhis

\* So what is there stays there.
LEMMA StaysGood ==
    ASSUME NEW P, NEW c, NEW d, SamePhis(P, d, c), NEW g, NEW x, Good(c, P, g, x)
    PROVE  Good(d, P, g, x)
<1>1. \A h \in Dominators(follows, g) : h \in Groups
  BY DEF Dominators
<1> QED
  BY <1>1 DEF Good, SamePhis

\* And is there in the groups below.
LEMMA GoodBelow ==
    ASSUME GraphInv, NEW P, NEW c, NEW h \in Groups, NEW d \in Dominators(follows, h), NEW x, Good(c, P, d, x)
    PROVE  Good(c, P, h, x)
<1>1. Dominators(follows, d) \subseteq Dominators(follows, h)
  BY DominatesTransitive DEF GraphInv, IsConnected
<1> QED
  BY <1>1 DEF Good

-----------------------------------------------------------------------------
(***************************************************************************)
(* The codes while a round renames: R are the groups that are renamed.     *)
(***************************************************************************)
GroupsClosed(R) == R \subseteq Groups /\ \A h \in R : Dominators(follows, h) \subseteq R
BodiesLeft(P, R, codes) ==
    \A g \in Groups \ R : GroupBody(P, Loads(source, g), Before(follows, source, g), codes[g])
GroupsRenamed(P, R, codes) ==
    \A g \in R : \A n \in 1 .. Len(codes[g]) : RenamedCode(codes, P, g, codes[g][n])
NamesOut(P, R, out, codes) == \A g \in R : \A v \in P : Good(codes, P, g, out[g][v])
Replacements(P, R, tmp, codes) ==
    /\ \A h \in R : \A x \in Loads(source, h) : x \in DOMAIN tmp /\ Good(codes, P, h, tmp[x])
    /\ \A x \in DOMAIN tmp : \E h \in R : x \in Loads(source, h)

CodesInv(P, R, out) ==
    /\ AreVariables(P) /\ GroupsClosed(R)
    /\ BodiesLeft(P, R, code) /\ GroupsRenamed(P, R, code)
    /\ PhisKnown(P, original, code) /\ PhisFilled(P, R, out, code) /\ PhisSpread(P, code)
    /\ NamesOut(P, R, out, code) /\ Replacements(P, R, temporary, code)

\* No two groups load the same result.
LEMMA LoadsDiffer ==
    ASSUME GraphInv, NEW g \in Groups, NEW h \in Groups, NEW x \in Loads(source, g), x \in Loads(source, h)
    PROVE  g = h
<1>1. x[1] = "code"
  BY LoadsAre
<1>2. PICK n \in 1 .. Len(source[g]) : source[g][n].id = x
  BY LoadsAre
<1>3. PICK m \in 1 .. Len(source[h]) : source[h][m].id = x
  BY LoadsAre
<1>4. x # Nothing
  BY <1>1 DEF Nothing
<1>5. n \in DOMAIN source[g] /\ m \in DOMAIN source[h]
  BY CodeOf DEF GraphInv
<1>6. \A k \in Groups : \A j \in DOMAIN source[k] :
          source[k][j].id = source[g][n].id /\ source[g][n].id # Nothing => k = g /\ j = n
  BY <1>5 DEF GraphInv, IsFunction
<1> QED
  BY <1>2, <1>3, <1>4, <1>5, <1>6

\* A group whose strict dominators are renamed can be renamed.
LEMMA GetsReady ==
    ASSUME TypeInv, GraphInv, NEW P, NEW R, NEW out, CodesInv(P, R, out), DOMAIN names = P,
           NEW g \in Groups \ R, StrictDominators(follows, g) \subseteq R,
           \A v \in P : Len(names[v]) >= 1 /\ Good(code, P, g, Top(names, v))
    PROVE  Ready(P, g)
<1>1. GroupBody(P, Loads(source, g), Before(follows, source, g), code[g])
  BY DEF CodesInv, BodiesLeft
<1>2. ASSUME NEW x \in Before(follows, source, g) PROVE x \in DOMAIN temporary /\ Good(code, P, g, temporary[x])
  <2>1. PICK d \in StrictDominators(follows, g) : x \in Loads(source, d)
    BY DEF Before
  <2>2. d \in R /\ d \in Dominators(follows, g)
    BY DEF StrictDominators
  <2>3. x \in DOMAIN temporary /\ Good(code, P, d, temporary[x])
    BY <2>1, <2>2 DEF CodesInv, Replacements
  <2>4. PICK y : y = temporary[x]
    OBVIOUS
  <2>5. Good(code, P, g, y)
    BY <2>2, <2>3, <2>4, GoodBelow
  <2> QED
    BY <2>3, <2>4, <2>5
<1>3. ASSUME NEW x \in DOMAIN temporary PROVE x[1] = "code" /\ x \notin Loads(source, g)
  <2>1. PICK h \in R : x \in Loads(source, h)
    BY DEF CodesInv, Replacements
  <2>2. h \in Groups /\ h # g
    BY DEF CodesInv, GroupsClosed
  <2> QED
    BY <2>1, <2>2, LoadsAre, LoadsDiffer
<1>4. \A n \in 1 .. Len(code[g]) : code[g][n].op = "phi" => PhiKnown(g, P, original, code[g][n])
  BY DEF CodesInv, PhisKnown
<1>5. \A v \in P : HasPhi(code, g, v) \/ HasStore(code, g, v) => Spreads(code, g, v)
  BY DEF CodesInv, PhisSpread
<1>6. AreVariables(P)
  BY DEF CodesInv
<1> QED
  BY <1>1, <1>2, <1>3, <1>4, <1>5, <1>6 DEF Ready

\* Filling the sources of phis does not change the rest of a group.
LEMMA FilledBody ==
    ASSUME NEW K, NEW L, NEW A, NEW c, GroupBody(K, L, A, c), Len(c) \in Nat, NEW P, NEW g, NEW f, NEW nm, NEW d, Len(d) = Len(c),
           \A n \in 1 .. Len(c) : FilledFor(P, g, f, nm, c[n], d[n])
    PROVE  GroupBody(K, L, A, d)
<1>1. ASSUME NEW n \in 1 .. Len(c)
      PROVE  d[n].op = c[n].op /\ (c[n].op # "phi" => d[n] = c[n])
  BY DEF FilledFor
<1>2. ASSUME NEW n \in 1 .. Len(c), NEW x, Available(A, c, n, x) PROVE Available(A, d, n, x)
  <2>1. CASE x[1] = "constant" \/ x \in A
    BY <2>1 DEF Available
  <2>2. CASE \E m \in 1 .. n - 1 : c[m].op = "load" /\ c[m].id = x
    <3>1. PICK m \in 1 .. n - 1 : c[m].op = "load" /\ c[m].id = x
      BY <2>2
    <3>2. m \in 1 .. Len(c)
      BY <3>1
    <3> QED
      BY <1>1, <3>1, <3>2 DEF Available
  <2> QED
    BY <1>2, <2>1, <2>2 DEF Available
<1>3. ASSUME NEW n \in 1 .. Len(c) PROVE BodyCode(K, L, A, d, n)
  <2>1. BodyCode(K, L, A, c, n)
    BY DEF GroupBody
  <2>2. CASE c[n].op = "phi"
    <3>1. d[n].op = "phi"
      BY <1>1, <2>2
    <3>2. ASSUME NEW m \in 1 .. n PROVE d[m].op = "phi"
      <4>1. m \in 1 .. Len(c) /\ c[m].op = "phi"
        BY <2>1, <2>2 DEF BodyCode
      <4> QED
        BY <1>1, <4>1
    <3> QED
      BY <3>1, <3>2 DEF BodyCode, Direct
  <2>3. CASE c[n].op # "phi"
    <3>1. d[n] = c[n]
      BY <1>1, <2>3
    <3>2. c[n].op = "store" => Available(A, d, n, c[n].args[1])
      BY <1>2, <2>1 DEF BodyCode
    <3>3. c[n].op = "use" => \A k \in 1 .. Len(c[n].args) : Available(A, d, n, c[n].args[k])
      BY <1>2, <2>1 DEF BodyCode
    <3> QED
      BY <2>1, <2>3, <3>1, <3>2, <3>3 DEF BodyCode, Direct
  <2> QED
    BY <2>2, <2>3
<1>4. ASSUME NEW x \in L PROVE \E n \in 1 .. Len(d) : d[n].op = "load" /\ d[n].id = x
  <2>1. PICK n \in 1 .. Len(c) : c[n].op = "load" /\ c[n].id = x
    BY DEF GroupBody
  <2> QED
    BY <1>1, <2>1
<1> QED
  BY <1>3, <1>4 DEF GroupBody

\* The groups that are left.
LEMMA BodiesAfter ==
    ASSUME TypeInv, NEW P, NEW R, BodiesLeft(P, R, code), NEW g \in Groups, NEW s \in RenameStates, CodeAfter(P, g, s),
           NEW Q, Q = R \cup {g}
    PROVE  BodiesLeft(P, Q, code')
<1>1. ASSUME NEW f \in Groups \ Q PROVE GroupBody(P, Loads(source, f), Before(follows, source, f), code'[f])
  <2>1. f # g /\ f \in Groups /\ GroupBody(P, Loads(source, f), Before(follows, source, f), code[f])
    BY DEF BodiesLeft
  <2>2. Len(code[f]) \in Nat /\ Len(code'[f]) = Len(code[f])
    BY <2>1, CodeIs, CodeOf DEF TypeInv
  <2>3. PICK c : c = code[f]
    OBVIOUS
  <2>4. PICK d : d = code'[f]
    OBVIOUS
  <2>5. \A n \in 1 .. Len(c) : FilledFor(P, g, f, s.names, c[n], d[n])
    BY <2>1, <2>2, <2>3, <2>4, CodeWas
  <2>6. PICK L : L = Loads(source, f)
    OBVIOUS
  <2>7. PICK A : A = Before(follows, source, f)
    OBVIOUS
  <2>8. PICK nm : nm = s.names
    OBVIOUS
  <2>9. GroupBody(P, L, A, c) /\ Len(c) \in Nat /\ Len(d) = Len(c)
    BY <2>1, <2>2, <2>3, <2>4, <2>6, <2>7
  <2>10. \A n \in 1 .. Len(c) : FilledFor(P, g, f, nm, c[n], d[n])
    BY <2>5, <2>8
  <2>11. GroupBody(P, L, A, d)
    BY ONLY <2>9, <2>10, FilledBody
  <2> QED
    BY <2>4, <2>6, <2>7, <2>11
<1> QED
  BY <1>1 DEF BodiesLeft

\* The groups that are renamed.
LEMMA RenamedAfter ==
    ASSUME TypeInv, NEW P, NEW R, GroupsClosed(R), GroupsRenamed(P, R, code), NEW g \in Groups, NEW s, NEW n, n = Len(code[g]), LoopState(P, g, n, s),
           CodeAfter(P, g, s), NEW Q, Q = R \cup {g}, g \notin R
    PROVE  GroupsRenamed(P, Q, code')
<1>1. s \in RenameStates /\ KeptSoFar(P, g, n, s)
  BY DEF LoopState
<1>2. SamePhis(P, code', code)
  BY PhisStay
<1>3. ASSUME NEW f \in Groups, NEW i, NEW j, RenamedCode(code, P, f, i), FilledFor(P, g, f, s.names, i, j)
      PROVE  RenamedCode(code', P, f, j)
  <2>1. j.op = i.op /\ j.id = i.id /\ (i.op # "phi" => j = i)
    BY <1>3 DEF FilledFor
  <2>2. i.op = "use" => \A k \in 1 .. Len(i.args) : Good(code', P, f, i.args[k])
    BY <1>2, <1>3, StaysGood DEF RenamedCode
  <2> QED
    BY <1>3, <2>1, <2>2 DEF RenamedCode
<1>4. ASSUME NEW f \in Q, NEW m \in 1 .. Len(code'[f]) PROVE RenamedCode(code', P, f, code'[f][m])
  <2>1. f \in Groups
    BY DEF GroupsClosed
  <2>2. CASE f = g
    <3>1. m \in 1 .. Len(s.out) /\ FilledFor(P, g, f, s.names, s.out[m], code'[f][m])
      BY <1>1, <2>1, <2>2, CodeWas
    <3>2. RenamedCode(code, P, f, s.out[m])
      BY <1>1, <2>2, <3>1 DEF KeptSoFar
    <3> QED
      BY <1>3, <2>1, <3>1, <3>2
  <2>3. CASE f # g
    <3>1. m \in 1 .. Len(code[f]) /\ FilledFor(P, g, f, s.names, code[f][m], code'[f][m])
      BY <1>1, <2>1, <2>3, CodeWas
    <3>2. RenamedCode(code, P, f, code[f][m])
      BY <2>3, <3>1 DEF GroupsRenamed
    <3> QED
      BY <1>3, <2>1, <3>1, <3>2
  <2> QED
    BY <2>2, <2>3
<1> QED
  BY <1>4 DEF GroupsRenamed

\* The phis stay known.
LEMMA KnownAfter ==
    ASSUME TypeInv, NEW P, PhisKnown(P, original, code), NEW g \in Groups, NEW s, NEW n, n = Len(code[g]), LoopState(P, g, n, s),
           CodeAfter(P, g, s), GroupRenamed(g, s), precedes' = precedes
    PROVE  PhisKnown(P, original, code)'
<1>1. s \in RenameStates
  BY DEF LoopState
<1>2. PICK d : d = Replaced(g, s)
  OBVIOUS
<1>3. PhisKnown(P, original, d)
  BY <1>2, ReplacedKnown
<1>4. \A x \in DOMAIN original : x \in DOMAIN original' /\ original'[x] = original[x]
  BY DEF GroupRenamed, VariableOf
<1>5. ASSUME NEW f \in Groups, NEW m \in 1 .. Len(code'[f]), code'[f][m].op = "phi"
      PROVE  PhiKnown(f, P, original, code[f][m])'
  <2>1. m \in 1 .. Len(d[f]) /\ FilledFor(P, g, f, s.names, d[f][m], code'[f][m])
    BY <1>2 DEF CodeAfter
  <2>2. d[f][m].op = "phi"
    BY <1>5, <2>1 DEF FilledFor
  <2>3. PhiKnown(f, P, original, d[f][m])
    BY <1>3, <2>1, <2>2 DEF PhisKnown
  <2>4. code'[f][m].id = d[f][m].id /\ Len(code'[f][m].args) = Len(d[f][m].args)
    BY <2>1 DEF FilledFor
  <2> QED
    BY <1>4, <2>3, <2>4 DEF PhiKnown
<1> QED
  BY <1>5 DEF PhisKnown

\* Their sources are filled.
LEMMA FilledAfter ==
    ASSUME TypeInv, NEW P, NEW R, NEW out, PhisKnown(P, original, code), PhisFilled(P, R, out, code), AreVariables(P),
           NEW g \in Groups, g \notin R, NEW s, NEW n, n = Len(code[g]), LoopState(P, g, n, s),
           CodeAfter(P, g, s), NEW Q, Q = R \cup {g}, NEW now,
           \A v \in P : now[g][v] = Top(s.names, v), \A h \in R : now[h] = out[h], precedes' = precedes
    PROVE  PhisFilled(P, Q, now, code)'
<1>1. s \in RenameStates /\ KeptSoFar(P, g, n, s)
  BY DEF LoopState
<1>2. ASSUME NEW f \in Groups, NEW i, i.op = "phi", NEW m \in 1 .. Len(code[f]), i = code[f][m], NEW j, FilledFor(P, g, f, s.names, i, j)
      PROVE  PhiFilled(f, P, Q, now, j)
  <2>1. PhiFilled(f, P, R, out, i) /\ Len(i.args) = Len(precedes[f])
    BY <1>2 DEF PhisFilled, PhisKnown, PhiKnown
  <2>2. ASSUME NEW v \in P, j.id = PhiOf(f, v[2]), NEW k \in 1 .. Len(precedes[f])
        PROVE  j.args[k] = SourceFor(Q, now, precedes[f][k], v)
    <3>1. i.id = PhiOf(f, v[2])
      BY <1>2, <2>2 DEF FilledFor
    <3>2. i.args[k] = SourceFor(R, out, precedes[f][k], v)
      BY <2>1, <3>1 DEF PhiFilled
    <3>3. j.args[k] = IF precedes[f][k] = g THEN Top(s.names, v) ELSE i.args[k]
      BY <1>2, <2>1, <3>1 DEF FilledFor
    <3>4. CASE precedes[f][k] = g
      BY <3>3, <3>4 DEF SourceFor
    <3>5. CASE precedes[f][k] # g
      BY <3>2, <3>3, <3>5 DEF SourceFor
    <3> QED
      BY <3>4, <3>5
  <2> QED
    BY <2>2 DEF PhiFilled
<1>3. ASSUME NEW f \in Groups, NEW m \in 1 .. Len(code'[f]), code'[f][m].op = "phi"
      PROVE  PhiFilled(f, P, Q, now, code'[f][m])
  <2>1. CASE f = g
    <3>1. m \in 1 .. Len(s.out) /\ FilledFor(P, g, g, s.names, s.out[m], code'[g][m])
      BY <1>1, <2>1, CodeWas
    <3>2. s.out[m].op = "phi"
      BY <1>3, <2>1, <3>1 DEF FilledFor
    <3>3. PICK k \in 1 .. Len(code[g]) : s.out[m] = code[g][k]
      BY <1>1, <3>1, <3>2 DEF KeptSoFar
    <3>4. PICK i : i = code[g][k]
      OBVIOUS
    <3>5. PICK j : j = code'[g][m]
      OBVIOUS
    <3>6. PhiFilled(g, P, Q, now, j)
      BY <1>2, <3>1, <3>2, <3>3, <3>4, <3>5
    <3> QED
      BY <2>1, <3>5, <3>6
  <2>2. CASE f # g
    <3>1. m \in 1 .. Len(code[f]) /\ FilledFor(P, g, f, s.names, code[f][m], code'[f][m])
      BY <1>1, <2>2, CodeWas
    <3>2. code[f][m].op = "phi"
      BY <1>3, <3>1 DEF FilledFor
    <3>4. PICK i : i = code[f][m]
      OBVIOUS
    <3>5. PICK j : j = code'[f][m]
      OBVIOUS
    <3>6. PhiFilled(f, P, Q, now, j)
      BY <1>2, <3>1, <3>2, <3>4, <3>5
    <3> QED
      BY <3>5, <3>6
  <2> QED
    BY <2>1, <2>2
<1> QED
  BY <1>3 DEF PhisFilled, PhiFilled

\* The phis that a variable needs stay.
LEMMA SpreadAfter ==
    ASSUME TypeInv, NEW P, PhisSpread(P, code), NEW g \in Groups, NEW s, NEW n, n = Len(code[g]), LoopState(P, g, n, s),
           CodeAfter(P, g, s), follows' = follows
    PROVE  PhisSpread(P, code)'
<1>1. s \in RenameStates /\ KeptSoFar(P, g, n, s)
  BY DEF LoopState
<1>2. SamePhis(P, code', code)
  BY PhisStay
<1>3. ASSUME NEW f \in Groups, NEW v \in P, HasStore(code', f, v) PROVE HasStore(code, f, v)
  <2>1. PICK m \in 1 .. Len(code'[f]) : code'[f][m].op = "store" /\ code'[f][m].args[2] = v
    BY <1>3 DEF HasStore
  <2>2. f # g
    <3>1. SUFFICES ASSUME f = g PROVE FALSE
      OBVIOUS
    <3>2. m \in 1 .. Len(s.out) /\ FilledFor(P, g, g, s.names, s.out[m], code'[g][m])
      BY <1>1, <3>1, CodeWas
    <3>3. s.out[m].op = "store" /\ RenamedCode(code, P, g, s.out[m])
      BY <1>1, <2>1, <3>1, <3>2 DEF KeptSoFar, FilledFor
    <3> QED
      BY <3>3 DEF RenamedCode
  <2>3. m \in 1 .. Len(code[f]) /\ FilledFor(P, g, f, s.names, code[f][m], code'[f][m])
    BY <1>1, <2>2, CodeWas
  <2> QED
    BY <2>1, <2>3 DEF FilledFor, HasStore
<1>4. ASSUME NEW f \in Groups, NEW v \in P, HasPhi(code', f, v) \/ HasStore(code', f, v) PROVE Spreads(code', f, v)
  <2>1. HasPhi(code, f, v) \/ HasStore(code, f, v)
    BY <1>2, <1>3, <1>4 DEF SamePhis
  <2>2. Spreads(code, f, v)
    BY <2>1 DEF PhisSpread
  <2>3. Frontier(follows, f) \subseteq Groups
    BY FrontierIs
  <2> QED
    BY <1>2, <2>2, <2>3 DEF Spreads, SamePhis
<1>5. ASSUME NEW f \in Groups, NEW v \in P, HasPhi(code, f, v)' \/ HasStore(code, f, v)' PROVE Spreads(code, f, v)'
  <2>1. HasPhi(code', f, v) \/ HasStore(code', f, v)
    BY <1>5 DEF HasPhi, HasStore, IsPhiFor
  <2>2. Spreads(code', f, v)
    BY <1>4, <2>1
  <2> QED
    BY <2>2 DEF Spreads, HasPhi, IsPhiFor
<1> QED
  BY <1>5 DEF PhisSpread

\* Being there does not depend on anything else.
LEMMA GoodNext ==
    ASSUME NEW P, NEW g, NEW x, Good(code', P, g, x), follows' = follows
    PROVE  Good(code, P, g, x)'
  BY DEF Good, HasPhi, IsPhiFor

\* The names the groups end with.
LEMMA OutAfter ==
    ASSUME TypeInv, NEW P, NEW R, NEW out, NamesOut(P, R, out, code), NEW g \in Groups, NEW s, NEW n, n = Len(code[g]), LoopState(P, g, n, s),
           CodeAfter(P, g, s), NEW Q, Q = R \cup {g}, NEW now,
           \A v \in P : now[g][v] = Top(s.names, v), \A h \in R : now[h] = out[h], g \notin R
    PROVE  NamesOut(P, Q, now, code')
<1>1. NamesSoFar(P, g, s)
  BY DEF LoopState
<1>2. SamePhis(P, code', code)
  BY PhisStay
<1>3. ASSUME NEW h \in Q, NEW v \in P PROVE Good(code', P, h, now[h][v])
  <2>1. PICK x : x = now[h][v]
    OBVIOUS
  <2>2. Good(code, P, h, x)
    BY <1>1, <2>1 DEF NamesSoFar, NamesOut
  <2>3. Good(code', P, h, x)
    BY <1>2, <2>2, StaysGood
  <2> QED
    BY <2>1, <2>3
<1> QED
  BY <1>3 DEF NamesOut

\* The replacements of the loads.
LEMMA ReplacementsAfter ==
    ASSUME TypeInv, NEW P, NEW R, Replacements(P, R, temporary, code), NEW g \in Groups, NEW s, NEW n, n = Len(code[g]), LoopState(P, g, n, s),
           Ready(P, g), CodeAfter(P, g, s), NEW Q, Q = R \cup {g}
    PROVE  Replacements(P, Q, s.temporary, code')
<1>1. LoadsSoFar(P, g, n, s)
  BY DEF LoopState
<1>2. SamePhis(P, code', code)
  BY PhisStay
<1>3. ASSUME NEW h \in Q, NEW x \in Loads(source, h) PROVE x \in DOMAIN s.temporary /\ Good(code, P, h, s.temporary[x])
  <2>1. CASE h \in R
    BY <1>1, <2>1 DEF LoadsSoFar, Replacements
  <2>2. CASE h = g
    <3>1. PICK m \in 1 .. n : code[g][m].op = "load" /\ code[g][m].id = x
      BY <2>2 DEF Ready, GroupBody
    <3>2. x \in DOMAIN s.temporary
      BY <1>1, <3>1 DEF LoadsSoFar
    <3>3. x \notin DOMAIN temporary
      BY <2>2 DEF Ready
    <3> QED
      BY <1>1, <2>2, <3>2, <3>3 DEF LoadsSoFar
  <2> QED
    BY <2>1, <2>2
<1>4. ASSUME NEW h \in Q, NEW x \in Loads(source, h) PROVE Good(code', P, h, s.temporary[x])
  <2>1. PICK y : y = s.temporary[x]
    OBVIOUS
  <2>2. Good(code', P, h, y)
    BY <1>2, <1>3, <2>1, StaysGood
  <2> QED
    BY <2>1, <2>2
<1>5. ASSUME NEW x \in DOMAIN s.temporary PROVE \E h \in Q : x \in Loads(source, h)
  BY <1>1 DEF LoadsSoFar, Replacements
<1> QED
  BY <1>3, <1>4, <1>5 DEF Replacements

\* Renaming a group.
LEMMA RenameCodesInv ==
    ASSUME TypeInv, GraphInv, NEW P, NEW R, NEW out, CodesInv(P, R, out), NEW g \in Groups \ R, StrictDominators(follows, g) \subseteq R,
           Ready(P, g), NEW s, NEW n, n = Len(code[g]), LoopState(P, g, n, s), GroupRenamed(g, s), UNCHANGED graph,
           NEW Q, Q = R \cup {g}, NEW now, \A v \in P : now[g][v] = Top(s.names, v), \A h \in R : now[h] = out[h]
    PROVE  CodesInv(P, Q, now)'
<1>1. s \in RenameStates /\ g \in Groups /\ g \notin R
  BY DEF LoopState
<1>2. /\ AreVariables(P) /\ GroupsClosed(R)
      /\ BodiesLeft(P, R, code) /\ GroupsRenamed(P, R, code)
      /\ PhisKnown(P, original, code) /\ PhisFilled(P, R, out, code) /\ PhisSpread(P, code)
      /\ NamesOut(P, R, out, code) /\ Replacements(P, R, temporary, code)
  BY DEF CodesInv
<1>3. CodeAfter(P, g, s)
  BY <1>2, CodesRenamed
<1>4. follows' = follows /\ precedes' = precedes /\ source' = source
  BY DEF graph
<1>5. GroupsClosed(Q)'
  <2>1. Dominators(follows, g) \subseteq Q
    BY DEF StrictDominators
  <2> QED
    BY <1>2, <1>4, <2>1 DEF GroupsClosed
<1>6. BodiesLeft(P, Q, code)'
  <2>1. BodiesLeft(P, Q, code')
    BY <1>1, <1>2, <1>3, BodiesAfter
  <2> QED
    BY <1>4, <2>1 DEF BodiesLeft
<1>7. GroupsRenamed(P, Q, code)'
  <2>1. GroupsRenamed(P, Q, code')
    BY <1>1, <1>2, <1>3, RenamedAfter
  <2> QED
    BY <1>4, <2>1, GoodNext DEF GroupsRenamed, RenamedCode
<1>8. PhisKnown(P, original, code)'
  BY <1>1, <1>2, <1>3, <1>4, KnownAfter
<1>9. PhisFilled(P, Q, now, code)'
  BY <1>1, <1>2, <1>3, <1>4, FilledAfter
<1>10. PhisSpread(P, code)'
  BY <1>1, <1>2, <1>3, <1>4, SpreadAfter
<1>11. NamesOut(P, Q, now, code)'
  <2>1. NamesOut(P, Q, now, code')
    BY <1>1, <1>2, <1>3, OutAfter
  <2> QED
    BY <1>4, <2>1, GoodNext DEF NamesOut
<1>12. Replacements(P, Q, temporary, code)'
  <2>1. Replacements(P, Q, s.temporary, code')
    BY <1>1, <1>2, <1>3, ReplacementsAfter
  <2>2. temporary' = s.temporary
    BY DEF GroupRenamed
  <2>3. Replacements(P, Q, temporary', code')
    BY <2>1, <2>2
  <2> QED
    BY <1>4, <2>3, GoodNext DEF Replacements
<1>13. AreVariables(P)'
  BY <1>2 DEF AreVariables
<1> QED
  BY <1>5, <1>6, <1>7, <1>8, <1>9, <1>10, <1>11, <1>12, <1>13 DEF CodesInv

-----------------------------------------------------------------------------
(***************************************************************************)
(* The walk of the recursion over the dominator tree.                      *)
(***************************************************************************)
\* Each call is for a group of its own, and what is to do are children; of a renamed
\* group every child is renamed or to do.
WalkTree(R) ==
    /\ Entry \in R /\ Len(stack) >= 1
    /\ \A j \in 1 .. Len(stack) :
           /\ stack[j].group \in R /\ stack[j].todo \subseteq Kids(follows, stack[j].group)
           /\ stack[j].todo \cap R = {}
    /\ \A i, j \in 1 .. Len(stack) : stack[i].group = stack[j].group => i = j
    /\ \A g \in R : \A c \in Kids(follows, g) : c \in R \/ \E j \in 1 .. Len(stack) : c \in stack[j].todo

\* Each call ends with the names of its group: there were h[j][v] of variable v then, and
\* as many fewer before it as it has counted.
WalkNames(P, out, h) ==
    /\ DOMAIN names = P
    /\ \A v \in P : \A j \in 1 .. Len(stack) :
           /\ h[j][v] \in Nat /\ 1 <= h[j][v] /\ h[j][v] <= Len(names[v])
           /\ names[v][h[j][v]] = out[stack[j].group][v]
    /\ \A v \in P : h[Len(stack)][v] = Len(names[v])
    /\ \A v \in P : \A j \in 2 .. Len(stack) : h[j - 1][v] + Counted(stack[j].count, v) = h[j][v]

\* The stack u after a call for g with frame f, there being k calls before.
CallOf(g, f, u, k) ==
    /\ k \in Nat /\ k >= 1 /\ Len(u) = k + 1 /\ u[k + 1] = f /\ u[k].todo = stack[k].todo \ {g}
    /\ \A j \in 1 .. k : u[j].group = stack[j].group /\ u[j].count = stack[j].count
    /\ \A j \in 1 .. k : j # k => u[j].todo = stack[j].todo

\* What a call makes of the stack.
LEMMA CallIs ==
    ASSUME TypeInv, stack # <<>>, NEW g, NEW f, NEW u, u = Append(Called(g), f), NEW k, k = Len(stack)
    PROVE  CallOf(g, f, u, k)
<1>1. stack \in Seq(Frames) /\ k \in Nat /\ k >= 1 /\ DOMAIN stack = 1 .. k
  BY LenProperties, EmptySeq DEF TypeInv
<1>2. \A j \in 1 .. k : stack[j] \in Frames
  BY <1>1
<1>3. Called(g) = [stack EXCEPT ![k] = [stack[k] EXCEPT !.todo = stack[k].todo \ {g}]]
  BY DEF Called
<1>4. PICK t : t = Called(g)
  OBVIOUS
<1>5. t \in Seq(Frames)
  BY <1>4, CalledType DEF TypeInv
<1>6. Len(t) = k
  BY <1>1, <1>3, <1>4
<1>7. /\ t[k].todo = stack[k].todo \ {g}
      /\ \A j \in 1 .. k : t[j].group = stack[j].group /\ t[j].count = stack[j].count
      /\ \A j \in 1 .. k : j # k => t[j].todo = stack[j].todo
  BY <1>1, <1>2, <1>3, <1>4 DEF Frames
<1>8. Len(u) = k + 1 /\ u[k + 1] = f /\ \A j \in 1 .. k : u[j] = t[j]
  <2>1. u = Append(t, f)
    BY <1>4
  <2> QED
    BY <1>5, <1>6, <2>1, AppendProperties
<1>9. k \in 1 .. k
  BY <1>1
<1> QED
  BY <1>1, <1>7, <1>8, <1>9 DEF CallOf

\* The child that is called is not renamed, but its strict dominators are.
LEMMA CalledChild ==
    ASSUME TypeInv, GraphInv, NEW R, GroupsClosed(R), WalkTree(R), NEW k, k = Len(stack), NEW p, p = stack[k].group,
           NEW c \in stack[k].todo
    PROVE  /\ c \in Groups /\ c \notin R /\ StrictDominators(follows, c) \subseteq R
           /\ IsIdom(follows, p, c) /\ p \in R /\ p \in Dominators(follows, c) /\ c \in Kids(follows, p)
           /\ \A d \in Kids(follows, c) : d \notin R
<1>1. k \in 1 .. k
  BY LenProperties DEF WalkTree, TypeInv
<1>2. p \in R /\ c \in Kids(follows, p) /\ c \notin R
  BY <1>1 DEF WalkTree
<1>3. c \in Groups /\ IsIdom(follows, p, c) /\ p \in Dominators(follows, c) /\ Dominators(follows, c) = Dominators(follows, p) \cup {c}
  BY <1>2, GroupsAssumption, KidsAreDeeper DEF GraphInv
<1>4. StrictDominators(follows, c) \subseteq R
  BY <1>2, <1>3 DEF StrictDominators, GroupsClosed
<1>5. ASSUME NEW d \in Kids(follows, c), d \in R PROVE FALSE
  <2>1. c \in Dominators(follows, d)
    BY GroupsAssumption, KidsAreDeeper DEF GraphInv
  <2> QED
    BY <1>2, <1>5, <2>1 DEF GroupsClosed
<1> QED
  BY <1>2, <1>3, <1>4, <1>5

\* The walk once it is called.
LEMMA CallsTree ==
    ASSUME TypeInv, GraphInv, NEW R, GroupsClosed(R), WalkTree(R), NEW k, k = Len(stack), stack # <<>>,
           NEW g \in stack[k].todo, NEW s, stack' = Append(Called(g), NewFrame(g, s)), follows' = follows,
           NEW Q, Q = R \cup {g}
    PROVE  WalkTree(Q)'
<1>1. PICK p : p = stack[k].group
  OBVIOUS
<1>2. /\ g \in Groups /\ g \notin R /\ g \in Kids(follows, p)
      /\ \A d \in Kids(follows, g) : d \notin R
  BY <1>1, CalledChild
<1>3. NewFrame(g, s).group = g /\ NewFrame(g, s).todo = Kids(follows, g)
  BY <1>2 DEF NewFrame, GraphInv
<1>4. PICK u : u = stack'
  OBVIOUS
<1>5. PICK f : f = NewFrame(g, s)
  OBVIOUS
<1>6. /\ k \in Nat /\ k >= 1 /\ Len(u) = k + 1 /\ u[k + 1] = f /\ u[k].todo = stack[k].todo \ {g}
      /\ \A j \in 1 .. k : u[j].group = stack[j].group /\ u[j].count = stack[j].count
      /\ \A j \in 1 .. k : j # k => u[j].todo = stack[j].todo
  <2>1. u = Append(Called(g), f)
    BY <1>4, <1>5
  <2>2. CallOf(g, f, u, k)
    BY <2>1, CallIs
  <2> QED
    BY <2>2 DEF CallOf
<1>7. f.group = g /\ f.todo = Kids(follows, g)
  BY <1>3, <1>5
<1>8. g \notin Kids(follows, g)
  BY DEF Kids, IsIdom
<1>9. ASSUME NEW j \in 1 .. k, g \in stack[j].todo PROVE j = k
  <2>1. g \in Kids(follows, stack[j].group)
    BY <1>9 DEF WalkTree
  <2>2. PICK q : q = stack[j].group
    OBVIOUS
  <2>3. p = q
    BY <1>2, <2>1, <2>2, GroupsAssumption, IdomUnique DEF Kids, GraphInv
  <2>4. k \in 1 .. k
    BY <1>6
  <2> QED
    BY <1>1, <2>2, <2>3, <2>4 DEF WalkTree
<1>10. ASSUME NEW j \in 1 .. k + 1
       PROVE  u[j].group \in Q /\ u[j].todo \subseteq Kids(follows, u[j].group) /\ u[j].todo \cap Q = {}
  <2>1. CASE j = k + 1
    BY <1>2, <1>6, <1>7, <1>8, <2>1
  <2>2. CASE j # k + 1
    <3>1. j \in 1 .. k
      BY <1>6, <2>2
    <3>2. stack[j].group \in R /\ stack[j].todo \subseteq Kids(follows, stack[j].group) /\ stack[j].todo \cap R = {}
      BY <3>1 DEF WalkTree
    <3>3. u[j].todo \subseteq stack[j].todo /\ g \notin u[j].todo
      BY <1>6, <1>9, <3>1
    <3> QED
      BY <1>6, <3>1, <3>2, <3>3
  <2> QED
    BY <2>1, <2>2
<1>11. ASSUME NEW i \in 1 .. k + 1, NEW j \in 1 .. k + 1, u[i].group = u[j].group PROVE i = j
  <2>1. ASSUME NEW l \in 1 .. k PROVE u[l].group = stack[l].group /\ u[l].group # g
    <3>1. stack[l].group \in R
      BY DEF WalkTree
    <3> QED
      BY <1>2, <1>6, <3>1
  <2>2. CASE i = k + 1 \/ j = k + 1
    <3>1. \A l \in 1 .. k + 1 : l # k + 1 => l \in 1 .. k
      BY <1>6
    <3> QED
      BY <1>6, <1>7, <1>11, <2>1, <2>2, <3>1
  <2>3. CASE ~(i = k + 1 \/ j = k + 1)
    <3>1. i \in 1 .. k /\ j \in 1 .. k
      BY <1>6, <2>3
    <3>2. stack[i].group = stack[j].group
      BY <1>11, <2>1, <3>1
    <3> QED
      BY <3>1, <3>2 DEF WalkTree
  <2> QED
    BY <2>2, <2>3
<1>12. ASSUME NEW h \in Q, NEW c \in Kids(follows, h) PROVE c \in Q \/ \E j \in 1 .. k + 1 : c \in u[j].todo
  <2>1. CASE h = g
    <3>1. k + 1 \in 1 .. k + 1
      BY <1>6
    <3> QED
      BY <1>6, <1>7, <2>1, <3>1
  <2>2. CASE h # g
    <3>1. c \in R \/ \E j \in 1 .. k : c \in stack[j].todo
      BY <2>2 DEF WalkTree
    <3>2. ASSUME NEW j \in 1 .. k, c \in stack[j].todo, c # g PROVE c \in u[j].todo /\ j \in 1 .. k + 1
      BY <1>6, <3>2
    <3> QED
      BY <3>1, <3>2
  <2> QED
    BY <2>1, <2>2
<1>13. Entry \in Q /\ Len(u) >= 1
  BY <1>6 DEF WalkTree
<1> QED
  BY <1>4, <1>6, <1>10, <1>11, <1>12, <1>13 DEF WalkTree

\* The heights e are those of h with one more for the call of a group with names nm.
HigherBy(P, h, k, nm, e) ==
    /\ \A v \in P : e[k + 1][v] = Len(nm[v])
    /\ \A j \in 1 .. k : e[j] = h[j]

\* The names once a group is called.
LEMMA CallsNames ==
    ASSUME TypeInv, NEW P, NEW out, NEW h, WalkNames(P, out, h), NEW R, WalkTree(R), NEW k, k = Len(stack), stack # <<>>,
           NEW g, g \notin R, NEW s, NEW n, LoopState(P, g, n, s), stack' = Append(Called(g), NewFrame(g, s)), names' = s.names,
           NEW now, \A v \in P : now[g][v] = Top(s.names, v), \A x \in R : now[x] = out[x],
           NEW e, HigherBy(P, h, k, s.names, e)
    PROVE  WalkNames(P, now, e)'
<1>1. PICK u : u = stack'
  OBVIOUS
<1>2. PICK f : f = NewFrame(g, s)
  OBVIOUS
<1>3. CallOf(g, f, u, k)
  <2>1. u = Append(Called(g), f)
    BY <1>1, <1>2
  <2> QED
    BY <2>1, CallIs
<1>4. /\ k \in Nat /\ k >= 1 /\ Len(u) = k + 1 /\ u[k + 1] = f
      /\ \A j \in 1 .. k : u[j].group = stack[j].group /\ u[j].count = stack[j].count
  BY <1>3 DEF CallOf
<1>5. f.group = g /\ f.count = s.count
  BY <1>2 DEF NewFrame
<1>6. s \in RenameStates /\ NamesSoFar(P, g, s)
  BY DEF LoopState
<1>7. PICK nm \in Maps(Seq(Values)) : nm = s.names
  BY <1>6 DEF RenameStates
<1>8. ASSUME NEW v \in P
      PROVE  /\ Len(names[v]) \in Nat /\ Len(nm[v]) \in Nat /\ Counted(s.count, v) \in Nat
             /\ Len(nm[v]) = Len(names[v]) + Counted(s.count, v)
             /\ \A m \in 1 .. Len(names[v]) : nm[v][m] = names[v][m]
             /\ Len(names[v]) >= 1 /\ now[g][v] = nm[v][Len(nm[v])]
  <2>1. names[v] \in Seq(Values) /\ nm[v] \in Seq(Values) /\ v \in DOMAIN nm
    <3>1. v \in DOMAIN names /\ v \in DOMAIN nm
      BY <1>6, <1>7 DEF WalkNames, NamesSoFar
    <3> QED
      BY <1>7, <3>1, MapEntry DEF TypeInv
  <2>2. Len(names[v]) \in Nat /\ Len(nm[v]) \in Nat
    BY <2>1, LenProperties
  <2>3. s.count \in Maps(Nat)
    BY <1>6 DEF RenameStates
  <2>4. Counted(s.count, v) \in Nat
    BY <2>3, MapEntry DEF Counted
  <2>5. Len(names[v]) >= 1
    <3>1. k \in 1 .. Len(stack)
      BY <1>4
    <3>2. h[k][v] \in Nat /\ 1 <= h[k][v] /\ h[k][v] <= Len(names[v])
      BY <3>1 DEF WalkNames
    <3> QED
      BY <2>2, <3>2
  <2>6. Grown(names[v], nm[v], Counted(s.count, v))
    BY <1>6, <1>7 DEF NamesSoFar
  <2>7. Len(nm[v]) >= 1
    BY <2>2, <2>4, <2>5, <2>6 DEF Grown
  <2>8. Top(nm, v) = nm[v][Len(nm[v])]
    BY <2>1, <2>7, TopIs
  <2> QED
    BY <1>7, <2>2, <2>4, <2>5, <2>6, <2>8 DEF Grown
<1>9. DOMAIN nm = P
  BY <1>6, <1>7 DEF NamesSoFar
<1>10. ASSUME NEW v \in P, NEW j \in 1 .. k + 1
       PROVE  /\ e[j][v] \in Nat /\ 1 <= e[j][v] /\ e[j][v] <= Len(nm[v])
              /\ nm[v][e[j][v]] = now[u[j].group][v]
  <2>1. CASE j = k + 1
    <3>1. e[j][v] = Len(nm[v])
      BY <1>7, <2>1 DEF HigherBy
    <3>2. Len(nm[v]) >= 1
      BY <1>8
    <3> QED
      BY <1>4, <1>5, <1>8, <2>1, <3>1, <3>2
  <2>2. CASE j # k + 1
    <3>1. j \in 1 .. k /\ j \in 1 .. Len(stack)
      BY <1>4, <2>2
    <3>2. e[j] = h[j]
      BY <3>1 DEF HigherBy
    <3>3. h[j][v] \in Nat /\ 1 <= h[j][v] /\ h[j][v] <= Len(names[v]) /\ names[v][h[j][v]] = out[stack[j].group][v]
      BY <3>1 DEF WalkNames
    <3>4. stack[j].group \in R
      BY <3>1 DEF WalkTree
    <3>5. h[j][v] \in 1 .. Len(names[v])
      BY <1>8, <3>3
    <3>6. nm[v][h[j][v]] = names[v][h[j][v]]
      BY <1>8, <3>5
    <3>7. now[u[j].group][v] = out[stack[j].group][v]
      BY <1>4, <3>1, <3>4
    <3>8. h[j][v] <= Len(nm[v])
      BY <1>8, <3>3
    <3> QED
      BY <3>2, <3>3, <3>6, <3>7, <3>8
  <2> QED
    BY <2>1, <2>2
<1>11. ASSUME NEW v \in P, NEW j \in 2 .. k + 1
       PROVE  e[j - 1][v] + Counted(u[j].count, v) = e[j][v]
  <2>1. CASE j = k + 1
    <3>1. e[j][v] = Len(nm[v])
      BY <1>7, <2>1 DEF HigherBy
    <3>2. j - 1 = k /\ k \in 1 .. k
      BY <1>4, <2>1
    <3>3. e[j - 1][v] = Len(names[v])
      BY <3>2 DEF HigherBy, WalkNames
    <3> QED
      BY <1>4, <1>5, <1>8, <2>1, <3>1, <3>3
  <2>2. CASE j # k + 1
    <3>1. j \in 1 .. k /\ j \in 2 .. Len(stack) /\ j - 1 \in 1 .. k
      BY <1>4, <2>2
    <3>2. e[j] = h[j] /\ e[j - 1] = h[j - 1]
      BY <3>1 DEF HigherBy
    <3>3. h[j - 1][v] + Counted(stack[j].count, v) = h[j][v]
      BY <3>1 DEF WalkNames
    <3> QED
      BY <1>4, <3>1, <3>2, <3>3
  <2> QED
    BY <2>1, <2>2
<1>12. \A v \in P : e[k + 1][v] = Len(nm[v])
  BY <1>7 DEF HigherBy
<1>13. names' = nm /\ stack' = u /\ Len(u) = k + 1
  BY <1>1, <1>4, <1>7
<1> QED
  BY <1>9, <1>10, <1>11, <1>12, <1>13 DEF WalkNames

\* The walk after the first call.
LEMMA FirstTree ==
    ASSUME GraphInv, NEW s, stack' = <<NewFrame(Entry, s)>>, follows' = follows
    PROVE  WalkTree({Entry})'
<1>1. NewFrame(Entry, s).group = Entry /\ NewFrame(Entry, s).todo = Kids(follows, Entry)
  BY EntryAssumption DEF NewFrame, GraphInv
<1>2. PICK f : f = NewFrame(Entry, s)
  OBVIOUS
<1>3. Len(stack') = 1 /\ stack'[1] = f
  BY <1>2
<1>4. Entry \notin Kids(follows, Entry)
  BY DEF Kids, IsIdom
<1> QED
  BY <1>1, <1>2, <1>3, <1>4 DEF WalkTree

\* The names after it.
LEMMA FirstNames ==
    ASSUME TypeInv, NEW P, NEW s, NEW n, LoopState(P, Entry, n, s), stack' = <<NewFrame(Entry, s)>>, names' = s.names,
           \A v \in P : Len(names[v]) >= 1, DOMAIN names = P,
           NEW now, \A v \in P : now[Entry][v] = Top(s.names, v),
           NEW e, \A v \in P : e[1][v] = Len(s.names[v])
    PROVE  WalkNames(P, now, e)'
<1>1. PICK u : u = stack'
  OBVIOUS
<1>2. Len(u) = 1 /\ u[1].group = Entry
  BY <1>1 DEF NewFrame
<1>3. s \in RenameStates /\ NamesSoFar(P, Entry, s)
  BY DEF LoopState
<1>4. PICK nm \in Maps(Seq(Values)) : nm = s.names
  BY <1>3 DEF RenameStates
<1>5. DOMAIN nm = P
  BY <1>3, <1>4 DEF NamesSoFar
<1>6. ASSUME NEW v \in P PROVE Len(nm[v]) \in Nat /\ Len(nm[v]) >= 1 /\ now[Entry][v] = nm[v][Len(nm[v])]
  <2>1. names[v] \in Seq(Values) /\ nm[v] \in Seq(Values) /\ v \in DOMAIN nm
    BY <1>4, <1>5, MapEntry DEF TypeInv
  <2>2. Len(names[v]) \in Nat /\ Len(nm[v]) \in Nat
    BY <2>1, LenProperties
  <2>3. s.count \in Maps(Nat)
    BY <1>3 DEF RenameStates
  <2>4. Counted(s.count, v) \in Nat
    BY <2>3, MapEntry DEF Counted
  <2>5. Grown(names[v], nm[v], Counted(s.count, v)) /\ Len(names[v]) >= 1
    BY <1>3, <1>4 DEF NamesSoFar
  <2>6. Len(nm[v]) >= 1
    BY <2>2, <2>4, <2>5 DEF Grown
  <2>7. Top(nm, v) = nm[v][Len(nm[v])]
    BY <2>1, <2>6, TopIs
  <2> QED
    BY <1>4, <2>2, <2>6, <2>7
<1>7. \A v \in P : e[1][v] = Len(nm[v])
  BY <1>4
<1>8. \A j \in 2 .. Len(u) : FALSE
  BY <1>2
<1>9. names' = nm /\ stack' = u
  BY <1>1, <1>4
<1> QED
  BY <1>2, <1>5, <1>6, <1>7, <1>8, <1>9 DEF WalkNames

\* The walk after a call returns.
LEMMA ReturnsTree ==
    ASSUME TypeInv, NEW R, WalkTree(R), NEW k, k = Len(stack), k # 1, stack[k].todo = {}, stack' = Front(stack),
           follows' = follows
    PROVE  WalkTree(R)'
<1>1. stack \in Seq(Frames) /\ stack # <<>>
  BY EmptySeq DEF TypeInv, WalkTree
<1>2. PICK u : u = stack'
  OBVIOUS
<1>3. k \in Nat /\ k >= 1 /\ Len(u) = k - 1 /\ \A j \in 1 .. k - 1 : u[j] = stack[j]
  BY <1>1, <1>2, FrontType
<1>4. \A j \in 1 .. k - 1 : j \in 1 .. Len(stack)
  BY <1>3
<1>5. ASSUME NEW g \in R, NEW c \in Kids(follows, g) PROVE c \in R \/ \E j \in 1 .. k - 1 : c \in u[j].todo
  <2>1. c \in R \/ \E j \in 1 .. Len(stack) : c \in stack[j].todo
    BY DEF WalkTree
  <2>2. ASSUME NEW j \in 1 .. Len(stack), c \in stack[j].todo PROVE j \in 1 .. k - 1
    BY <1>3, <2>2
  <2> QED
    BY <1>3, <2>1, <2>2
<1>6. Entry \in R /\ Len(u) >= 1
  BY <1>3 DEF WalkTree
<1>7. \A j \in 1 .. k - 1 :
        /\ u[j].group \in R /\ u[j].todo \subseteq Kids(follows, u[j].group)
        /\ u[j].todo \cap R = {}
  BY <1>3, <1>4 DEF WalkTree
<1>8. \A i, j \in 1 .. k - 1 : u[i].group = u[j].group => i = j
  BY <1>3, <1>4 DEF WalkTree
<1> QED
  BY <1>2, <1>3, <1>5, <1>6, <1>7, <1>8 DEF WalkTree

\* The names after a call returns.
LEMMA ReturnsNames ==
    ASSUME TypeInv, NEW P, NEW out, NEW h, WalkNames(P, out, h), NEW k, k = Len(stack), k # 1, stack # <<>>,
           stack' = Front(stack), names' = [v \in DOMAIN names |-> Popped(v)]
    PROVE  WalkNames(P, out, h)'
<1>1. PICK u : u = stack'
  OBVIOUS
<1>2. k \in Nat /\ k >= 1 /\ Len(u) = k - 1 /\ Last(stack) = stack[k] /\ \A j \in 1 .. k - 1 : u[j] = stack[j]
  BY <1>1, FrontType DEF TypeInv
<1>3. PICK nm : nm = names'
  OBVIOUS
<1>4. DOMAIN nm = P
  BY <1>3 DEF WalkNames
<1>5. ASSUME NEW v \in P
      PROVE  /\ Len(names[v]) \in Nat /\ h[k - 1][v] \in Nat /\ Len(nm[v]) = h[k - 1][v] /\ h[k - 1][v] <= Len(names[v])
             /\ \A m \in 1 .. h[k - 1][v] : nm[v][m] = names[v][m]
  <2>1. v \in DOMAIN names
    BY DEF WalkNames
  <2>2. names[v] \in Seq(Values) /\ Len(names[v]) \in Nat
    BY <2>1, MapEntry, LenProperties DEF TypeInv
  <2>3. k \in 2 .. Len(stack) /\ k - 1 \in 1 .. Len(stack)
    BY <1>2
  <2>4. h[k - 1][v] + Counted(stack[k].count, v) = Len(names[v]) /\ h[k - 1][v] \in Nat /\ h[k - 1][v] <= Len(names[v])
    BY <2>3 DEF WalkNames
  <2>5. nm[v] = Popped(v)
    BY <1>3, <2>1
  <2>6. CASE v \in DOMAIN stack[k].count
    <3>1. stack[k] \in Frames
      BY <1>2, FrontType DEF TypeInv
    <3>2. Counted(stack[k].count, v) = stack[k].count[v] /\ stack[k].count[v] \in Nat
      <4>1. stack[k].count \in Maps(Nat)
        BY <3>1 DEF Frames
      <4> QED
        BY <2>6, <4>1, MapEntry DEF Counted
    <3>3. nm[v] = SubSeq(names[v], 1, Len(names[v]) - stack[k].count[v])
      BY <1>2, <2>5, <2>6 DEF Popped
    <3>4. Len(names[v]) - stack[k].count[v] = h[k - 1][v]
      BY <2>2, <2>4, <3>2
    <3>5. nm[v] = SubSeq(names[v], 1, h[k - 1][v])
      BY <3>3, <3>4
    <3>6. Len(nm[v]) = h[k - 1][v] /\ \A m \in 1 .. h[k - 1][v] : nm[v][m] = names[v][m]
      BY <2>2, <2>4, <3>5
    <3> QED
      BY <2>2, <2>4, <3>6
  <2>7. CASE v \notin DOMAIN stack[k].count
    <3>1. nm[v] = names[v] /\ Counted(stack[k].count, v) = 0
      BY <1>2, <2>5, <2>7 DEF Popped, Counted
    <3> QED
      BY <2>2, <2>4, <3>1
  <2> QED
    BY <2>6, <2>7
<1>6. ASSUME NEW v \in P, NEW j \in 1 .. k - 1 PROVE h[j][v] \in Nat /\ h[j][v] <= h[k - 1][v]
  <2> DEFINE T == {m \in 0 .. k - 2 : h[k - 1 - m][v] <= h[k - 1][v]}
  <2>1. ASSUME NEW i \in 1 .. k PROVE h[i][v] \in Nat
    BY DEF WalkNames
  <2>2. 0 \in T
    <3>1. k - 1 \in 1 .. k /\ k - 1 - 0 = k - 1 /\ 0 \in 0 .. k - 2
      BY <1>2
    <3> QED
      BY <2>1, <3>1
  <2>3. ASSUME NEW m \in 0 .. k - 2 - 1, m \in T PROVE m + 1 \in T
    <3>1. k - 1 - m \in 2 .. Len(stack) /\ k - 1 - (m + 1) = (k - 1 - m) - 1
      BY <1>2
    <3>2. PICK i : i = k - 1 - m
      OBVIOUS
    <3>3. h[i - 1][v] + Counted(stack[i].count, v) = h[i][v]
      BY <3>1, <3>2 DEF WalkNames
    <3>4. Counted(stack[i].count, v) \in Nat
      <4>1. stack[i] \in Frames
        BY <3>1, <3>2, ElementOfSeq, LenProperties DEF TypeInv
      <4>2. stack[i].count \in Maps(Nat)
        BY <4>1 DEF Frames
      <4> QED
        BY <4>2, MapEntry DEF Counted
    <3>5. h[i - 1][v] \in Nat /\ h[i][v] \in Nat /\ h[k - 1][v] \in Nat
      <4>1. i - 1 \in 1 .. k /\ i \in 1 .. k /\ k - 1 \in 1 .. k
        BY <1>2, <3>1, <3>2
      <4> QED
        BY <2>1, <4>1
    <3>6. h[i][v] <= h[k - 1][v]
      BY <2>3, <3>2
    <3>7. h[i - 1][v] <= h[k - 1][v]
      BY <3>3, <3>4, <3>5, <3>6
    <3>8. m + 1 \in 0 .. k - 2
      BY <1>2
    <3> QED
      BY <3>1, <3>2, <3>7, <3>8
  <2>4. \A m \in 0 .. k - 2 : m \in T
    <3>1. k - 2 \in Nat
      BY <1>2
    <3> HIDE DEF T
    <3> QED
      BY <2>2, <2>3, <3>1, CountingUp
  <2>5. k - 1 - j \in 0 .. k - 2 /\ k - 1 - (k - 1 - j) = j
    BY <1>2
  <2>6. h[k - 1 - (k - 1 - j)][v] <= h[k - 1][v]
    BY <2>4, <2>5
  <2>7. j \in 1 .. k
    BY <1>2
  <2> QED
    BY <2>1, <2>5, <2>6, <2>7
<1>7. ASSUME NEW v \in P, NEW j \in 1 .. k - 1
      PROVE  /\ h[j][v] \in Nat /\ 1 <= h[j][v] /\ h[j][v] <= Len(nm[v])
             /\ nm[v][h[j][v]] = out[u[j].group][v]
  <2>1. j \in 1 .. Len(stack)
    BY <1>2
  <2>2. 1 <= h[j][v] /\ names[v][h[j][v]] = out[stack[j].group][v]
    BY <2>1 DEF WalkNames
  <2>3. h[j][v] \in 1 .. h[k - 1][v]
    BY <1>5, <1>6, <2>2
  <2>4. nm[v][h[j][v]] = names[v][h[j][v]]
    BY <1>5, <2>3
  <2> QED
    BY <1>2, <1>5, <1>6, <2>2, <2>4
<1>8. ASSUME NEW v \in P, NEW j \in 2 .. k - 1 PROVE h[j - 1][v] + Counted(u[j].count, v) = h[j][v]
  <2>1. j \in 2 .. Len(stack) /\ j \in 1 .. k - 1
    BY <1>2
  <2> QED
    <3>1. h[j - 1][v] + Counted(stack[j].count, v) = h[j][v]
      BY <2>1 DEF WalkNames
    <3>2. u[j] = stack[j]
      BY <1>2, <2>1
    <3> QED
      BY <3>1, <3>2
<1>9. \A v \in P : h[k - 1][v] = Len(nm[v])
  BY <1>5
<1>10. names' = nm /\ stack' = u /\ Len(u) = k - 1
  BY <1>1, <1>2, <1>3
<1> QED
  BY <1>4, <1>7, <1>8, <1>9, <1>10 DEF WalkNames

\* When all is done every group is renamed.
LEMMA WalkDone ==
    ASSUME TypeInv, GraphInv, NEW R, GroupsClosed(R), WalkTree(R), Len(stack) = 1, stack[1].todo = {}
    PROVE  R = Groups
<1>0. IsConnected(follows) /\ IsFiniteSet(Groups)
  BY GroupsAssumption DEF GraphInv
<1>1. \A g \in R : \A c \in Kids(follows, g) : c \in R
  BY DEF WalkTree
<1> DEFINE T == {m \in Nat : \E b \in Groups \ R : Depth(follows, b) = m}
<1>2. SUFFICES ASSUME NEW b \in Groups, b \notin R PROVE FALSE
  BY DEF GroupsClosed
<1>3. Depth(follows, b) \in T
  BY <1>0, <1>2, DepthIsNumber
<1>4. PICK m \in T : \A j \in T : m <= j
  <2> HIDE DEF T
  <2>1. T \subseteq Nat
    BY DEF T
  <2> QED
    BY <1>3, <2>1, LeastNumber
<1>5. PICK c \in Groups \ R : Depth(follows, c) = m
  BY <1>4
<1>6. c # Entry
  BY <1>5 DEF WalkTree
<1>7. PICK d : IsIdom(follows, d, c)
  BY <1>0, <1>5, <1>6, ImmediateDominatorExists
<1>8. Depth(follows, c) = Depth(follows, d) + 1 /\ d \in Groups
  BY <1>0, <1>5, <1>7, IdomDepth DEF IsIdom
<1>9. Depth(follows, d) \in Nat /\ Depth(follows, c) \in Nat
  BY <1>0, <1>5, <1>8, DepthIsNumber
<1>10. d \notin R
  BY <1>1, <1>5, <1>7 DEF Kids
<1>11. Depth(follows, d) \in T
  BY <1>8, <1>9, <1>10
<1> QED
  BY <1>4, <1>5, <1>8, <1>9, <1>11

-----------------------------------------------------------------------------
(***************************************************************************)
(* What a renamed group computes.                                          *)
(***************************************************************************)
\* Of a group whose first n codes are renamed: what a variable is by now, its phi if
\* that is still to come.
NameNow(g, n, s, v) ==
    IF \E m \in n + 1 .. Len(code[g]) : IsPhiFor(g, v, code[g][m]) THEN PhiOf(g, v[2]) ELSE Top(s.names, v)

\* Run q has for load x, replaced by tmp[x], the value that run r has.
Known(r, q, tmp, x) == x \in DOMAIN r.results /\ x \in DOMAIN tmp /\ r.results[x] = ValueOf(q, tmp[x])

\* Run r of these codes, run q of what they are renamed to.
Alike(P, g, n, s, A, r, q) ==
    /\ IsRun(r) /\ IsRun(q) /\ r.uses = q.uses
    /\ \A v \in P : ReadMemory(r, v) = ValueOf(q, NameNow(g, n, s, v))
    /\ \A x \in A : Known(r, q, s.temporary, x)
    /\ \A m \in 1 .. n : code[g][m].op = "load" => Known(r, q, s.temporary, code[g][m].id)

NoPhiFrom(g, n) == \A m \in n + 1 .. Len(code[g]) : code[g][m].op # "phi"

\* There are no phis after any other code.
LEMMA PhisFirst ==
    ASSUME TypeInv, NEW P, NEW g, Ready(P, g), NEW n \in Nat, n + 1 \in 1 .. Len(code[g]), code[g][n + 1].op # "phi"
    PROVE  NoPhiFrom(g, n)
<1>1. Len(code[g]) \in Nat
  BY ReadyCode
<1>2. ASSUME NEW m \in n + 1 .. Len(code[g]), code[g][m].op = "phi" PROVE FALSE
  <2>1. m \in 1 .. Len(code[g]) /\ n + 1 \in 1 .. m
    BY <1>1
  <2>2. BodyCode(P, Loads(source, g), Before(follows, source, g), code[g], m)
    BY <1>2, <2>1 DEF Ready, GroupBody
  <2>3. code[g][n + 1].op = "phi"
    BY <1>2, <2>1, <2>2 DEF BodyCode
  <2> QED
    BY <2>3
<1> QED
  BY <1>2 DEF NoPhiFrom

\* So the names are those on top of the stacks.
LEMMA NamesOnTop ==
    ASSUME NEW g, Len(code[g]) \in Nat, NEW n \in Nat, NoPhiFrom(g, n), NEW s, NEW v
    PROVE  NameNow(g, n, s, v) = Top(s.names, v) /\ NameNow(g, n + 1, s, v) = Top(s.names, v)
<1>1. \A m \in n + 1 .. Len(code[g]) : ~IsPhiFor(g, v, code[g][m])
  BY DEF NoPhiFrom, IsPhiFor
<1>2. \A m \in n + 1 + 1 .. Len(code[g]) : m \in n + 1 .. Len(code[g])
  OBVIOUS
<1> QED
  BY <1>1, <1>2 DEF NameNow

\* An operand of the next code has the value of what it is replaced by.
LEMMA OperandAlike ==
    ASSUME TypeInv, GraphInv, NEW P, NEW g, Ready(P, g), NEW n \in Nat, n <= Len(code[g]), NEW s, LoopState(P, g, n, s),
           NEW A, A = Before(follows, source, g), NEW r, NEW q, Alike(P, g, n, s, A, r, q), NEW x, Available(A, code[g], n + 1, x)
    PROVE  ValueOf(r, x) = ValueOf(q, Resolve(s.temporary, x))
<1>0. g \in Groups /\ Len(code[g]) \in Nat
  BY CodeOf DEF Ready, TypeInv
<1>1. CASE x[1] = "constant"
  <2>1. PICK y : y = Resolve(s.temporary, x)
    OBVIOUS
  <2>2. y = x
    <3>1. LoadsSoFar(P, g, n, s)
      BY DEF LoopState
    <3> QED
      BY <1>0, <1>1, <2>1, <3>1, ResolveGood
  <2> QED
    BY <1>1, <2>1, <2>2 DEF ValueOf
<1>2. CASE x[1] # "constant"
  <2>1. Known(r, q, s.temporary, x)
    <3>1. CASE x \in A
      BY <3>1 DEF Alike
    <3>2. CASE x \notin A
      <4>1. PICK m \in 1 .. n : code[g][m].op = "load" /\ code[g][m].id = x
        BY <1>2, <3>2 DEF Available
      <4> QED
        BY <4>1 DEF Alike
    <3> QED
      BY <3>1, <3>2
  <2>2. x[1] = "code"
    <3>1. \A z \in Loads(source, g) : z[1] = "code"
      BY <1>0, LoadsAreCodes
    <3>2. \A z \in DOMAIN temporary : z[1] = "code"
      BY DEF Ready
    <3> QED
      BY <2>1, <3>1, <3>2 DEF Known, LoopState, LoadsSoFar
  <2>3. ValueOf(r, x) = r.results[x]
    BY <2>1, <2>2 DEF Known, ValueOf
  <2>4. Resolve(s.temporary, x) = s.temporary[x]
    BY <2>1 DEF Known, Resolve
  <2> QED
    BY <2>1, <2>3, <2>4 DEF Known
<1> QED
  BY <1>1, <1>2

\* A run with the same results.
LEMMA KnownStill ==
    ASSUME NEW r, NEW q, NEW tmp, NEW x, Known(r, q, tmp, x), NEW a, a.results = r.results, NEW b, b.results = q.results
    PROVE  Known(a, b, tmp, x)
<1>1. PICK y : y = tmp[x]
  OBVIOUS
<1>2. ValueOf(b, y) = ValueOf(q, y)
  BY DEF ValueOf
<1> QED
  BY <1>1, <1>2 DEF Known

\* A phi changes nothing but the name.
LEMMA AlikePhi ==
    ASSUME TypeInv, GraphInv, NEW P, NEW g, Ready(P, g), NEW n \in Nat, n + 1 \in 1 .. Len(code[g]), NEW s, LoopState(P, g, n, s),
           NEW A, NEW r, NEW q, Alike(P, g, n, s, A, r, q),
           NEW i, i = code[g][n + 1], i.op = "phi", NEW t, t = RenamePhi(s, i)
    PROVE  Alike(P, g, n + 1, t, A, RunInstr(r, i), RunInstr(q, i)) /\ t.out = Append(s.out, i)
<1>1. i \in Shaped /\ Len(code[g]) \in Nat /\ g \in Groups /\ P \subseteq Values
      /\ \A u \in P : u = Address(u[2]) /\ u[1] = "address" /\ u[2] \in Names
  BY ReadyCode
<1>2. s \in RenameStates /\ NamesSoFar(P, g, s)
  BY DEF LoopState
<1>3. PICK v \in P : i.id = PhiOf(g, v[2]) /\ i.id \in DOMAIN original /\ original[i.id] = v
  <2>1. PhiKnown(g, P, original, i)
    BY DEF Ready
  <2> QED
    BY <2>1 DEF PhiKnown
<1>4. /\ t \in RenameStates /\ t.out = Append(s.out, i)
      /\ t.temporary = s.temporary /\ t.names = Push(s.names, v, i.id)
  BY SMTT(30), <1>1, <1>2, <1>3, RenamePhiIs DEF TypeInv
<1>5. PICK x \in Values : x = i.id
  BY <1>1, ArgsOf
<1>6. PICK nm \in Maps(Seq(Values)) : nm = s.names
  BY <1>2 DEF RenameStates
<1>7. /\ \A u \in DOMAIN nm : u # v => Top(t.names, u) = Top(nm, u)
      /\ Top(t.names, v) = x /\ DOMAIN nm = P
  <2>1. v \in DOMAIN nm /\ v \in Values /\ DOMAIN nm = P
    BY <1>1, <1>2, <1>6 DEF NamesSoFar
  <2>2. t.names = Push(nm, v, x)
    BY <1>4, <1>5, <1>6
  <2> QED
    BY <2>1, <2>2, PushedIs
<1>8. ASSUME NEW u \in P PROVE NameNow(g, n + 1, t, u) = NameNow(g, n, s, u)
  <2>1. CASE u = v
    <3>1. n + 1 \in n + 1 .. Len(code[g]) /\ IsPhiFor(g, v, code[g][n + 1])
      BY <1>1, <1>3 DEF IsPhiFor
    <3>2. NameNow(g, n, s, v) = PhiOf(g, v[2])
      BY <3>1 DEF NameNow
    <3>3. NameNow(g, n + 1, t, v) = PhiOf(g, v[2])
      BY <1>3, <1>5, <1>7 DEF NameNow
    <3> QED
      BY <2>1, <3>2, <3>3
  <2>2. CASE u # v
    <3>1. ~IsPhiFor(g, u, code[g][n + 1])
      <4>1. u[2] # v[2]
        BY <1>1, <2>2
      <4> QED
        BY <1>3, <4>1 DEF IsPhiFor, PhiOf
    <3>2. \A m : m \in n + 1 .. Len(code[g]) <=> m = n + 1 \/ m \in n + 1 + 1 .. Len(code[g])
      BY <1>1
    <3>3. Top(t.names, u) = Top(s.names, u)
      BY <1>6, <1>7, <2>2
    <3> QED
      BY <3>1, <3>2, <3>3 DEF NameNow
  <2> QED
    BY <2>1, <2>2
<1>9. RunInstr(r, i) = r /\ RunInstr(q, i) = q
  BY RunOther
<1>10. ASSUME NEW m \in 1 .. n + 1, code[g][m].op = "load" PROVE Known(r, q, t.temporary, code[g][m].id)
  <2>1. m \in 1 .. n
    BY <1>10
  <2> QED
    BY <1>4, <1>10, <2>1 DEF Alike
<1>11. Alike(P, g, n + 1, t, A, r, q)
  <2>1. \A u \in P : ReadMemory(r, u) = ValueOf(q, NameNow(g, n + 1, t, u))
    BY <1>8 DEF Alike
  <2> QED
    BY <1>4, <1>10, <2>1 DEF Alike
<1> QED
  BY <1>4, <1>9, <1>11

\* A load is replaced by the name of its variable.
LEMMA AlikeLoad ==
    ASSUME TypeInv, GraphInv, NEW P, NEW g, Ready(P, g), NEW n \in Nat, n + 1 \in 1 .. Len(code[g]), NEW s, LoopState(P, g, n, s),
           NEW A, NEW r, NEW q, Alike(P, g, n, s, A, r, q),
           NEW i, i = code[g][n + 1], i.op = "load", NEW t, t = RenameLoad(s, i)
    PROVE  Alike(P, g, n + 1, t, A, RunInstr(r, i), q) /\ t.out = s.out
<1>1. /\ i.args[1] \in P /\ i.id \in Values /\ t.out = s.out /\ t.names = s.names
      /\ DOMAIN t.temporary = DOMAIN s.temporary \cup {i.id}
      /\ t.temporary[i.id] = Top(s.names, i.args[1])
      /\ \A x \in DOMAIN s.temporary : x # i.id => t.temporary[x] = s.temporary[x]
  BY ONLY LoopLoad, TypeInv, GraphInv, Ready(P, g), n \in Nat, n + 1 \in 1 .. Len(code[g]), LoopState(P, g, n, s),
          i = code[g][n + 1], i.op = "load", t = RenameLoad(s, i), SMTT(30)
<1>2. PICK v \in P : v = i.args[1]
  BY <1>1
<1>3. PICK y : y = i.id
  OBVIOUS
<1>4. PICK a : a = RunInstr(r, i)
  OBVIOUS
<1>5. IsRun(r) /\ IsRun(q) /\ r.uses = q.uses /\ ReadMemory(r, v) = ValueOf(q, NameNow(g, n, s, v))
  BY DEF Alike
<1>6. v[1] = "address"
  BY ReadyCode
<1>7. IsRun(a) /\ a.memory = r.memory /\ a.uses = r.uses /\ a.results = With(r.results, i.id, ReadMemory(r, i.args[1]))
  BY <1>2, <1>4, <1>5, <1>6, RunLoad
<1>8. /\ DOMAIN a.results = DOMAIN r.results \cup {y} /\ a.results[y] = ReadMemory(r, v)
      /\ \A x \in DOMAIN r.results : x # y => a.results[x] = r.results[x]
  <2>1. a.results = With(r.results, y, ReadMemory(r, v))
    BY <1>2, <1>3, <1>7
  <2> QED
    BY <2>1 DEF With
<1>9. \A u \in P : NameNow(g, n, s, u) = Top(s.names, u) /\ NameNow(g, n + 1, t, u) = Top(s.names, u)
  <2>0. NoPhiFrom(g, n) /\ Len(code[g]) \in Nat
    BY PhisFirst, ReadyCode
  <2>1. ASSUME NEW u \in P
        PROVE  NameNow(g, n, s, u) = Top(s.names, u) /\ NameNow(g, n + 1, s, u) = Top(s.names, u)
    BY <2>0, NamesOnTop
  <2> QED
    BY <1>1, <2>1 DEF NameNow
<1>10. ASSUME NEW x, x = y \/ Known(r, q, s.temporary, x) PROVE Known(a, q, t.temporary, x)
  <2>1. CASE x = y
    <3>1. t.temporary[y] = Top(s.names, v) /\ y \in DOMAIN t.temporary
      BY <1>1, <1>2, <1>3
    <3>2. a.results[y] = ValueOf(q, Top(s.names, v))
      BY <1>5, <1>8, <1>9
    <3> QED
      BY <1>8, <2>1, <3>1, <3>2 DEF Known
  <2>2. CASE x # y
    <3>1. x \in DOMAIN r.results /\ x \in DOMAIN s.temporary /\ r.results[x] = ValueOf(q, s.temporary[x])
      BY <1>10, <2>2 DEF Known
    <3>2. x \in DOMAIN t.temporary /\ t.temporary[x] = s.temporary[x]
      BY <1>1, <1>3, <2>2, <3>1
    <3> QED
      BY <1>8, <2>2, <3>1, <3>2 DEF Known
  <2> QED
    BY <2>1, <2>2
<1>11. ASSUME NEW m \in 1 .. n + 1, code[g][m].op = "load" PROVE Known(a, q, t.temporary, code[g][m].id)
  <2>1. CASE m = n + 1
    BY <1>3, <1>10, <2>1
  <2>2. CASE m # n + 1
    <3>1. m \in 1 .. n
      BY <2>2
    <3>2. Known(r, q, s.temporary, code[g][m].id)
      BY <1>11, <3>1 DEF Alike
    <3> QED
      BY <1>10, <3>2
  <2> QED
    BY <2>1, <2>2
<1>12. ASSUME NEW u \in P PROVE ReadMemory(a, u) = ValueOf(q, NameNow(g, n + 1, t, u))
  <2>1. ReadMemory(r, u) = ValueOf(q, NameNow(g, n, s, u))
    BY DEF Alike
  <2>2. ReadMemory(a, u) = ReadMemory(r, u)
    BY <1>7 DEF ReadMemory
  <2> QED
    BY <1>9, <2>1, <2>2
<1>13. \A x \in A : Known(a, q, t.temporary, x)
  BY <1>10 DEF Alike
<1> QED
  BY <1>1, <1>4, <1>5, <1>7, <1>11, <1>12, <1>13 DEF Alike

\* A store becomes a name.
LEMMA AlikeStore ==
    ASSUME TypeInv, GraphInv, NEW P, NEW g, Ready(P, g), NEW n \in Nat, n + 1 \in 1 .. Len(code[g]), NEW s, LoopState(P, g, n, s),
           NEW A, A = Before(follows, source, g), NEW r, NEW q, Alike(P, g, n, s, A, r, q),
           NEW i, i = code[g][n + 1], i.op = "store", NEW t, t = RenameStore(s, i)
    PROVE  Alike(P, g, n + 1, t, A, RunInstr(r, i), q) /\ t.out = s.out
<1>1. /\ i.args[2] \in P /\ t.out = s.out /\ t.temporary = s.temporary
      /\ t.names = Push(s.names, i.args[2], Resolve(s.temporary, i.args[1]))
  BY LoopStore
<1>2. PICK v \in P : v = i.args[2]
  BY <1>1
<1>3. PICK x : x = i.args[1]
  OBVIOUS
<1>4. PICK y : y = Resolve(s.temporary, x)
  OBVIOUS
<1>5. i \in Shaped /\ Len(code[g]) \in Nat /\ P \subseteq Values /\ (\A u \in P : u[1] = "address")
      /\ BodyCode(P, Loads(source, g), Before(follows, source, g), code[g], n + 1)
  BY ReadyCode
<1>6. s \in RenameStates /\ NamesSoFar(P, g, s)
  BY DEF LoopState
<1>7. ValueOf(r, x) = ValueOf(q, y)
  <2>1. Available(A, code[g], n + 1, x) /\ n <= Len(code[g])
    BY <1>3, <1>5 DEF BodyCode
  <2> QED
    BY <1>4, <2>1, OperandAlike
<1>8. PICK a : a = RunInstr(r, i)
  OBVIOUS
<1>9. IsRun(r) /\ IsRun(q) /\ r.uses = q.uses
  BY DEF Alike
<1>10. IsRun(a) /\ a.results = r.results /\ a.uses = r.uses /\ a.memory = With(r.memory, i.args[2], ValueOf(r, i.args[1]))
  BY <1>2, <1>5, <1>8, <1>9, RunStore
<1>11. ASSUME NEW u \in P PROVE ReadMemory(a, u) = IF u = v THEN ValueOf(q, y) ELSE ReadMemory(r, u)
  <2>1. a.memory = With(r.memory, v, ValueOf(r, x))
    BY <1>2, <1>3, <1>10
  <2>2. PICK z : z = ValueOf(r, x)
    OBVIOUS
  <2>3. ReadMemory(a, u) = Written(r, v, z, u)
    BY <1>5, <2>1, <2>2, ReadAfterWrite
  <2> QED
    BY <1>7, <2>2, <2>3 DEF Written
<1>12. y \in Values
  <2>1. x \in Values
    <3>1. Len(i.args) = 2 /\ \A k \in 1 .. Len(i.args) : i.args[k] \in Values
      BY <1>5, ArgsOf, ShapeOf
    <3> QED
      BY <1>3, <3>1
  <2> QED
    BY <1>4, <1>6, <2>1, ResolveIsValue DEF RenameStates
<1>13. \A u \in P : u # v => Top(t.names, u) = Top(s.names, u)
  <2>1. PICK nm \in Maps(Seq(Values)) : nm = s.names
    BY <1>6 DEF RenameStates
  <2>2. t.names = Push(nm, v, y) /\ DOMAIN nm = P /\ v \in Values
    BY <1>1, <1>2, <1>3, <1>4, <1>5, <1>6, <2>1 DEF NamesSoFar
  <2>3. \A u \in DOMAIN nm : u # v => Top(t.names, u) = Top(nm, u)
    BY <1>12, <2>2, PushedIs
  <2> QED
    BY <2>1, <2>2, <2>3
<1>14. Top(t.names, v) = y
  <2>1. PICK nm \in Maps(Seq(Values)) : nm = s.names
    BY <1>6 DEF RenameStates
  <2>2. t.names = Push(nm, v, y) /\ DOMAIN nm = P /\ v \in Values
    BY <1>1, <1>2, <1>3, <1>4, <1>5, <1>6, <2>1 DEF NamesSoFar
  <2> QED
    BY <1>12, <2>2, PushedIs
<1>15. ASSUME NEW u \in P
       PROVE  NameNow(g, n, s, u) = Top(s.names, u) /\ NameNow(g, n + 1, t, u) = Top(t.names, u)
  <2>0. NoPhiFrom(g, n) /\ Len(code[g]) \in Nat
    BY PhisFirst, ReadyCode
  <2>1. NameNow(g, n, s, u) = Top(s.names, u) /\ NameNow(g, n + 1, s, u) = Top(s.names, u)
    BY <2>0, NamesOnTop
  <2>2. NameNow(g, n, t, u) = Top(t.names, u) /\ NameNow(g, n + 1, t, u) = Top(t.names, u)
    BY <2>0, NamesOnTop
  <2> QED
    BY <2>1, <2>2
<1>16. ASSUME NEW u \in P PROVE ReadMemory(a, u) = ValueOf(q, NameNow(g, n + 1, t, u))
  <2>1. ReadMemory(r, u) = ValueOf(q, NameNow(g, n, s, u))
    BY DEF Alike
  <2> QED
    BY <1>11, <1>13, <1>14, <1>15, <2>1
<1>17. ASSUME NEW z, Known(r, q, s.temporary, z) PROVE Known(a, q, t.temporary, z)
  BY <1>1, <1>10, <1>17, KnownStill
<1>18. ASSUME NEW m \in 1 .. n + 1, code[g][m].op = "load" PROVE Known(a, q, t.temporary, code[g][m].id)
  <2>1. m \in 1 .. n
    BY <1>18
  <2>2. Known(r, q, s.temporary, code[g][m].id)
    BY <1>18, <2>1 DEF Alike
  <2> QED
    BY <1>17, <2>2
<1>19. \A z \in A : Known(a, q, t.temporary, z)
  BY <1>17 DEF Alike
<1> QED
  BY <1>1, <1>8, <1>9, <1>10, <1>16, <1>18, <1>19 DEF Alike

\* A code that changes neither results nor memory nor names.
LEMMA AlikeStill ==
    ASSUME TypeInv, NEW P, NEW g, Ready(P, g), NEW n \in Nat, n + 1 \in 1 .. Len(code[g]), NEW s,
           NEW A, NEW r, NEW q, Alike(P, g, n, s, A, r, q), code[g][n + 1].op \notin {"phi", "load"},
           NEW t, t.names = s.names, t.temporary = s.temporary,
           NEW a, IsRun(a), a.results = r.results, a.memory = r.memory,
           NEW b, IsRun(b), b.results = q.results, a.uses = b.uses
    PROVE  Alike(P, g, n + 1, t, A, a, b)
<1>1. ASSUME NEW u \in P
      PROVE  NameNow(g, n, s, u) = Top(s.names, u) /\ NameNow(g, n + 1, t, u) = Top(s.names, u)
  <2>0. NoPhiFrom(g, n) /\ Len(code[g]) \in Nat
    BY PhisFirst, ReadyCode
  <2>1. NameNow(g, n, s, u) = Top(s.names, u) /\ NameNow(g, n + 1, s, u) = Top(s.names, u)
    BY <2>0, NamesOnTop
  <2>2. NameNow(g, n, t, u) = Top(t.names, u) /\ NameNow(g, n + 1, t, u) = Top(t.names, u)
    BY <2>0, NamesOnTop
  <2> QED
    BY <2>1, <2>2 DEF Top
<1>2. ASSUME NEW u \in P PROVE ReadMemory(a, u) = ValueOf(b, NameNow(g, n + 1, t, u))
  <2>1. ReadMemory(r, u) = ValueOf(q, NameNow(g, n, s, u))
    BY DEF Alike
  <2>2. ReadMemory(a, u) = ReadMemory(r, u)
    BY DEF ReadMemory
  <2>3. PICK y : y = Top(s.names, u)
    OBVIOUS
  <2>4. ValueOf(q, y) = ValueOf(b, y)
    BY DEF ValueOf
  <2> QED
    BY <1>1, <2>1, <2>2, <2>3, <2>4
<1>3. ASSUME NEW z, Known(r, q, s.temporary, z) PROVE Known(a, b, t.temporary, z)
  BY <1>3, KnownStill
<1>4. ASSUME NEW m \in 1 .. n + 1, code[g][m].op = "load" PROVE Known(a, b, t.temporary, code[g][m].id)
  <2>1. m \in 1 .. n
    BY <1>4
  <2>2. Known(r, q, s.temporary, code[g][m].id)
    BY <1>4, <2>1 DEF Alike
  <2> QED
    BY <1>3, <2>2
<1>5. \A z \in A : Known(a, b, t.temporary, z)
  BY <1>3 DEF Alike
<1> QED
  BY <1>2, <1>4, <1>5 DEF Alike

\* A use or a jump uses the same values.
LEMMA AlikeUse ==
    ASSUME TypeInv, GraphInv, NEW P, NEW g, Ready(P, g), NEW n \in Nat, n + 1 \in 1 .. Len(code[g]), NEW s, LoopState(P, g, n, s),
           NEW A, A = Before(follows, source, g), NEW r, NEW q, Alike(P, g, n, s, A, r, q),
           NEW i, i = code[g][n + 1], i.op \in {"use", "jump"}, NEW j, j = ResolveArgs(s, i), NEW t, t = Keep(s, j)
    PROVE  Alike(P, g, n + 1, t, A, RunInstr(r, i), RunInstr(q, j)) /\ t.out = Append(s.out, j) /\ j \in Shaped
<1>1. i \in Shaped /\ Len(code[g]) \in Nat
      /\ BodyCode(P, Loads(source, g), Before(follows, source, g), code[g], n + 1)
  BY ReadyCode
<1>2. s \in RenameStates
  BY DEF LoopState
<1>3. j \in Shaped /\ j.op = i.op /\ j.args = [k \in 1 .. Len(i.args) |-> Resolve(s.temporary, i.args[k])]
  BY <1>1, <1>2, ResolvedIs
<1>4. t.out = Append(s.out, j) /\ t.names = s.names /\ t.temporary = s.temporary
  BY <1>2, <1>3, KeepIs
<1>5. IsRun(r) /\ IsRun(q) /\ r.uses = q.uses
  BY DEF Alike
<1>6. PICK a : a = RunInstr(r, i)
  OBVIOUS
<1>7. PICK b : b = RunInstr(q, j)
  OBVIOUS
<1>8. CASE i.op = "jump"
  <2>1. a = r /\ b = q
    BY <1>3, <1>6, <1>7, <1>8, RunOther
  <2>2. Alike(P, g, n + 1, t, A, r, q)
    BY <1>4, <1>5, <1>8, AlikeStill
  <2> QED
    BY <1>3, <1>4, <1>6, <1>7, <2>1, <2>2
<1>9. CASE i.op = "use"
  <2>1. IsRun(a) /\ a.results = r.results /\ a.memory = r.memory /\ a.uses = UsedBy(r, i)
    BY <1>5, <1>6, <1>9, RunUse
  <2>2. IsRun(b) /\ b.results = q.results /\ b.uses = UsedBy(q, j)
    BY <1>3, <1>5, <1>7, <1>9, RunUse
  <2>3. DOMAIN i.args = 1 .. Len(i.args) /\ DOMAIN j.args = 1 .. Len(i.args)
    BY <1>1, <1>3, ArgsOf
  <2>4. ASSUME NEW k \in 1 .. Len(i.args) PROVE ValueOf(r, i.args[k]) = ValueOf(q, j.args[k])
    <3>1. PICK x : x = i.args[k]
      OBVIOUS
    <3>2. Available(A, code[g], n + 1, x) /\ n <= Len(code[g])
      BY <1>1, <1>9, <3>1 DEF BodyCode
    <3>3. ValueOf(r, x) = ValueOf(q, Resolve(s.temporary, x))
      BY <3>2, OperandAlike
    <3> QED
      BY <1>3, <3>1, <3>3
  <2>5. UsedBy(r, i) = UsedBy(q, j)
    <3>1. [k \in DOMAIN i.args |-> ValueOf(r, i.args[k])] = [k \in DOMAIN j.args |-> ValueOf(q, j.args[k])]
      BY <2>3, <2>4
    <3> QED
      BY <1>5, <3>1 DEF UsedBy
  <2>6. Alike(P, g, n + 1, t, A, a, b)
    <3>1. a.uses = b.uses /\ code[g][n + 1].op \notin {"phi", "load"}
      BY <1>9, <2>1, <2>2, <2>5
    <3> QED
      BY <1>4, <2>1, <2>2, <3>1, AlikeStill
  <2> QED
    BY <1>3, <1>4, <1>6, <1>7, <2>6
<1> QED
  BY <1>8, <1>9

\* The runs at any code.
LEMMA AlikeStep ==
    ASSUME TypeInv, GraphInv, NEW P, NEW g, Ready(P, g), NEW n \in Nat, n + 1 \in 1 .. Len(code[g]), NEW s, LoopState(P, g, n, s),
           NEW A, A = Before(follows, source, g), NEW r, NEW start, NEW q, q = RunCodes(start, s.out), Alike(P, g, n, s, A, r, q),
           NEW i, i = code[g][n + 1], NEW t, t = RenameInstr(s, i)
    PROVE  Alike(P, g, n + 1, t, A, RunInstr(r, i), RunCodes(start, t.out))
<1>1. i.op \in {"alloca", "load", "store", "use", "jump", "phi"} /\ i \in Shaped
  BY ReadyCode
<1>2. s.out \in Seq(Shaped)
  BY DEF LoopState, RenameStates
<1>3. CASE i.op = "phi"
  <2>1. t = RenamePhi(s, i)
    BY <1>3 DEF RenameInstr
  <2>2. Alike(P, g, n + 1, t, A, RunInstr(r, i), RunInstr(q, i)) /\ t.out = Append(s.out, i)
    BY <1>3, <2>1, AlikePhi
  <2>3. RunCodes(start, Append(s.out, i)) = RunInstr(RunCodes(start, s.out), i)
    BY <1>1, <1>2, RunAppend
  <2> QED
    BY <2>2, <2>3
<1>4. CASE i.op = "load"
  <2>1. t = RenameLoad(s, i)
    BY <1>4 DEF RenameInstr
  <2>2. Alike(P, g, n + 1, t, A, RunInstr(r, i), q) /\ t.out = s.out
    BY <1>4, <2>1, AlikeLoad
  <2> QED
    BY <2>2
<1>5. CASE i.op = "store"
  <2>1. t = RenameStore(s, i)
    BY <1>5 DEF RenameInstr
  <2>2. Alike(P, g, n + 1, t, A, RunInstr(r, i), q) /\ t.out = s.out
    BY <1>5, <2>1, AlikeStore
  <2> QED
    BY <2>2
<1>6. CASE i.op \in {"use", "jump"}
  <2>1. PICK j : j = ResolveArgs(s, i)
    OBVIOUS
  <2>2. t = Keep(s, j)
    BY <1>6, <2>1 DEF RenameInstr
  <2>3. Alike(P, g, n + 1, t, A, RunInstr(r, i), RunInstr(q, j)) /\ t.out = Append(s.out, j) /\ j \in Shaped
    BY <1>6, <2>1, <2>2, AlikeUse
  <2>4. RunCodes(start, Append(s.out, j)) = RunInstr(RunCodes(start, s.out), j)
    BY <1>2, <2>3, RunAppend
  <2> QED
    BY <2>3, <2>4
<1>7. CASE i.op = "alloca"
  <2>1. LoopState(P, g, n + 1, s) /\ i.id \in DOMAIN s.names
    BY <1>7, LoopAlloca
  <2>2. t = s
    BY <1>7, <2>1 DEF RenameInstr
  <2>3. RunInstr(r, i) = r
    BY <1>7, RunOther
  <2>4. IsRun(r) /\ IsRun(q) /\ r.uses = q.uses
    BY DEF Alike
  <2>5. Alike(P, g, n + 1, s, A, r, q)
    BY <1>7, <2>4, AlikeStill
  <2> QED
    BY <2>2, <2>3, <2>5
<1> QED
  BY <1>1, <1>3, <1>4, <1>5, <1>6, <1>7

\* The runs through the whole group.
LEMMA AlikeRuns ==
    ASSUME TypeInv, GraphInv, NEW P, NEW g, Ready(P, g), NEW F, IsRenaming(code[g], Len(code[g]), F),
           NEW A, A = Before(follows, source, g), NEW r, NEW q, NEW G, IsRunning(r, code[g], Len(code[g]), G),
           Alike(P, g, 0, StartOfRename, A, r, q)
    PROVE  \A n \in 0 .. Len(code[g]) : Alike(P, g, n, F[n], A, G[n], RunCodes(q, F[n].out))
<1>1. Len(code[g]) \in Nat /\ \A n \in 0 .. Len(code[g]) : LoopState(P, g, n, F[n])
  BY LoopRuns
<1>2. RenamingGoes(code[g], Len(code[g]), F)
  BY <1>1, RenamingStep
<1>3. RunningGoes(r, code[g], Len(code[g]), G)
  BY <1>1, RunningStep
<1> DEFINE T == {n \in 0 .. Len(code[g]) : Alike(P, g, n, F[n], A, G[n], RunCodes(q, F[n].out))}
<1>4. 0 \in T
  <2>1. F[0] = StartOfRename /\ G[0] = r
    BY <1>2, <1>3 DEF RenamingGoes, RunningGoes
  <2>2. F[0].out = <<>>
    BY <2>1 DEF StartOfRename
  <2>3. RunCodes(q, F[0].out) = q
    BY <2>2, RunEmpty
  <2> QED
    BY <1>1, <2>1, <2>3
<1>5. ASSUME NEW n \in 0 .. Len(code[g]) - 1, n \in T PROVE n + 1 \in T
  <2>1. F[n + 1] = RenameInstr(F[n], code[g][n + 1])
    BY <1>2 DEF RenamingGoes, RenameStep
  <2>2. G[n + 1] = RunInstr(G[n], code[g][n + 1])
    BY <1>3 DEF RunningGoes, RunStep
  <2>3. n \in Nat /\ n + 1 \in 1 .. Len(code[g]) /\ LoopState(P, g, n, F[n]) /\ Alike(P, g, n, F[n], A, G[n], RunCodes(q, F[n].out))
    BY <1>1, <1>5
  <2>4. PICK s : s = F[n]
    OBVIOUS
  <2>5. PICK i : i = code[g][n + 1]
    OBVIOUS
  <2>6. PICK t : t = F[n + 1]
    OBVIOUS
  <2>7. PICK a : a = G[n]
    OBVIOUS
  <2>8. PICK b : b = RunCodes(q, s.out)
    OBVIOUS
  <2>9. Alike(P, g, n, s, A, a, b) /\ LoopState(P, g, n, s) /\ t = RenameInstr(s, i)
    BY <2>1, <2>3, <2>4, <2>5, <2>6, <2>7, <2>8
  <2>10. Alike(P, g, n + 1, t, A, RunInstr(a, i), RunCodes(q, t.out))
    BY <2>3, <2>5, <2>8, <2>9, AlikeStep
  <2> QED
    BY <1>1, <2>2, <2>3, <2>5, <2>6, <2>7, <2>10
<1>6. \A n \in 0 .. Len(code[g]) : n \in T
  <2> HIDE DEF T
  <2> QED
    BY <1>1, <1>4, <1>5, CountingUp
<1> QED
  BY <1>6

\* Runs r of the source and q of the pass's codes use the same; q has the variables P
\* under the names nm, and the loads A under what they are replaced by.
Same(P, r, q, nm, A, tmp) ==
    /\ IsRun(r) /\ IsRun(q) /\ r.uses = q.uses
    /\ \A v \in P : ReadMemory(r, v) = ValueOf(q, nm[v])
    /\ \A x \in A : Known(r, q, tmp, x)

\* A group, renamed, keeps that.
LEMMA RenamedMeans ==
    ASSUME TypeInv, GraphInv, NEW P, NEW g, Ready(P, g), NEW s, s = RenameCodes(code[g]), KeepsMemory(P, source[g], code[g]),
           NEW nm, \A v \in P : nm[v] = NameNow(g, 0, StartOfRename, v),
           NEW now, \A v \in P : now[v] = Top(s.names, v),
           NEW A, A = Before(follows, source, g), NEW r, NEW q, Same(P, r, q, nm, A, s.temporary)
    PROVE  Same(P, RunCodes(r, source[g]), RunCodes(q, s.out), now, A \cup Loads(source, g), s.temporary)
<1>1. g \in Groups /\ Len(code[g]) \in Nat
  BY CodeOf DEF Ready, TypeInv
<1>2. PICK F : IsRenaming(code[g], Len(code[g]), F) /\ s = F[Len(code[g])]
  BY <1>1, RenamingIs
<1>3. PICK G : IsRunning(r, code[g], Len(code[g]), G) /\ RunCodes(r, code[g]) = G[Len(code[g])]
  BY <1>1, RunningIs
<1>4. PICK n \in Nat : n = Len(code[g])
  BY <1>1
<1>5. LoopState(P, g, n, s)
  BY <1>4, LoopEnds
<1>6. Alike(P, g, 0, StartOfRename, A, r, q)
  <2>1. PICK z : z = StartOfRename
    OBVIOUS
  <2>2. z.temporary = temporary
    BY <2>1 DEF StartOfRename
  <2>3. ASSUME NEW x \in A PROVE Known(r, q, z.temporary, x)
    <3>1. x \in DOMAIN temporary
      BY DEF Ready
    <3>2. s.temporary[x] = temporary[x]
      BY <1>5, <3>1 DEF LoopState, LoadsSoFar
    <3>3. Known(r, q, s.temporary, x)
      BY DEF Same
    <3> QED
      BY <2>2, <3>1, <3>2, <3>3 DEF Known
  <2>4. \A v \in P : ReadMemory(r, v) = ValueOf(q, NameNow(g, 0, z, v))
    BY <2>1 DEF Same
  <2>5. Alike(P, g, 0, z, A, r, q)
    BY <2>3, <2>4 DEF Alike, Same
  <2> QED
    BY <2>1, <2>5
<1>7. PICK a : a = RunCodes(r, code[g])
  OBVIOUS
<1>8. PICK b : b = RunCodes(q, s.out)
  OBVIOUS
<1>9. Alike(P, g, n, s, A, a, b)
  <2>1. \A m \in 0 .. Len(code[g]) : Alike(P, g, m, F[m], A, G[m], RunCodes(q, F[m].out))
    BY <1>2, <1>3, <1>6, AlikeRuns
  <2>2. Alike(P, g, n, F[n], A, G[n], RunCodes(q, F[n].out))
    BY <1>4, <2>1
  <2> QED
    BY <1>2, <1>3, <1>4, <1>7, <1>8, <2>2
<1>10. PICK c : c = RunCodes(r, source[g])
  OBVIOUS
<1>11. SameRun(P, c, a)
  BY <1>7, <1>10 DEF KeepsMemory, Same
<1>12. IsRun(c) /\ IsRun(b) /\ c.uses = b.uses /\ c.results = a.results /\ \A v \in P : ReadMemory(c, v) = ReadMemory(a, v)
  BY <1>9, <1>11 DEF SameRun, Alike
<1>13. ASSUME NEW v \in P PROVE ReadMemory(c, v) = ValueOf(b, now[v])
  <2>1. NameNow(g, n, s, v) = Top(s.names, v)
    <3>1. \A m \in n + 1 .. Len(code[g]) : FALSE
      BY <1>4
    <3> QED
      BY <3>1 DEF NameNow
  <2>2. ReadMemory(a, v) = ValueOf(b, NameNow(g, n, s, v))
    BY <1>9 DEF Alike
  <2> QED
    BY <1>12, <2>1, <2>2
<1>14. ASSUME NEW x \in A \cup Loads(source, g) PROVE Known(c, b, s.temporary, x)
  <2>1. Known(a, b, s.temporary, x)
    <3>1. CASE x \in A
      BY <1>9, <3>1 DEF Alike
    <3>2. CASE x \in Loads(source, g)
      <4>1. PICK m \in 1 .. n : code[g][m].op = "load" /\ code[g][m].id = x
        BY <1>4, <3>2 DEF Ready, GroupBody
      <4> QED
        BY <1>9, <4>1 DEF Alike
    <3> QED
      BY <3>1, <3>2
  <2> QED
    BY <1>12, <2>1, KnownStill
<1>15. Same(P, c, b, now, A \cup Loads(source, g), s.temporary)
  BY <1>12, <1>13, <1>14 DEF Same
<1> QED
  BY <1>8, <1>10, <1>15

-----------------------------------------------------------------------------
(***************************************************************************)
(* What the codes mean while a round renames.                              *)
(***************************************************************************)
Idom(g) == ImmediateDominator(DominatorMap(follows), g)

\* The names the variables have before a group, out being those after each.
NameIn(codes, out, g, v) ==
    IF HasPhi(codes, g, v) THEN PhiOf(g, v[2]) ELSE IF g = Entry THEN Undef(v[2]) ELSE out[Idom(g)][v]
NamesIn(P, codes, out, g) == [v \in P |-> NameIn(codes, out, g, v)]

\* A variable that does not spread from a group has after it the name it came with.
OutFlows(P, R, out, codes) ==
    \A g \in R : \A v \in P :
        Spreads(codes, g, v) \/ out[g][v] = IF g = Entry THEN Undef(v[2]) ELSE out[Idom(g)][v]

\* A renamed group does what it did.
GroupMeans(P, out, tmp, codes, g) ==
    \A r, q : Same(P, r, q, NamesIn(P, codes, out, g), Before(follows, source, g), tmp) =>
        Same(P, RunCodes(r, source[g]), RunCodes(q, codes[g]), out[g],
             Before(follows, source, g) \cup Loads(source, g), tmp)

Meaning(P, R, out, tmp, codes) ==
    /\ \A g \in Groups \ R : KeepsMemory(P, source[g], codes[g])
    /\ OutFlows(P, R, out, codes)
    /\ \A g \in R : GroupMeans(P, out, tmp, codes, g)

\* Other names and replacements, if they are the same for what counts.
LEMMA SameNamed ==
    ASSUME NEW P, NEW r, NEW q, NEW nm, NEW A, NEW tmp, Same(P, r, q, nm, A, tmp),
           NEW mm, \A v \in P : mm[v] = nm[v], NEW tt, \A x \in A : x \in DOMAIN tmp => x \in DOMAIN tt /\ tt[x] = tmp[x]
    PROVE  Same(P, r, q, mm, A, tt)
<1>1. ASSUME NEW x \in A PROVE Known(r, q, tt, x)
  <2>1. Known(r, q, tmp, x)
    BY DEF Same
  <2> QED
    BY <2>1 DEF Known
<1> QED
  BY <1>1 DEF Same

\* The codes of a group run as before it was filled.
LEMMA FilledRuns ==
    ASSUME TypeInv, NEW P, NEW g \in Groups, NEW s \in RenameStates, CodeAfter(P, g, s), NEW f \in Groups, NEW q
    PROVE  /\ f = g => RunCodes(q, code'[f]) = RunCodes(q, s.out)
           /\ f # g => RunCodes(q, code'[f]) = RunCodes(q, code[f])
<1>1. ASSUME NEW c, Len(c) \in Nat, NEW d, Len(d) = Len(c), \A m \in 1 .. Len(c) : FilledFor(P, g, f, s.names, c[m], d[m])
      PROVE  RunCodes(q, d) = RunCodes(q, c)
  <2>1. SameButPhis(c, d)
    BY <1>1 DEF SameButPhis, FilledFor
  <2> QED
    BY <1>1, <2>1, RunSameButPhis
<1>2. Len(s.out) \in Nat /\ Len(code[f]) \in Nat
  BY LenProperties, CodeOf DEF RenameStates, TypeInv
<1>3. CASE f = g
  <2>1. PICK c : c = s.out
    OBVIOUS
  <2>2. PICK d : d = code'[f]
    OBVIOUS
  <2>3. Len(d) = Len(c)
    BY <1>3, <2>1, <2>2, CodeIs
  <2>4. \A m \in 1 .. Len(c) : FilledFor(P, g, f, s.names, c[m], d[m])
    BY <1>3, <2>1, <2>2, <2>3, CodeWas
  <2> QED
    BY <1>1, <1>2, <1>3, <2>1, <2>2, <2>3, <2>4
<1>4. CASE f # g
  <2>1. PICK c : c = code[f]
    OBVIOUS
  <2>2. PICK d : d = code'[f]
    OBVIOUS
  <2>3. Len(d) = Len(c)
    BY <1>4, <2>1, <2>2, CodeIs
  <2>4. \A m \in 1 .. Len(c) : FilledFor(P, g, f, s.names, c[m], d[m])
    BY <1>4, <2>1, <2>2, <2>3, CodeWas
  <2> QED
    BY <1>1, <1>2, <1>4, <2>1, <2>2, <2>3, <2>4
<1> QED
  BY <1>3, <1>4

\* The immediate dominator of a group is renamed when the group's strict dominators are.
LEMMA IdomRenamed ==
    ASSUME GraphInv, NEW g \in Groups, g # Entry, NEW R, StrictDominators(follows, g) \subseteq R
    PROVE  Idom(g) \in R /\ IsIdom(follows, Idom(g), g) /\ Idom(g) # g
<1>1. IsIdom(follows, Idom(g), g)
  BY GroupsAssumption, ImmediateDominatorExists DEF GraphInv, Idom
<1>2. PICK d : d = Idom(g)
  OBVIOUS
<1>3. d \in Dominators(follows, g) /\ d # g
  BY <1>1, <1>2, GroupsAssumption, IdomDepth DEF GraphInv, IsIdom
<1> QED
  BY <1>1, <1>2, <1>3 DEF StrictDominators

\* A name that is not counted stays.
LEMMA UncountedTop ==
    ASSUME TypeInv, NEW P, NEW g, Ready(P, g), NEW s \in RenameStates, NamesSoFar(P, g, s), NEW v \in P, v \notin DOMAIN s.count
    PROVE  Top(s.names, v) = Top(names, v)
<1>1. Counted(s.count, v) = 0
  BY DEF Counted
<1>2. Grown(names[v], s.names[v], 0)
  BY <1>1 DEF NamesSoFar
<1>3. v \in DOMAIN names /\ v \in DOMAIN s.names /\ Len(names[v]) >= 1 /\ s.names \in Maps(Seq(Values)) /\ names \in Maps(Seq(Values))
  BY DEF Ready, NamesSoFar, RenameStates, TypeInv
<1>4. Top(names, v) = names[v][Len(names[v])] /\ Len(names[v]) \in Nat
  BY <1>3, TopIs
<1>5. Len(s.names[v]) = Len(names[v]) + 0
  BY <1>2 DEF Grown
<1>6. Len(s.names[v]) >= 1 /\ Len(s.names[v]) = Len(names[v])
  BY <1>3, <1>4, <1>5
<1>7. PICK nm \in Maps(Seq(Values)) : nm = s.names
  BY <1>3
<1>8. Top(nm, v) = nm[v][Len(nm[v])]
  BY <1>3, <1>6, <1>7, TopIs
<1>9. Len(names[v]) \in 1 .. Len(names[v])
  BY <1>3, <1>4
<1>10. s.names[v][Len(names[v])] = names[v][Len(names[v])]
  BY <1>2, <1>9 DEF Grown
<1> QED
  BY <1>4, <1>6, <1>7, <1>8, <1>10

\* The names after the groups.
LEMMA FlowsAfter ==
    ASSUME TypeInv, GraphInv, NEW P, NEW R, NEW out, GroupsClosed(R), OutFlows(P, R, out, code), NEW g \in Groups, g \notin R,
           StrictDominators(follows, g) \subseteq R, Ready(P, g), NEW s, NEW n, n = Len(code[g]), LoopState(P, g, n, s), CodeAfter(P, g, s),
           NEW Q, Q = R \cup {g}, NEW now, \A v \in P : now[g][v] = Top(s.names, v), \A h \in R : now[h] = out[h],
           \A v \in P : Top(names, v) = IF g = Entry THEN Undef(v[2]) ELSE out[Idom(g)][v]
    PROVE  OutFlows(P, Q, now, code')
<1>1. SamePhis(P, code', code)
  BY PhisStay
<1>2. ASSUME NEW f \in Groups, NEW v \in P, Spreads(code, f, v) PROVE Spreads(code', f, v)
  <2>1. Frontier(follows, f) \subseteq Groups
    BY FrontierIs
  <2> QED
    BY <1>1, <1>2, <2>1 DEF Spreads, SamePhis
<1>3. ASSUME NEW f \in Q, NEW v \in P, ~Spreads(code', f, v)
      PROVE  now[f][v] = IF f = Entry THEN Undef(v[2]) ELSE now[Idom(f)][v]
  <2>1. f \in Groups
    BY DEF GroupsClosed
  <2>2. ~Spreads(code, f, v)
    BY <1>2, <1>3, <2>1
  <2>3. StrictDominators(follows, f) \subseteq R
    BY DEF GroupsClosed, StrictDominators
  <2>4. f # Entry => now[Idom(f)] = out[Idom(f)]
    BY <2>1, <2>3, IdomRenamed
  <2>5. CASE f \in R
    <3>1. out[f][v] = IF f = Entry THEN Undef(v[2]) ELSE out[Idom(f)][v]
      BY <2>2, <2>5 DEF OutFlows
    <3> QED
      BY <2>4, <2>5, <3>1
  <2>6. CASE f = g
    <3>1. s \in RenameStates /\ NamesSoFar(P, g, s)
      BY DEF LoopState
    <3>2. v \notin DOMAIN s.count
      BY <2>2, <2>6, <3>1 DEF NamesSoFar
    <3>3. Top(s.names, v) = Top(names, v)
      BY <3>1, <3>2, UncountedTop
    <3> QED
      BY <2>4, <2>6, <3>3
  <2> QED
    BY <2>5, <2>6
<1> QED
  BY <1>3 DEF OutFlows

\* The names before a group that is renamed stay.
LEMMA NamesInStay ==
    ASSUME GraphInv, NEW P, NEW R, NEW g \in Groups, StrictDominators(follows, g) \subseteq R, NEW c, NEW d, SamePhis(P, d, c),
           NEW out, NEW now, \A h \in R : now[h] = out[h], NEW v \in P
    PROVE  NameIn(d, now, g, v) = NameIn(c, out, g, v)
<1>1. HasPhi(d, g, v) <=> HasPhi(c, g, v)
  BY DEF SamePhis
<1>2. g # Entry => now[Idom(g)] = out[Idom(g)]
  BY IdomRenamed
<1> QED
  BY <1>1, <1>2 DEF NameIn

\* A group renamed before still does what it did.
LEMMA StillMeans ==
    ASSUME TypeInv, GraphInv, NEW P, NEW R, NEW out, GroupsClosed(R), Replacements(P, R, temporary, code), NEW g \in Groups, g \notin R,
           NEW s, NEW n, n = Len(code[g]), LoopState(P, g, n, s), CodeAfter(P, g, s),
           NEW now, \A h \in R : now[h] = out[h], NEW f \in R, GroupMeans(P, out, temporary, code, f), NEW tt, tt = s.temporary
    PROVE  GroupMeans(P, now, tt, code', f)
<1>1. SamePhis(P, code', code) /\ s \in RenameStates /\ LoadsSoFar(P, g, n, s)
  BY PhisStay DEF LoopState
<1>2. f \in Groups /\ StrictDominators(follows, f) \subseteq R /\ f # g
  BY DEF GroupsClosed, StrictDominators
<1>3. PICK A : A = Before(follows, source, f)
  OBVIOUS
<1>4. PICK B : B = A \cup Loads(source, f)
  OBVIOUS
<1>5. \A x \in B : x \in DOMAIN temporary /\ x \in DOMAIN s.temporary /\ s.temporary[x] = temporary[x]
  <2>1. ASSUME NEW x \in B PROVE x \in DOMAIN temporary
    <3>1. PICK d \in R : x \in Loads(source, d)
      BY <1>2, <1>3, <1>4 DEF Before
    <3> QED
      BY <3>1 DEF Replacements
  <2> QED
    BY <1>1, <2>1 DEF LoadsSoFar
<1>6. PICK nm : nm = NamesIn(P, code, out, f)
  OBVIOUS
<1>7. PICK mm : mm = NamesIn(P, code', now, f)
  OBVIOUS
<1>8. \A v \in P : mm[v] = nm[v]
  <2>1. ASSUME NEW v \in P PROVE NameIn(code', now, f, v) = NameIn(code, out, f, v)
    <3>1. PICK c : c = code
      OBVIOUS
    <3>2. PICK d : d = code'
      OBVIOUS
    <3>3. SamePhis(P, d, c)
      BY <1>1, <3>1, <3>2
    <3>4. \A h \in R : now[h] = out[h]
      OBVIOUS
    <3>5. NameIn(d, now, f, v) = NameIn(c, out, f, v)
      BY ONLY GraphInv, <1>2, <3>3, <3>4, v \in P, NamesInStay
    <3> QED
      BY <3>1, <3>2, <3>5
  <2> QED
    BY <1>6, <1>7, <2>1 DEF NamesIn
<1>9. ASSUME NEW r, NEW q, Same(P, r, q, mm, A, s.temporary)
      PROVE  Same(P, RunCodes(r, source[f]), RunCodes(q, code'[f]), now[f], B, s.temporary)
  <2>1. Same(P, r, q, nm, A, temporary)
    <3>1. \A v \in P : nm[v] = mm[v]
      BY <1>8
    <3>2. \A x \in A : x \in DOMAIN s.temporary => x \in DOMAIN temporary /\ temporary[x] = s.temporary[x]
      BY <1>4, <1>5
    <3>3. PICK t : t = s.temporary
      OBVIOUS
    <3> QED
      BY <1>9, <3>1, <3>2, <3>3, SameNamed
  <2>2. PICK a : a = RunCodes(r, source[f])
    OBVIOUS
  <2>3. PICK b : b = RunCodes(q, code[f])
    OBVIOUS
  <2>4. PICK o : o = out[f]
    OBVIOUS
  <2>5. Same(P, a, b, o, B, temporary)
    BY <1>3, <1>4, <1>6, <2>1, <2>2, <2>3, <2>4 DEF GroupMeans
  <2>6. PICK t : t = s.temporary
    OBVIOUS
  <2>7. Same(P, a, b, o, B, t)
    <3>1. \A x \in B : x \in DOMAIN temporary => x \in DOMAIN t /\ t[x] = temporary[x]
      BY <1>5, <2>6
    <3> QED
      BY <2>5, <3>1, SameNamed
  <2>8. RunCodes(q, code'[f]) = b
    BY <1>1, <1>2, <2>3, FilledRuns
  <2> QED
    BY <2>2, <2>4, <2>6, <2>7, <2>8
<1> QED
  BY <1>3, <1>4, <1>7, <1>9 DEF GroupMeans

\* The group that is renamed does what it did.
LEMMA NowMeans ==
    ASSUME TypeInv, GraphInv, NEW P, NEW R, NEW out, NEW g \in Groups, g \notin R,
           StrictDominators(follows, g) \subseteq R, Ready(P, g), NEW s, s = RenameCodes(code[g]), CodeAfter(P, g, s),
           KeepsMemory(P, source[g], code[g]), NEW now, \A v \in P : now[g][v] = Top(s.names, v), \A h \in R : now[h] = out[h],
           \A v \in P : Top(names, v) = (IF g = Entry THEN Undef(v[2]) ELSE out[Idom(g)][v]), NEW tt, tt = s.temporary
    PROVE  GroupMeans(P, now, tt, code', g)
<1>0. PICK n : n = Len(code[g])
  OBVIOUS
<1>1. LoopState(P, g, n, s)
  BY <1>0, LoopEnds
<1>2. SamePhis(P, code', code) /\ s \in RenameStates
  BY <1>0, <1>1, PhisStay DEF LoopState
<1>3. PICK A : A = Before(follows, source, g)
  OBVIOUS
<1>4. PICK nm : nm = NamesIn(P, code', now, g)
  OBVIOUS
<1>5. ASSUME NEW v \in P PROVE nm[v] = NameNow(g, 0, StartOfRename, v)
  <2>1. PICK z : z = StartOfRename
    OBVIOUS
  <2>2. z.names = names
    BY <2>1 DEF StartOfRename
  <2>3. nm[v] = NameIn(code, out, g, v)
    <3>1. NameIn(code', now, g, v) = NameIn(code, out, g, v)
      BY <1>2, NamesInStay
    <3> QED
      BY <1>4, <3>1 DEF NamesIn
  <2>4. HasPhi(code, g, v) <=> \E m \in 0 + 1 .. Len(code[g]) : IsPhiFor(g, v, code[g][m])
    BY DEF HasPhi
  <2>5. NameNow(g, 0, z, v) = NameIn(code, out, g, v)
    BY <2>2, <2>4 DEF NameNow, NameIn, Top
  <2> QED
    BY <2>1, <2>3, <2>5
<1>6. ASSUME NEW r, NEW q, Same(P, r, q, nm, A, s.temporary)
      PROVE  Same(P, RunCodes(r, source[g]), RunCodes(q, code'[g]), now[g], A \cup Loads(source, g), s.temporary)
  <2>1. PICK o : o = now[g]
    OBVIOUS
  <2>2. \A v \in P : o[v] = Top(s.names, v)
    BY <2>1
  <2>3. Same(P, RunCodes(r, source[g]), RunCodes(q, s.out), o, A \cup Loads(source, g), s.temporary)
    BY <1>3, <1>5, <1>6, <2>2, RenamedMeans
  <2>4. RunCodes(q, code'[g]) = RunCodes(q, s.out)
    BY <1>2, FilledRuns
  <2> QED
    BY <2>1, <2>3, <2>4
<1> QED
  BY <1>3, <1>4, <1>6 DEF GroupMeans

\* Renaming a group keeps what the codes mean.
LEMMA RenameMeaning ==
    ASSUME TypeInv, GraphInv, NEW P, NEW R, NEW out, CodesInv(P, R, out), Meaning(P, R, out, temporary, code), NEW g \in Groups \ R,
           StrictDominators(follows, g) \subseteq R, Ready(P, g), NEW s, s = RenameCodes(code[g]), GroupRenamed(g, s), UNCHANGED graph,
           NEW Q, Q = R \cup {g}, NEW now, \A v \in P : now[g][v] = Top(s.names, v), \A h \in R : now[h] = out[h],
           \A v \in P : Top(names, v) = IF g = Entry THEN Undef(v[2]) ELSE out[Idom(g)][v]
    PROVE  Meaning(P, Q, now, temporary, code)'
<1>0. PICK n : n = Len(code[g])
  OBVIOUS
<1>1. LoopState(P, g, n, s) /\ s \in RenameStates /\ g \in Groups /\ g \notin R
  BY <1>0, LoopEnds DEF LoopState
<1>2. GroupsClosed(R) /\ PhisKnown(P, original, code) /\ Replacements(P, R, temporary, code)
  BY DEF CodesInv
<1>3. CodeAfter(P, g, s)
  BY <1>0, <1>1, <1>2, CodesRenamed
<1>4. follows' = follows /\ source' = source /\ temporary' = s.temporary
  BY DEF graph, GroupRenamed
<1>5. ASSUME NEW f \in Groups \ Q PROVE KeepsMemory(P, source[f], code'[f])
  <2>1. f # g /\ KeepsMemory(P, source[f], code[f])
    BY DEF Meaning
  <2>2. \A r : RunCodes(r, code'[f]) = RunCodes(r, code[f])
    BY <1>1, <1>3, <2>1, FilledRuns
  <2> QED
    BY <2>1, <2>2 DEF KeepsMemory
<1>6. OutFlows(P, Q, now, code')
  <2>1. OutFlows(P, R, out, code)
    BY DEF Meaning
  <2> QED
    BY <1>0, <1>1, <1>2, <1>3, <2>1, FlowsAfter
<1>7. ASSUME NEW f \in Q PROVE GroupMeans(P, now, s.temporary, code', f)
  <2>1. CASE f = g
    <3>1. KeepsMemory(P, source[g], code[g])
      BY DEF Meaning
    <3>2. g \in Groups /\ g \notin R /\ StrictDominators(follows, g) \subseteq R /\ Ready(P, g) /\ s = RenameCodes(code[g])
      BY <1>1
    <3>3. \A v \in P : now[g][v] = Top(s.names, v)
      OBVIOUS
    <3>4. \A h \in R : now[h] = out[h]
      OBVIOUS
    <3>5. \A v \in P : Top(names, v) = (IF g = Entry THEN Undef(v[2]) ELSE out[Idom(g)][v])
      OBVIOUS
    <3>6. PICK tt : tt = s.temporary
      OBVIOUS
    <3>7. GroupMeans(P, now, tt, code', g)
      BY ONLY TypeInv, GraphInv, <1>3, <3>1, <3>2, <3>3, <3>4, <3>5, <3>6, NowMeans
    <3> QED
      BY <2>1, <3>6, <3>7
  <2>2. CASE f \in R
    <3>1. GroupMeans(P, out, temporary, code, f)
      BY <2>2 DEF Meaning
    <3>2. LoopState(P, g, n, s)
      BY <1>1
    <3>3. n = Len(code[g]) /\ g \in Groups /\ g \notin R /\ StrictDominators(follows, g) \subseteq R /\ f \in R
      BY <1>0, <1>1, <2>2
    <3>4. \A h \in R : now[h] = out[h]
      OBVIOUS
    <3>5. PICK tt : tt = s.temporary
      OBVIOUS
    <3>6. GroupMeans(P, now, tt, code', f)
      BY ONLY TypeInv, GraphInv, <1>2, <1>3, <3>1, <3>2, <3>3, <3>4, <3>5, StillMeans
    <3> QED
      BY <3>5, <3>6
  <2> QED
    BY <2>1, <2>2
<1>8. Meaning(P, Q, now, s.temporary, code')
  BY <1>5, <1>6, <1>7 DEF Meaning
<1>9. (\A g_1 \in Groups \ Q : KeepsMemory(P, source[g_1], code[g_1]))'
  BY <1>4, <1>5 DEF KeepsMemory
<1>10. OutFlows(P, Q, now, code)'
  BY <1>4, <1>6 DEF OutFlows, Spreads, Idom, HasPhi, IsPhiFor
<1>11. (\A f \in Q : GroupMeans(P, now, temporary, code, f))'
  <2>1. ASSUME NEW f \in Q PROVE GroupMeans(P, now, temporary, code, f)'
    BY <1>4, <1>7 DEF GroupMeans, NamesIn, NameIn, Idom, HasPhi, IsPhiFor, Same, Known
  <2> QED
    BY <2>1
<1> QED
  BY <1>9, <1>10, <1>11 DEF Meaning

-----------------------------------------------------------------------------
(***************************************************************************)
(* The invariant of the pass.                                              *)
(***************************************************************************)
\* What holds once a round has renamed the variables P of every group.
Final(P, out, orig, tmp, codes) ==
    /\ AreVariables(P) /\ GroupsRenamed(P, Groups, codes)
    /\ PhisKnown(P, orig, codes) /\ PhisFilled(P, Groups, out, codes)
    /\ NamesOut(P, Groups, out, codes) /\ Replacements(P, Groups, tmp, codes)
    /\ Meaning(P, Groups, out, tmp, codes)
FinalInv == \E P, out, orig, tmp : Final(P, out, orig, tmp, code)

\* What holds when no variable is left and none was loaded.
Untouched == Bodies({}, code) /\ Memories({}, code) /\ PhisKnown({}, original, code)

RoundOver == scan = <<>> /\ names = NoMap /\ stack = <<>> /\ FinalInv

\* While the round renames; R are the groups that are renamed.
Renaming(P, R, out, h) ==
    /\ CodesInv(P, R, out) /\ Meaning(P, R, out, temporary, code)
    /\ WalkTree(R) /\ WalkNames(P, out, h)
RenameInv == \E P, R, out, h : Renaming(P, R, out, h)

PassInv ==
    /\ TypeInv /\ GraphInv
    /\ phase = "scan" => ScanInv \/ RoundOver
    /\ phase = "rename" => RenameInv
    /\ phase = "finished" => FinalInv \/ Untouched

-----------------------------------------------------------------------------
\* The graph stays.
LEMMA GraphStays ==
    ASSUME GraphInv, UNCHANGED graph
    PROVE  GraphInv'
<1>1. follows' = follows /\ precedes' = precedes /\ children' = children /\ frontier' = frontier /\ source' = source
  BY DEF graph
<1> QED
  BY <1>1 DEF GraphInv

\* What a group means stays while the codes do.
LEMMA MeaningStays ==
    ASSUME UNCHANGED <<graph, code>>, NEW P, NEW R, NEW out, NEW tmp, Meaning(P, R, out, tmp, code)
    PROVE  Meaning(P, R, out, tmp, code)'
<1>1. follows' = follows /\ source' = source /\ code' = code
  BY DEF graph
<1>2. (\A g \in Groups \ R : KeepsMemory(P, source[g], code[g]))'
  BY <1>1 DEF Meaning
<1>3. OutFlows(P, R, out, code)'
  BY <1>1 DEF Meaning, OutFlows, Spreads, Idom
<1>4. (\A g \in R : GroupMeans(P, out, tmp, code, g))'
  <2>1. ASSUME NEW g \in R PROVE GroupMeans(P, out, tmp, code, g)'
    <3>1. GroupMeans(P, out, tmp, code, g)
      BY DEF Meaning
    <3> QED
      BY <1>1, <3>1 DEF GroupMeans, NamesIn, NameIn, Idom
  <2> QED
    BY <2>1
<1> QED
  BY <1>2, <1>3, <1>4 DEF Meaning

\* So does what is there.
LEMMA GoodStays ==
    ASSUME UNCHANGED <<graph, code>>, NEW P, NEW g, NEW x, Good(code, P, g, x)
    PROVE  Good(code, P, g, x)'
BY DEF Good, graph

\* And what the codes are.
LEMMA CodesStay ==
    ASSUME UNCHANGED <<graph, code>>, NEW P, NEW R, NEW out, NEW tmp
    PROVE  /\ BodiesLeft(P, R, code) => BodiesLeft(P, R, code)'
           /\ GroupsRenamed(P, R, code) => GroupsRenamed(P, R, code)'
           /\ NamesOut(P, R, out, code) => NamesOut(P, R, out, code)'
           /\ PhisFilled(P, R, out, code) => PhisFilled(P, R, out, code)'
           /\ PhisSpread(P, code) => PhisSpread(P, code)'
           /\ Replacements(P, R, tmp, code) => Replacements(P, R, tmp, code)'
<1>1. follows' = follows /\ precedes' = precedes /\ source' = source /\ code' = code
  BY DEF graph
<1>2. BodiesLeft(P, R, code) => BodiesLeft(P, R, code)'
  BY <1>1 DEF BodiesLeft
<1>3. GroupsRenamed(P, R, code) => GroupsRenamed(P, R, code)'
  BY <1>1, GoodStays DEF GroupsRenamed, RenamedCode
<1>4. NamesOut(P, R, out, code) => NamesOut(P, R, out, code)'
  BY <1>1, GoodStays DEF NamesOut
<1>5. PhisFilled(P, R, out, code) => PhisFilled(P, R, out, code)'
  BY <1>1 DEF PhisFilled, PhiFilled
<1>6. PhisSpread(P, code) => PhisSpread(P, code)'
  BY <1>1 DEF PhisSpread, Spreads
<1>7. Replacements(P, R, tmp, code) => Replacements(P, R, tmp, code)'
  BY <1>1, GoodStays DEF Replacements
<1> QED
  BY <1>2, <1>3, <1>4, <1>5, <1>6, <1>7

\* The phis stay known.
LEMMA KnownStays ==
    ASSUME UNCHANGED <<graph, code>>, NEW P, NEW orig, PhisKnown(P, orig, code)
    PROVE  PhisKnown(P, orig, code)'
BY DEF PhisKnown, PhiKnown, graph

\* What a round has made stays.
LEMMA FinalStays ==
    ASSUME UNCHANGED <<graph, code>>, FinalInv
    PROVE  FinalInv'
<1>1. PICK P, out, orig, tmp : Final(P, out, orig, tmp, code)
  BY DEF FinalInv
<1>2. Final(P, out, orig, tmp, code)'
  <2>1. Meaning(P, Groups, out, tmp, code)'
    BY <1>1, MeaningStays DEF Final
  <2>2. PhisKnown(P, orig, code)'
    BY <1>1, KnownStays DEF Final
  <2>3. GroupsRenamed(P, Groups, code)' /\ PhisFilled(P, Groups, out, code)' /\ NamesOut(P, Groups, out, code)' /\ Replacements(P, Groups, tmp, code)'
    BY <1>1, CodesStay DEF Final
  <2>4. AreVariables(P)'
    BY <1>1 DEF Final
  <2> QED
    BY <2>1, <2>2, <2>3, <2>4 DEF Final
<1> QED
  BY <1>2 DEF FinalInv

\* So do codes that are left alone.
LEMMA UntouchedStays ==
    ASSUME UNCHANGED <<graph, code, original>>, Untouched
    PROVE  Untouched'
BY DEF Untouched, Bodies, Memories, PhisKnown, PhiKnown, graph

\* While calls return the codes stay.
LEMMA InvStays ==
    ASSUME UNCHANGED <<graph, code, temporary, original>>, NEW P, NEW R, NEW out, CodesInv(P, R, out),
           Meaning(P, R, out, temporary, code)
    PROVE  CodesInv(P, R, out)' /\ Meaning(P, R, out, temporary, code)'
<1>1. PICK tmp : tmp = temporary
  OBVIOUS
<1>2. PICK orig : orig = original
  OBVIOUS
<1>3. follows' = follows /\ temporary' = tmp /\ original' = orig
  BY <1>1, <1>2 DEF graph
<1>4. Meaning(P, R, out, temporary, code)'
  <2>1. Meaning(P, R, out, tmp, code)'
    BY <1>1, MeaningStays
  <2> QED
    BY <1>3, <2>1 DEF Meaning, GroupMeans
<1>5. PhisKnown(P, original, code)'
  <2>1. PhisKnown(P, orig, code)'
    BY <1>2, KnownStays DEF CodesInv
  <2> QED
    BY <1>3, <2>1 DEF PhisKnown, PhiKnown
<1>6. Replacements(P, R, temporary, code)'
  <2>1. Replacements(P, R, tmp, code)'
    BY <1>1, CodesStay DEF CodesInv
  <2> QED
    BY <1>3, <2>1 DEF Replacements
<1>7. BodiesLeft(P, R, code)' /\ GroupsRenamed(P, R, code)' /\ NamesOut(P, R, out, code)' /\ PhisFilled(P, R, out, code)' /\ PhisSpread(P, code)'
  BY CodesStay DEF CodesInv
<1>8. AreVariables(P)' /\ GroupsClosed(R)'
  BY <1>3 DEF CodesInv, GroupsClosed
<1> QED
  BY <1>4, <1>5, <1>6, <1>7, <1>8 DEF CodesInv

\* The scan starts a round of renaming with the variables it has found.
LEMMA ScanEnds ==
    ASSUME TypeInv, ScanInv, scan = <<>>, NEW P, P = DOMAIN names
    PROVE  CodesInv(P, {}, <<>>) /\ Meaning(P, {}, <<>>, temporary, code) /\ Live = P
<1>1. Live = P
  <2>1. ScanIds = {}
    BY DEF ScanIds
  <2> QED
    BY <2>1 DEF Live
<1>2. DOMAIN temporary = {}
  BY DEF ScanInv, NoMap
<1>3. CodesInv(P, {}, <<>>)
  <2>1. BodiesLeft(P, {}, code)
    BY <1>1 DEF ScanInv, Bodies, BodiesLeft
  <2>2. GroupsRenamed(P, {}, code) /\ NamesOut(P, {}, <<>>, code) /\ GroupsClosed({})
    BY DEF GroupsRenamed, NamesOut, GroupsClosed
  <2>3. Replacements(P, {}, temporary, code)
    BY <1>2 DEF Replacements
  <2>4. AreVariables(P) /\ PhisKnown(P, original, code) /\ PhisFilled(P, {}, <<>>, code) /\ PhisSpread(P, code)
    BY <1>1 DEF ScanInv
  <2> QED
    BY <2>1, <2>2, <2>3, <2>4 DEF CodesInv
<1>4. Meaning(P, {}, <<>>, temporary, code)
  BY <1>1 DEF ScanInv, Memories, Meaning, OutFlows
<1> QED
  BY <1>1, <1>3, <1>4

\* StartRename renames the entry.
LEMMA StartInv ==
    ASSUME TypeInv, GraphInv, ScanInv, StartRename, names # NoMap
    PROVE  RenameInv'
<1>1. PICK P : P = DOMAIN names
  OBVIOUS
<1>2. scan = <<>> /\ RenameGroup(Entry) /\ UNCHANGED graph /\ stack = <<>>
  BY DEF StartRename, ScanInv
<1>3. CodesInv(P, {}, <<>>) /\ Meaning(P, {}, <<>>, temporary, code)
  BY <1>1, <1>2, ScanEnds
<1>4. Entry \in Groups /\ StrictDominators(follows, Entry) = {}
  BY EntryAssumption, EntryDominates DEF GraphInv, IsConnected, StrictDominators
<1>5. ASSUME NEW v \in P PROVE Len(names[v]) >= 1 /\ Top(names, v) = Undef(v[2])
  <2>1. names[v] = <<Undef(v[2])>>
    BY <1>1 DEF ScanInv
  <2>2. v \in DOMAIN names /\ names \in Maps(Seq(Values))
    BY <1>1 DEF TypeInv
  <2>3. Len(names[v]) = 1 /\ names[v][1] = Undef(v[2])
    BY <2>1
  <2>5. Len(names[v]) >= 1
    BY <2>3
  <2>4. Top(names, v) = names[v][Len(names[v])]
    <3>1. PICK nm \in Maps(Seq(Values)) : nm = names
      BY <2>2
    <3>2. v \in DOMAIN nm /\ Len(nm[v]) >= 1
      BY <2>2, <2>5, <3>1
    <3>3. Top(nm, v) = nm[v][Len(nm[v])]
      BY ONLY nm \in Maps(Seq(Values)), <3>2, TopIs
    <3> QED
      BY <3>1, <3>3
  <2> QED
    BY ONLY <2>3, <2>4, <2>5
<1>6. ASSUME NEW v \in P PROVE Good(code, P, Entry, Top(names, v))
  BY <1>5 DEF Good, Undef
<1>7. Ready(P, Entry)
  <2>1. PICK R : R = {}
    OBVIOUS
  <2>2. PICK o : o = <<>>
    OBVIOUS
  <2>3. CodesInv(P, R, o) /\ DOMAIN names = P /\ Entry \in Groups \ R /\ StrictDominators(follows, Entry) \subseteq R
    BY <1>1, <1>3, <1>4, <2>1, <2>2
  <2>4. \A v \in P : Len(names[v]) >= 1 /\ Good(code, P, Entry, Top(names, v))
    BY <1>5, <1>6
  <2> QED
    BY <2>3, <2>4, GetsReady
<1>8. PICK s : s = RenameCodes(code[Entry])
  OBVIOUS
<1>9. PICK n : n = Len(code[Entry])
  OBVIOUS
<1>10. LoopState(P, Entry, n, s) /\ GroupRenamed(Entry, s)
  BY <1>2, <1>7, <1>8, <1>9, LoopEnds, RenameGroupIs
<1>11. PICK now : now = [g \in {Entry} |-> [v \in P |-> Top(s.names, v)]]
  OBVIOUS
<1>12. \A v \in P : now[Entry][v] = Top(s.names, v)
  BY <1>11
<1>13. PICK e : e = [j \in {1} |-> [v \in P |-> Len(s.names[v])]]
  OBVIOUS
<1>14. PICK Q : Q = {Entry}
  OBVIOUS
<1>15. CodesInv(P, Q, now)'
  <2>1. PICK R : R = {}
    OBVIOUS
  <2>2. PICK o : o = <<>>
    OBVIOUS
  <2>3. CodesInv(P, R, o) /\ Entry \in Groups \ R /\ StrictDominators(follows, Entry) \subseteq R /\ Q = R \cup {Entry}
    BY <1>3, <1>4, <1>14, <2>1, <2>2
  <2>4. \A h \in R : now[h] = o[h]
    BY <2>1
  <2> QED
    BY <1>2, <1>7, <1>9, <1>10, <1>12, <2>3, <2>4, RenameCodesInv
<1>16. Meaning(P, Q, now, temporary, code)'
  <2>1. PICK R : R = {}
    OBVIOUS
  <2>2. PICK o : o = <<>>
    OBVIOUS
  <2>3. CodesInv(P, R, o) /\ Meaning(P, R, o, temporary, code)
        /\ Entry \in Groups \ R /\ StrictDominators(follows, Entry) \subseteq R /\ Q = R \cup {Entry}
    BY <1>3, <1>4, <1>14, <2>1, <2>2
  <2>4. \A h \in R : now[h] = o[h]
    BY <2>1
  <2>5. PICK g : g = Entry
    OBVIOUS
  <2>6. \A v \in P : Top(names, v) = IF g = Entry THEN Undef(v[2]) ELSE o[Idom(g)][v]
    BY <1>5, <2>5
  <2>7. g \in Groups \ R /\ StrictDominators(follows, g) \subseteq R /\ Ready(P, g) /\ s = RenameCodes(code[g]) /\ GroupRenamed(g, s) /\ Q = R \cup {g}
    BY <1>7, <1>8, <1>10, <2>3, <2>5
  <2>8. \A v \in P : now[g][v] = Top(s.names, v)
    BY <1>12, <2>5
  <2> QED
    BY <1>2, <2>3, <2>4, <2>6, <2>7, <2>8, RenameMeaning
<1>17. stack' = <<NewFrame(Entry, s)>> /\ names' = s.names
  BY <1>2, <1>10 DEF GroupRenamed, Called
<1>18. WalkTree(Q)'
  BY <1>2, <1>14, <1>17, FirstTree DEF graph
<1>19. WalkNames(P, now, e)'
  <2>1. \A v \in P : e[1][v] = Len(s.names[v])
    BY <1>13
  <2>2. \A v \in P : Len(names[v]) >= 1
    BY <1>5
  <2> QED
    BY <1>1, <1>10, <1>12, <1>17, <2>1, <2>2, FirstNames
<1>20. Renaming(P, Q, now, e)'
  BY <1>15, <1>16, <1>18, <1>19 DEF Renaming
<1> QED
  BY <1>20 DEF RenameInv

\* The names on top are those of the group of the innermost call.
LEMMA TopOfCall ==
    ASSUME TypeInv, NEW P, NEW out, NEW h, WalkNames(P, out, h), NEW k, k = Len(stack), stack # <<>>, NEW v \in P
    PROVE  Len(names[v]) >= 1 /\ Top(names, v) = out[stack[k].group][v]
<1>1. k \in Nat /\ k >= 1
  BY FrontType DEF TypeInv
<1>2. k \in 1 .. Len(stack)
  BY <1>1
<1>3. h[k][v] = Len(names[v]) /\ h[k][v] \in Nat /\ 1 <= h[k][v] /\ names[v][h[k][v]] = out[stack[k].group][v]
  BY <1>2 DEF WalkNames
<1>4. v \in DOMAIN names /\ names \in Maps(Seq(Values)) /\ Len(names[v]) >= 1
  BY <1>3 DEF WalkNames, TypeInv
<1>5. Top(names, v) = names[v][Len(names[v])]
  BY <1>4, TopIs
<1> QED
  BY <1>3, <1>4, <1>5

\* RenameChild renames a child.
LEMMA ChildInv ==
    ASSUME TypeInv, GraphInv, RenameInv, NEW c \in Groups, RenameChild(c)
    PROVE  RenameInv'
<1>1. PICK P, R, out, h : Renaming(P, R, out, h)
  BY DEF RenameInv
<1>2. /\ CodesInv(P, R, out) /\ Meaning(P, R, out, temporary, code) /\ WalkTree(R) /\ WalkNames(P, out, h)
      /\ GroupsClosed(R) /\ DOMAIN names = P
  BY <1>1 DEF Renaming, CodesInv, WalkNames
<1>3. PICK k : k = Len(stack)
  OBVIOUS
<1>4. /\ k \in Nat /\ k >= 1 /\ stack # <<>> /\ Last(stack) = stack[k]
      /\ c \in stack[k].todo /\ RenameGroup(c) /\ UNCHANGED graph
  BY <1>3, FrontType DEF RenameChild, TypeInv
<1>5. PICK p : p = stack[k].group
  OBVIOUS
<1>6. /\ c \in Groups \ R /\ c \notin R /\ StrictDominators(follows, c) \subseteq R
      /\ IsIdom(follows, p, c) /\ p \in R /\ p \in Dominators(follows, c)
  BY <1>2, <1>3, <1>4, <1>5, CalledChild
<1>7. c # Entry /\ Idom(c) = p
  BY <1>6, GroupsAssumption, IdomDepth, IdomRenamed, IdomUnique DEF GraphInv
<1>8. ASSUME NEW v \in P PROVE Len(names[v]) >= 1 /\ Top(names, v) = out[p][v] /\ Good(code, P, c, Top(names, v))
  <2>1. Len(names[v]) >= 1 /\ Top(names, v) = out[p][v]
    BY <1>2, <1>3, <1>4, <1>5, TopOfCall
  <2>2. Good(code, P, p, out[p][v])
    BY <1>2, <1>6 DEF CodesInv, NamesOut
  <2>3. PICK x : x = out[p][v]
    OBVIOUS
  <2>4. Good(code, P, c, x)
    BY <1>6, <2>2, <2>3, GoodBelow
  <2> QED
    BY <2>1, <2>3, <2>4
<1>9. Ready(P, c)
  <2>1. \A v \in P : Len(names[v]) >= 1 /\ Good(code, P, c, Top(names, v))
    BY <1>8
  <2> QED
    BY <1>2, <1>6, <2>1, GetsReady
<1>10. PICK s : s = RenameCodes(code[c])
  OBVIOUS
<1>11. PICK n : n = Len(code[c])
  OBVIOUS
<1>12. LoopState(P, c, n, s) /\ GroupRenamed(c, s)
  BY <1>4, <1>9, <1>10, <1>11, LoopEnds, RenameGroupIs
<1>13. PICK Q : Q = R \cup {c}
  OBVIOUS
<1>14. PICK now : now = [g \in Q |-> IF g = c THEN [v \in P |-> Top(s.names, v)] ELSE out[g]]
  OBVIOUS
<1>15. \A v \in P : now[c][v] = Top(s.names, v)
  BY <1>13, <1>14
<1>16. \A g \in R : now[g] = out[g]
  BY <1>6, <1>13, <1>14
<1>17. CodesInv(P, Q, now)'
  BY <1>2, <1>4, <1>6, <1>9, <1>11, <1>12, <1>13, <1>15, <1>16, RenameCodesInv
<1>18. Meaning(P, Q, now, temporary, code)'
  <2>1. \A v \in P : Top(names, v) = IF c = Entry THEN Undef(v[2]) ELSE out[Idom(c)][v]
    BY <1>7, <1>8
  <2> QED
    BY <1>2, <1>4, <1>6, <1>9, <1>10, <1>12, <1>13, <1>15, <1>16, <2>1, RenameMeaning
<1>19. stack' = Append(Called(c), NewFrame(c, s)) /\ names' = s.names
  BY <1>12 DEF GroupRenamed
<1>20. WalkTree(Q)'
  BY <1>2, <1>3, <1>4, <1>13, <1>19, CallsTree DEF graph
<1>21. PICK e : e = [j \in 1 .. k + 1 |-> IF j = k + 1 THEN [v \in P |-> Len(s.names[v])] ELSE h[j]]
  OBVIOUS
<1>22. HigherBy(P, h, k, s.names, e)
  <2>1. k + 1 \in 1 .. k + 1 /\ \A j \in 1 .. k : j \in 1 .. k + 1 /\ j # k + 1
    BY <1>4
  <2>2. e[k + 1] = [v \in P |-> Len(s.names[v])] /\ \A j \in 1 .. k : e[j] = h[j]
    BY <1>21, <2>1
  <2> QED
    BY <2>2 DEF HigherBy
<1>23. WalkNames(P, now, e)'
  BY <1>2, <1>3, <1>4, <1>6, <1>12, <1>15, <1>16, <1>19, <1>22, CallsNames
<1>24. Renaming(P, Q, now, e)'
  BY <1>17, <1>18, <1>20, <1>23 DEF Renaming
<1> QED
  BY <1>24 DEF RenameInv

\* An operand of a code that a round has renamed is there.
LEMMA FinalOperand ==
    ASSUME TypeInv, GraphInv, NEW P, NEW out, NEW orig, NEW tmp, Final(P, out, orig, tmp, code),
           NEW g \in Groups, NEW n \in 1 .. Len(code[g]), NEW i, i = code[g][n], NEW k \in 1 .. Len(i.args)
    PROVE  /\ i.op # "phi" => Good(code, P, g, i.args[k])
           /\ i.op = "phi" => k \in 1 .. Len(precedes[g]) /\ precedes[g][k] \in Groups /\ Good(code, P, precedes[g][k], i.args[k])
<1>1. RenamedCode(code, P, g, i)
  BY DEF Final, GroupsRenamed
<1>2. i \in Shaped
  BY CodeOf DEF TypeInv
<1>3. CASE i.op = "use"
  BY <1>1, <1>3 DEF RenamedCode
<1>4. CASE i.op = "jump"
  <2>1. Len(i.args) = 0
    BY <1>1, <1>4 DEF RenamedCode
  <2> QED
    BY <2>1
<1>5. CASE i.op = "phi"
  <2>1. PhiKnown(g, P, orig, i)
    BY <1>5 DEF Final, PhisKnown
  <2>2. PICK v \in P : i.id = PhiOf(g, v[2])
    BY <2>1 DEF PhiKnown
  <2>3. k \in 1 .. Len(precedes[g])
    BY <2>1 DEF PhiKnown
  <2>4. PhiFilled(g, P, Groups, out, i)
    BY <1>5 DEF Final, PhisFilled
  <2>5. i.args[k] = SourceFor(Groups, out, precedes[g][k], v)
    BY <2>2, <2>3, <2>4 DEF PhiFilled
  <2>6. precedes[g][k] \in Groups
    BY <2>3 DEF GraphInv
  <2>7. i.args[k] = out[precedes[g][k]][v]
    BY <2>5, <2>6 DEF SourceFor
  <2>8. Good(code, P, precedes[g][k], out[precedes[g][k]][v])
    BY <2>6 DEF Final, NamesOut
  <2> QED
    BY <1>5, <2>3, <2>6, <2>7, <2>8
<1> QED
  BY <1>1, <1>3, <1>4, <1>5 DEF RenamedCode

\* And its result is a phi or none.
LEMMA FinalResult ==
    ASSUME TypeInv, NEW P, NEW out, NEW orig, NEW tmp, Final(P, out, orig, tmp, code),
           NEW g \in Groups, NEW n \in 1 .. Len(code[g])
    PROVE  code[g][n].op # "alloca" /\ (code[g][n].id = Nothing \/ code[g][n].id[1] = "phi")
<1>1. RenamedCode(code, P, g, code[g][n])
  BY DEF Final, GroupsRenamed
<1>2. code[g][n] \in Shaped
  BY CodeOf DEF TypeInv
<1> QED
  BY <1>1, <1>2 DEF RenamedCode, Shaped

\* What is there is defined.
LEMMA GoodDefined ==
    ASSUME TypeInv, GraphInv, NEW P, NEW g \in Groups, NEW x, Good(code, P, g, x)
    PROVE  x[1] \in {"constant", "undef"} \/ (x[1] = "phi" /\ x \in Defined(code))
<1>1. ASSUME NEW h \in Dominators(follows, g), NEW v \in P, x = PhiOf(h, v[2]), HasPhi(code, h, v) PROVE x[1] = "phi" /\ x \in Defined(code)
  <2>1. h \in Groups
    BY SelfDominates
  <2>2. PICK n \in 1 .. Len(code[h]) : code[h][n].id = PhiOf(h, v[2])
    BY <1>1 DEF HasPhi, IsPhiFor
  <2>3. n \in DOMAIN code[h]
    BY <2>1, CodeOf DEF TypeInv
  <2>4. x[1] = "phi"
    BY <1>1 DEF PhiOf
  <2> QED
    BY <1>1, <2>1, <2>2, <2>3, <2>4 DEF Defined
<1> QED
  BY <1>1 DEF Good

\* What is mentioned is an operand of a code.
LEMMA MentionedIs ==
    ASSUME TypeInv, NEW x \in Mentioned(code)
    PROVE  \E g \in Groups : \E n \in 1 .. Len(code[g]) : \E k \in 1 .. Len(code[g][n].args) : x = code[g][n].args[k]
<1>1. PICK g \in Groups : \E n \in DOMAIN code[g] : x \in ToSet(code[g][n].args)
  BY DEF Mentioned
<1>2. PICK n \in DOMAIN code[g] : x \in ToSet(code[g][n].args)
  BY <1>1
<1>3. n \in 1 .. Len(code[g]) /\ code[g][n] \in Shaped
  BY CodeOf DEF TypeInv
<1>4. PICK k \in DOMAIN code[g][n].args : x = code[g][n].args[k]
  BY <1>2 DEF ToSet
<1>5. k \in 1 .. Len(code[g][n].args)
  BY <1>3, ArgsOf
<1> QED
  BY <1>3, <1>4, <1>5

\* A round leaves nothing of its variables.
LEMMA FinalPromotes ==
    ASSUME TypeInv, GraphInv, NEW P, NEW out, NEW orig, NEW tmp, Final(P, out, orig, tmp, code)
    PROVE  P \cap (Defined(code) \cup Mentioned(code)) = {}
<1>1. ASSUME NEW v \in P PROVE v \notin Defined(code)
  <2>1. v[1] = "address"
    BY VariablesAre DEF Final
  <2>2. ASSUME NEW g \in Groups, NEW n \in DOMAIN code[g] PROVE code[g][n].id # v
    <3>1. n \in 1 .. Len(code[g])
      BY CodeOf DEF TypeInv
    <3> QED
      BY <2>1, <3>1, FinalResult DEF Nothing
  <2> QED
    BY <2>2 DEF Defined
<1>2. ASSUME NEW v \in P, v \in Mentioned(code) PROVE FALSE
  <2>1. v[1] = "address"
    BY VariablesAre DEF Final
  <2>2. PICK g \in Groups : \E n \in 1 .. Len(code[g]) : \E k \in 1 .. Len(code[g][n].args) : v = code[g][n].args[k]
    BY <1>2, MentionedIs
  <2>3. PICK n \in 1 .. Len(code[g]) : \E k \in 1 .. Len(code[g][n].args) : v = code[g][n].args[k]
    BY <2>2
  <2>4. PICK i : i = code[g][n]
    OBVIOUS
  <2>5. PICK k \in 1 .. Len(i.args) : v = i.args[k]
    BY <2>3, <2>4
  <2>6. \E d \in Groups : Good(code, P, d, v)
    BY <2>4, <2>5, FinalOperand
  <2> QED
    BY <2>1, <2>6, GoodDefined
<1> QED
  BY <1>1, <1>2

\* What is available while the allocas are scanned is defined.
LEMMA AvailableDefined ==
    ASSUME TypeInv, GraphInv, NEW K, Bodies(K, code), NEW g \in Groups, NEW n \in 1 .. Len(code[g]), NEW x,
           Available(Before(follows, source, g), code[g], n, x)
    PROVE  x[1] = "constant" \/ x \in Defined(code)
<1>1. CASE x \in Before(follows, source, g)
  <2>1. PICK d \in StrictDominators(follows, g) : x \in Loads(source, d)
    BY <1>1 DEF Before
  <2>2. d \in Groups
    BY SelfDominates DEF StrictDominators
  <2>3. GroupBody(K, Loads(source, d), Before(follows, source, d), code[d])
    BY <2>2 DEF Bodies
  <2>4. PICK m \in 1 .. Len(code[d]) : code[d][m].id = x
    BY <2>1, <2>3 DEF GroupBody
  <2>5. m \in DOMAIN code[d]
    BY <2>2, CodeOf DEF TypeInv
  <2> QED
    BY <2>2, <2>4, <2>5 DEF Defined
<1>2. ASSUME NEW m \in 1 .. n - 1, code[g][m].id = x PROVE x \in Defined(code)
  <2>1. m \in DOMAIN code[g]
    BY CodeOf DEF TypeInv
  <2> QED
    BY <1>2, <2>1 DEF Defined
<1> QED
  BY <1>1, <1>2 DEF Available

\* What is mentioned before a round is defined.
LEMMA ScanMentions ==
    ASSUME TypeInv, GraphInv, ScanInv, names = NoMap, NEW x \in Mentioned(code)
    PROVE  x[1] = "constant" \/ x \in Defined(code)
<1>1. PICK g \in Groups : \E n \in 1 .. Len(code[g]) : \E k \in 1 .. Len(code[g][n].args) : x = code[g][n].args[k]
  BY MentionedIs
<1>2. PICK n \in 1 .. Len(code[g]) : \E k \in 1 .. Len(code[g][n].args) : x = code[g][n].args[k]
  BY <1>1
<1>3. PICK i : i = code[g][n]
  OBVIOUS
<1>4. PICK k \in 1 .. Len(i.args) : x = i.args[k]
  BY <1>2, <1>3
<1>5. i \in Shaped
  BY <1>3, CodeOf DEF TypeInv
<1>6. Bodies(Live, code)
  BY DEF ScanInv
<1>7. BodyCode(Live, Loads(source, g), Before(follows, source, g), code[g], n)
  BY <1>6 DEF Bodies, GroupBody
<1>8. ASSUME x \in Live PROVE x \in Defined(code)
  <2>1. PICK m \in 1 .. Len(code[Entry]) : code[Entry][m].id = x
    BY <1>8 DEF ScanInv, AllocasOfAll
  <2>2. m \in DOMAIN code[Entry] /\ Entry \in Groups
    BY EntryAssumption, CodeOf DEF TypeInv
  <2> QED
    BY <2>1, <2>2 DEF Defined
<1>9. i.op # "phi"
  <2>1. DOMAIN names = {}
    BY DEF NoMap
  <2> QED
    BY <1>3, <2>1 DEF ScanInv, PhisKnown, PhiKnown
<1>10. ASSUME Available(Before(follows, source, g), code[g], n, x) PROVE x[1] = "constant" \/ x \in Defined(code)
  BY <1>6, <1>10, AvailableDefined
<1>11. CASE i.op \in {"alloca", "jump"}
  <2>1. i.args = <<>>
    BY <1>3, <1>7, <1>11 DEF BodyCode
  <2> QED
    BY <1>4, <2>1
<1>12. CASE i.op = "load"
  <2>1. k = 1
    BY <1>4, <1>5, <1>12, ShapeOf
  <2>2. i.args[1] \in Live
    BY <1>3, <1>7, <1>12 DEF BodyCode, Direct
  <2> QED
    BY <1>4, <1>8, <2>1, <2>2
<1>13. CASE i.op = "store"
  <2>1. k = 1 \/ k = 2
    BY <1>4, <1>5, <1>13, ShapeOf
  <2>2. i.args[2] \in Live /\ Available(Before(follows, source, g), code[g], n, i.args[1])
    BY <1>3, <1>7, <1>13 DEF BodyCode
  <2> QED
    BY <1>4, <1>8, <1>10, <2>1, <2>2
<1>14. CASE i.op = "use"
  BY <1>3, <1>4, <1>7, <1>10, <1>14 DEF BodyCode
<1> QED
  BY <1>3, <1>7, <1>9, <1>11, <1>12, <1>13, <1>14 DEF BodyCode, Direct

\* The last call of a round.
LastReturn == ReturnFromChild /\ Len(stack) = 1

\* When it returns the round has renamed every group.
LEMMA RoundEnds ==
    ASSUME TypeInv, GraphInv, RenameInv, LastReturn
    PROVE  /\ \E P, out : DOMAIN names = P /\ Final(P, out, original, temporary, code)
           /\ StartRound(code[Entry]) /\ stack' = Front(stack) /\ UNCHANGED <<graph, code>>
<1>1. PICK P, R, out, h : Renaming(P, R, out, h)
  BY DEF RenameInv
<1>2. /\ CodesInv(P, R, out) /\ Meaning(P, R, out, temporary, code) /\ WalkTree(R) /\ WalkNames(P, out, h)
      /\ GroupsClosed(R) /\ DOMAIN names = P
  BY <1>1 DEF Renaming, CodesInv, WalkNames
<1>3. Len(stack) = 1 /\ stack # <<>> /\ Last(stack) = stack[1] /\ stack[1].todo = {}
  BY FrontType DEF LastReturn, ReturnFromChild, TypeInv
<1>4. R = Groups
  BY <1>2, <1>3, WalkDone
<1>5. Final(P, out, original, temporary, code)
  BY <1>2, <1>4 DEF Final, CodesInv
<1>6. StartRound(code[Entry]) /\ stack' = Front(stack) /\ UNCHANGED <<graph, code>>
  BY DEF LastReturn, ReturnFromChild
<1> QED
  BY <1>2, <1>5, <1>6

\* Then there are no allocas left to scan.
LEMMA NoAllocasLeft ==
    ASSUME TypeInv, NEW P, NEW out, NEW orig, NEW tmp, Final(P, out, orig, tmp, code)
    PROVE  AllocasOf(code[Entry]) = <<>>
<1>1. PICK c : c = code[Entry]
  OBVIOUS
<1>2. PICK a : a = AllocasOf(c)
  OBVIOUS
<1>3. c \in Seq(Shaped)
  BY <1>1, EntryAssumption, CodeOf DEF TypeInv
<1>4. IsAllocas(a) /\ \A n \in 1 .. Len(a) : \E m \in 1 .. Len(c) : a[n] = c[m]
  BY <1>2, <1>3, AllocasFound
<1>5. \A m \in 1 .. Len(c) : c[m].op # "alloca"
  BY <1>1, EntryAssumption, FinalResult
<1>6. 1 \notin 1 .. Len(a)
  BY <1>4, <1>5 DEF IsAllocas
<1>7. a \in Seq(Shaped)
  BY <1>4 DEF IsAllocas
<1>8. Len(a) = 0
  BY <1>6, <1>7, LenProperties
<1>9. a = <<>>
  BY <1>7, <1>8, EmptySeq
<1> QED
  BY <1>1, <1>2, <1>9

\* The end of a round.
LEMMA LastReturnInv ==
    ASSUME TypeInv, GraphInv, RenameInv, LastReturn
    PROVE  RoundOver' /\ phase' = "scan"
<1>1. PICK P, out : Final(P, out, original, temporary, code)
  BY RoundEnds
<1>2. StartRound(code[Entry]) /\ stack' = Front(stack) /\ UNCHANGED <<graph, code>>
  BY RoundEnds
<1>3. FinalInv'
  BY <1>1, <1>2, FinalStays DEF FinalInv
<1>4. scan' = <<>> /\ names' = NoMap /\ phase' = "scan"
  BY <1>1, <1>2, NoAllocasLeft DEF StartRound
<1>5. stack' = <<>>
  <2>1. stack # <<>> /\ Len(stack) = 1
    BY DEF LastReturn, TypeInv, ReturnFromChild
  <2>2. Front(stack) \in Seq(Frames) /\ Len(Front(stack)) = 0
    BY <2>1, FrontType DEF TypeInv
  <2> QED
    BY <1>2, <2>2, EmptySeq
<1> QED
  BY <1>3, <1>4, <1>5 DEF RoundOver

\* The end of any other call.
LEMMA InnerReturnInv ==
    ASSUME TypeInv, GraphInv, RenameInv, ReturnFromChild, Len(stack) # 1
    PROVE  RenameInv' /\ phase' = phase
<1>1. PICK P, R, out, h : Renaming(P, R, out, h)
  BY DEF RenameInv
<1>2. CodesInv(P, R, out) /\ Meaning(P, R, out, temporary, code) /\ WalkTree(R) /\ WalkNames(P, out, h)
  BY <1>1 DEF Renaming
<1>3. stack # <<>>
  BY DEF ReturnFromChild, TypeInv
<1>4. PICK k : k = Len(stack)
  OBVIOUS
<1>5. Last(stack) = stack[k] /\ k # 1
  BY <1>3, <1>4, FrontType DEF TypeInv
<1>6. /\ stack[k].todo = {} /\ stack' = Front(stack) /\ UNCHANGED <<graph, code, phase, temporary, original>>
      /\ names' = [v \in DOMAIN names |-> Popped(v)]
  BY <1>4, <1>5 DEF ReturnFromChild, Popped
<1>7. CodesInv(P, R, out)' /\ Meaning(P, R, out, temporary, code)'
  BY <1>2, <1>6, InvStays
<1>8. WalkTree(R)'
  BY <1>2, <1>4, <1>5, <1>6, ReturnsTree DEF graph
<1>9. WalkNames(P, out, h)'
  BY <1>2, <1>3, <1>4, <1>5, <1>6, ReturnsNames
<1>10. Renaming(P, R, out, h)'
  BY <1>7, <1>8, <1>9 DEF Renaming
<1> QED
  BY <1>6, <1>10 DEF RenameInv

\* The end of the pass.
LEMMA FinishInv ==
    ASSUME TypeInv, GraphInv, ScanInv \/ RoundOver, StartRename, names = NoMap
    PROVE  (FinalInv \/ Untouched)' /\ phase' = "finished"
<1>1. phase' = "finished" /\ UNCHANGED <<graph, code, original>> /\ scan = <<>>
  BY DEF StartRename, maps
<1>2. CASE RoundOver
  BY <1>1, <1>2, FinalStays DEF RoundOver
<1>3. CASE ScanInv
  <2>1. DOMAIN names = {}
    BY DEF NoMap
  <2>2. Live = {}
    BY <1>1, <1>3, <2>1, ScanEnds
  <2>3. Untouched
    BY <1>3, <2>1, <2>2 DEF ScanInv, Untouched
  <2> QED
    BY <1>1, <2>3, UntouchedStays
<1> QED
  BY <1>1, <1>2, <1>3

\* The invariant holds at first.
LEMMA InitPassInv == Init /\ NoPointers(source) => PassInv
<1> SUFFICES ASSUME Init, NoPointers(source) PROVE PassInv
  OBVIOUS
<1>1. TypeInv /\ GraphInv
  BY InitTypeInv, InitGraph
<1>2. ScanInv
  BY <1>1, InitScanInv
<1> QED
  BY <1>1, <1>2 DEF PassInv, Init

\* Every step keeps the invariant.
LEMMA NextPassInv == PassInv /\ [PassNext \/ Finished]_vars => PassInv'
<1> SUFFICES ASSUME PassInv, [PassNext \/ Finished]_vars PROVE PassInv'
  OBVIOUS
<1>1. TypeInv /\ GraphInv
  BY DEF PassInv
<1>2. TypeInv'
  BY <1>1, NextTypeInv
<1>3. UNCHANGED graph
  BY DEF PassNext, Finished, vars, SkipAlloca, RemoveAlloca, InsertPhis, StartRename, RenameChild, ReturnFromChild
<1>4. GraphInv'
  BY <1>1, <1>3, GraphStays
<1>5. ASSUME SkipAlloca PROVE FALSE
  <2>1. scan # <<>> /\ ScanInv /\ ~CanVariableToRegister(CurrentAlloca)
    BY <1>5 DEF SkipAlloca, PassInv, RoundOver
  <2> QED
    BY <1>1, <2>1, NothingSkipped
<1>6. CASE RemoveAlloca
  <2>1. ScanInv /\ phase' = "scan"
    BY <1>6 DEF RemoveAlloca, PassInv, RoundOver
  <2>2. ScanInv'
    BY <1>1, <1>6, <2>1, RemoveScanInv
  <2> QED
    BY <1>2, <1>4, <2>1, <2>2 DEF PassInv
<1>7. CASE InsertPhis
  <2>1. ScanInv /\ phase' = "scan"
    BY <1>7 DEF InsertPhis, PassInv, RoundOver
  <2>2. ScanInv'
    BY <1>1, <1>7, <2>1, InsertScanInv
  <2> QED
    BY <1>2, <1>4, <2>1, <2>2 DEF PassInv
<1>8. CASE StartRename
  <2>1. ScanInv \/ RoundOver
    BY <1>8 DEF StartRename, PassInv
  <2>2. CASE names = NoMap
    <3>1. (FinalInv \/ Untouched)' /\ phase' = "finished"
      BY <1>1, <1>8, <2>1, <2>2, FinishInv
    <3> QED
      BY <1>2, <1>4, <3>1 DEF PassInv
  <2>3. CASE names # NoMap
    <3>1. ScanInv /\ phase' = "rename"
      BY <1>8, <2>1, <2>3 DEF StartRename, RoundOver
    <3>2. RenameInv'
      BY <1>1, <1>8, <2>3, <3>1, StartInv
    <3> QED
      BY <1>2, <1>4, <3>1, <3>2 DEF PassInv
  <2> QED
    BY <2>2, <2>3
<1>9. ASSUME NEW c \in Groups, RenameChild(c) PROVE PassInv'
  <2>1. phase = "rename" /\ phase' = "rename"
    BY <1>9 DEF RenameChild
  <2>2. RenameInv
    BY <2>1 DEF PassInv
  <2>3. RenameInv'
    BY <1>1, <1>9, <2>2, ChildInv
  <2> QED
    BY <1>2, <1>4, <2>1, <2>3 DEF PassInv
<1>10. CASE ReturnFromChild
  <2>1. phase = "rename"
    BY <1>10 DEF ReturnFromChild
  <2>2. RenameInv
    BY <2>1 DEF PassInv
  <2>3. CASE Len(stack) = 1
    <3>1. RoundOver' /\ phase' = "scan"
      BY <1>1, <1>10, <2>2, <2>3, LastReturnInv DEF LastReturn
    <3> QED
      BY <1>2, <1>4, <3>1 DEF PassInv
  <2>4. CASE Len(stack) # 1
    <3>1. RenameInv' /\ phase' = "rename"
      BY <1>1, <1>10, <2>1, <2>2, <2>4, InnerReturnInv
    <3> QED
      BY <1>2, <1>4, <3>1 DEF PassInv
  <2> QED
    BY <2>3, <2>4
<1>11. CASE UNCHANGED vars
  <2>1. UNCHANGED <<graph, code, temporary, original>> /\ scan' = scan /\ names' = names /\ stack' = stack /\ phase' = phase
    BY <1>11 DEF vars, maps
  <2>2. CASE phase = "scan"
    <3>1. CASE RoundOver
      <4>1. RoundOver'
        BY <2>1, <3>1, FinalStays DEF RoundOver
      <4> QED
        BY <1>2, <1>4, <2>1, <2>2, <4>1 DEF PassInv
    <3>2. CASE ScanInv
      <4>1. follows' = follows /\ precedes' = precedes /\ source' = source /\ code' = code
        BY <2>1 DEF graph
      <4>2. Live' = Live
        BY <2>1 DEF Live, ScanIds
      <4>3. ScanInv'
        BY <2>1, <3>2, <4>1, <4>2 DEF ScanInv, ScanDistinct, Bodies, PhisKnown, PhiKnown, PhisFilled, PhiFilled, PhisSpread, Spreads,
             AllocasOfAll, Memories, OriginalsKnown
      <4> QED
        BY <1>2, <1>4, <2>1, <2>2, <4>3 DEF PassInv
    <3> QED
      BY <2>2, <3>1, <3>2 DEF PassInv
  <2>3. CASE phase = "rename"
    <3>1. PICK P, R, out, h : Renaming(P, R, out, h)
      BY <2>3 DEF PassInv, RenameInv
    <3>2. CodesInv(P, R, out)' /\ Meaning(P, R, out, temporary, code)'
      BY <2>1, <3>1, InvStays DEF Renaming
    <3>3. WalkTree(R)' /\ WalkNames(P, out, h)'
      BY <2>1, <3>1 DEF Renaming, WalkTree, WalkNames, graph
    <3>4. Renaming(P, R, out, h)'
      BY <3>2, <3>3 DEF Renaming
    <3>5. RenameInv'
      BY <3>4 DEF RenameInv
    <3> QED
      BY <1>2, <1>4, <2>1, <2>3, <3>5 DEF PassInv
  <2>4. CASE phase = "finished"
    <3>1. (FinalInv \/ Untouched)'
      BY <2>1, <2>4, FinalStays, UntouchedStays DEF PassInv
    <3> QED
      BY <1>2, <1>4, <2>1, <2>4, <3>1 DEF PassInv
  <2> QED
    BY <1>1, <2>2, <2>3, <2>4 DEF TypeInv
<1> QED
  BY <1>5, <1>6, <1>7, <1>8, <1>9, <1>10, <1>11 DEF PassNext, Finished

\* Between rounds the codes of a function without pointers mention no value whose
\* instruction the pass has erased.
THEOREM ErasedIsNotMentioned == Spec /\ NoPointers(source) => []NothingErasedIsMentioned
<1>1. PassInv => NothingErasedIsMentioned
  <2> SUFFICES ASSUME PassInv, phase = "scan", names = NoMap, NEW x \in Mentioned(code), x[1] \in {"address", "code", "phi"}
               PROVE  x \in Defined(code)
    BY DEF NothingErasedIsMentioned
  <2>1. TypeInv /\ GraphInv /\ (ScanInv \/ RoundOver)
    BY DEF PassInv
  <2>2. CASE ScanInv
    BY <2>1, <2>2, ScanMentions
  <2>3. CASE RoundOver
    <3>1. PICK P, out, orig, tmp : Final(P, out, orig, tmp, code)
      BY <2>3 DEF RoundOver, FinalInv
    <3>2. PICK g \in Groups : \E n \in 1 .. Len(code[g]) : \E k \in 1 .. Len(code[g][n].args) : x = code[g][n].args[k]
      BY <2>1, MentionedIs
    <3>3. PICK n \in 1 .. Len(code[g]) : \E k \in 1 .. Len(code[g][n].args) : x = code[g][n].args[k]
      BY <3>2
    <3>4. PICK i : i = code[g][n]
      OBVIOUS
    <3>5. PICK k \in 1 .. Len(i.args) : x = i.args[k]
      BY <3>3, <3>4
    <3>6. \E d \in Groups : Good(code, P, d, x)
      BY <2>1, <3>1, <3>4, <3>5, FinalOperand
    <3> QED
      BY <2>1, <3>6, GoodDefined
  <2> QED
    BY <2>1, <2>2, <2>3
<1> QED
  BY <1>1, InitPassInv, NextPassInv, PTL DEF Spec

\* A round leaves nothing of the variables it promotes.
THEOREM EveryRoundPromotes == Spec /\ NoPointers(source) => RoundsPromote
<1>1. PassInv /\ [PassNext \/ Finished]_vars =>
        [phase = "rename" /\ phase' = "scan" => DOMAIN names \cap (Defined(code') \cup Mentioned(code')) = {}]_vars
  <2> SUFFICES ASSUME PassInv, PassNext \/ Finished, phase = "rename", phase' = "scan"
               PROVE  DOMAIN names \cap (Defined(code') \cup Mentioned(code')) = {}
    OBVIOUS
  <2>1. TypeInv /\ GraphInv /\ RenameInv
    BY DEF PassInv
  <2>2. ReturnFromChild
    BY DEF PassNext, Finished, SkipAlloca, RemoveAlloca, InsertPhis, StartRename, RenameChild
  <2>3. LastReturn
    BY <2>1, <2>2, InnerReturnInv DEF LastReturn
  <2>4. PICK P, out : DOMAIN names = P /\ Final(P, out, original, temporary, code)
    BY <2>1, <2>3, RoundEnds
  <2>5. P \cap (Defined(code) \cup Mentioned(code)) = {}
    BY <2>1, <2>4, FinalPromotes
  <2>6. code' = code
    BY <2>2 DEF ReturnFromChild
  <2>7. Defined(code') = Defined(code) /\ Mentioned(code') = Mentioned(code)
    BY <2>6
  <2> QED
    BY <2>4, <2>5, <2>7
<1> QED
  BY <1>1, InitPassInv, NextPassInv, PTL DEF Spec, RoundsPromote

-----------------------------------------------------------------------------
(***************************************************************************)
(* Definitions dominate uses.                                              *)
(***************************************************************************)
\* D gives each group itself and what it gives the group's parent in the tree.
ClimbsTree(D) == D = [g \in Groups |-> {g} \cup UNION {D[p] : p \in {p \in Groups : g \in children[p]}}]

\* The dominators of a group are itself and those of its parent.
LEMMA DominatorsClimb ==
    ASSUME GraphInv, NEW b \in Groups
    PROVE  /\ \A p \in Groups : b \in children[p] =>
                  b # Entry /\ Dominators(follows, b) = Dominators(follows, p) \cup {b} /\ Depth(follows, b) = Depth(follows, p) + 1
           /\ b # Entry => \E p \in Groups : b \in children[p]
           /\ b \in Dominators(follows, b)
           /\ b = Entry => Dominators(follows, b) = {b}
<1>1. \A p \in Groups : children[p] = Kids(follows, p)
  BY DEF GraphInv
<1>2. IsConnected(follows)
  BY DEF GraphInv
<1>3. ASSUME NEW p \in Groups, b \in children[p]
      PROVE  b # Entry /\ Dominators(follows, b) = Dominators(follows, p) \cup {b} /\ Depth(follows, b) = Depth(follows, p) + 1
  <2>1. b \in Kids(follows, p)
    BY <1>1, <1>3
  <2>2. IsIdom(follows, p, b)
    BY <1>2, <2>1, GroupsAssumption, KidsAreDeeper
  <2>3. b # Entry
    BY <1>2, <2>2, GroupsAssumption, IdomDepth
  <2> QED
    BY <1>2, <2>1, <2>3, GroupsAssumption, KidsAreDeeper
<1>4. ASSUME b # Entry PROVE \E p \in Groups : b \in children[p]
  <2>1. IsIdom(follows, Idom(b), b)
    BY <1>2, <1>4, GroupsAssumption, ImmediateDominatorExists DEF Idom
  <2>2. Idom(b) \in Groups
    BY <1>2, <2>1, GroupsAssumption, IdomDepth, SelfDominates
  <2>3. b \in Kids(follows, Idom(b))
    BY <2>1 DEF Kids
  <2> QED
    BY <1>1, <2>2, <2>3
<1>5. b \in Dominators(follows, b)
  BY SelfDominates
<1>6. b = Entry => Dominators(follows, b) = {b}
  BY <1>2, EntryDominates DEF IsConnected
<1> QED
  BY <1>3, <1>4, <1>5, <1>6

\* The dominators are one such function, ...
LEMMA DominatorsAreClimbed ==
    ASSUME GraphInv
    PROVE  \E D : ClimbsTree(D)
<1>1. PICK D : D = [b \in Groups |-> Dominators(follows, b)]
  OBVIOUS
<1>2. ASSUME NEW b \in Groups PROVE D[b] = {b} \cup UNION {D[p] : p \in {p \in Groups : b \in children[p]}}
  <2>1. \A p \in Groups : b \in children[p] => D[b] = D[p] \cup {b}
    BY <1>1, DominatorsClimb
  <2>2. CASE b = Entry
    BY <1>1, <2>2, DominatorsClimb
  <2>3. CASE b # Entry
    <3>1. PICK p \in Groups : b \in children[p]
      BY <2>3, DominatorsClimb
    <3> QED
      BY <2>1, <3>1
  <2> QED
    BY <2>2, <2>3
<1>3. D = [b \in Groups |-> {b} \cup UNION {D[p] : p \in {p \in Groups : b \in children[p]}}]
  BY <1>1, <1>2
<1> QED
  BY <1>3 DEF ClimbsTree

\* ... and the only one.
LEMMA ClimbingFindsDominators ==
    ASSUME GraphInv, NEW D, ClimbsTree(D), NEW b \in Groups
    PROVE  D[b] = Dominators(follows, b)
<1>1. PICK W : W = {g \in Groups : D[g] # Dominators(follows, g)}
  OBVIOUS
<1>2. \A g \in Groups : Depth(follows, g) \in Nat
  BY GroupsAssumption, DepthIsNumber DEF GraphInv
<1>3. SUFFICES ASSUME W # {} PROVE FALSE
  BY <1>1
<1>4. PICK T : T = {Depth(follows, g) : g \in W}
  OBVIOUS
<1>5. T \subseteq Nat /\ T # {}
  BY <1>1, <1>2, <1>3, <1>4
<1>6. PICK m \in T : \A k \in T : m <= k
  BY <1>5, LeastNumber
<1>7. PICK g \in W : m = Depth(follows, g)
  BY <1>4, <1>6
<1>8. g \in Groups /\ D[g] # Dominators(follows, g)
  BY <1>1, <1>7
<1>9. \A p \in Groups : g \in children[p] => D[p] = Dominators(follows, p)
  <2>1. ASSUME NEW p \in Groups, g \in children[p], p \in W PROVE FALSE
    <3>1. Depth(follows, g) = Depth(follows, p) + 1
      BY <1>8, <2>1, DominatorsClimb
    <3>2. m <= Depth(follows, p)
      BY <1>4, <1>6, <2>1
    <3> QED
      BY <1>2, <1>7, <3>1, <3>2
  <2> QED
    BY <1>1, <2>1
<1>10. D[g] = {g} \cup UNION {D[p] : p \in {p \in Groups : g \in children[p]}}
  BY <1>8 DEF ClimbsTree
<1>11. \A p \in Groups : g \in children[p] => Dominators(follows, g) = Dominators(follows, p) \cup {g}
  BY <1>8, DominatorsClimb
<1>12. CASE g = Entry
  <2>1. \A p \in Groups : g \notin children[p]
    BY <1>8, <1>12, DominatorsClimb
  <2>2. Dominators(follows, g) = {g}
    BY <1>8, <1>12, DominatorsClimb
  <2> QED
    BY <1>8, <1>10, <2>1, <2>2
<1>13. CASE g # Entry
  <2>1. PICK p \in Groups : g \in children[p]
    BY <1>8, <1>13, DominatorsClimb
  <2> QED
    BY <1>8, <1>9, <1>10, <1>11, <2>1
<1> QED
  BY <1>12, <1>13

\* The group of a phi.
LEMMA GroupOfPhi ==
    ASSUME TypeInv, NEW P, NEW out, NEW orig, NEW tmp, Final(P, out, orig, tmp, code), NEW h \in Groups, NEW v, HasPhi(code, h, v)
    PROVE  GroupOf(PhiOf(h, v[2])) = h
<1>1. PICK x : x = PhiOf(h, v[2])
  OBVIOUS
<1>2. PICK n \in 1 .. Len(code[h]) : code[h][n].id = x
  BY <1>1 DEF HasPhi, IsPhiFor
<1>3. n \in DOMAIN code[h]
  BY CodeOf DEF TypeInv
<1>4. ASSUME NEW g \in Groups, NEW m \in DOMAIN code[g], code[g][m].id = x PROVE g = h
  <2>1. m \in 1 .. Len(code[g]) /\ code[g][m] \in Shaped
    BY CodeOf DEF TypeInv
  <2>2. x[1] = "phi" /\ x # Nothing
    BY <1>1 DEF PhiOf, Nothing
  <2>3. RenamedCode(code, P, g, code[g][m])
    BY <2>1 DEF Final, GroupsRenamed
  <2>4. code[g][m].op = "phi"
    BY <1>4, <2>2, <2>3 DEF RenamedCode
  <2>5. PhiKnown(g, P, orig, code[g][m])
    BY <2>1, <2>4 DEF Final, PhisKnown
  <2>6. PICK u \in P : x = PhiOf(g, u[2])
    BY <1>4, <2>5 DEF PhiKnown
  <2> QED
    BY <1>1, <2>6 DEF PhiOf
<1>5. \E g \in Groups : \E m \in DOMAIN code[g] : code[g][m].id = x
  BY <1>2, <1>3
<1>6. GroupOf(x) = h
  BY <1>4, <1>5 DEF GroupOf
<1> QED
  BY <1>1, <1>6

\* Codes that are left alone only use constants.
LEMMA UntouchedOperand ==
    ASSUME TypeInv, GraphInv, Untouched, NEW g \in Groups, NEW n \in 1 .. Len(code[g]), NEW k \in 1 .. Len(code[g][n].args)
    PROVE  code[g][n].args[k][1] = "constant" /\ code[g][n].op # "phi"
<1>1. PICK i : i = code[g][n]
  OBVIOUS
<1>2. i \in Shaped
  BY <1>1, CodeOf DEF TypeInv
<1>3. \A h \in Groups : \A m \in 1 .. Len(code[h]) : code[h][m].op # "load"
  BY DEF Untouched, Bodies, GroupBody, BodyCode, Direct
<1>4. BodyCode({}, Loads(source, g), Before(follows, source, g), code[g], n)
  BY DEF Untouched, Bodies, GroupBody
<1>5. i.op # "phi"
  BY <1>1 DEF Untouched, PhisKnown, PhiKnown
<1>6. i.op # "load" /\ i.op # "store"
  BY <1>1, <1>3, <1>4 DEF BodyCode
<1>7. i.op # "alloca" /\ i.op # "jump"
  <2>1. i.args # <<>>
    BY <1>1
  <2> QED
    BY <1>1, <1>4, <2>1 DEF BodyCode
<1>8. i.op = "use"
  BY <1>1, <1>4, <1>5, <1>6, <1>7 DEF BodyCode, Direct
<1>9. Available(Before(follows, source, g), code[g], n, i.args[k])
  BY <1>1, <1>4, <1>8 DEF BodyCode
<1>10. i.args[k] \notin Before(follows, source, g)
  <2>1. ASSUME NEW x \in Before(follows, source, g) PROVE FALSE
    <3>1. PICK d \in StrictDominators(follows, g) : x \in Loads(source, d)
      BY <2>1 DEF Before
    <3>2. d \in Groups
      BY SelfDominates DEF StrictDominators
    <3>3. GroupBody({}, Loads(source, d), Before(follows, source, d), code[d])
      BY <3>2 DEF Untouched, Bodies
    <3> QED
      BY <1>3, <3>1, <3>2, <3>3 DEF GroupBody
  <2> QED
    BY <2>1
<1>11. \A m \in 1 .. n - 1 : code[g][m].op # "load"
  <2>1. \A m \in 1 .. n - 1 : m \in 1 .. Len(code[g])
    BY CodeOf DEF TypeInv
  <2> QED
    BY <1>3, <2>1
<1> QED
  BY <1>1, <1>5, <1>9, <1>10, <1>11 DEF Available

\* When the pass has finished each value is used where it is available.
THEOREM UsesAreDominated == Spec /\ NoPointers(source) => []DefinitionsDominateUses
<1>1. PassInv => DefinitionsDominateUses
  <2> SUFFICES ASSUME PassInv, phase = "finished" PROVE DefinitionsDominateUses
    BY DEF DefinitionsDominateUses
  <2>1. TypeInv /\ GraphInv /\ (FinalInv \/ Untouched)
    BY DEF PassInv
  <2>2. PICK D : D = CHOOSE E : ClimbsTree(E)
    OBVIOUS
  <2>3. ClimbsTree(D)
    BY <2>1, <2>2, DominatorsAreClimbed
  <2>4. ASSUME NEW g \in Groups, NEW n \in DOMAIN code[g], NEW k \in DOMAIN code[g][n].args, code[g][n].args[k][1] \in {"code", "phi"}
        PROVE  GroupOf(code[g][n].args[k]) \in D[IF IsPhi(code[g][n]) THEN precedes[g][k] ELSE g]
    <3>1. n \in 1 .. Len(code[g]) /\ code[g][n] \in Shaped
      BY <2>1, CodeOf DEF TypeInv
    <3>2. PICK i : i = code[g][n]
      OBVIOUS
    <3>3. k \in 1 .. Len(i.args)
      BY <3>1, <3>2, ArgsOf
    <3>4. ~Untouched
      BY <2>1, <2>4, <3>1, <3>2, <3>3, UntouchedOperand
    <3>5. PICK P, out, orig, tmp : Final(P, out, orig, tmp, code)
      BY <2>1, <3>4 DEF FinalInv
    <3>6. PICK d : d = IF i.op = "phi" THEN precedes[g][k] ELSE g
      OBVIOUS
    <3>7. PICK x : x = i.args[k]
      OBVIOUS
    <3>8. d \in Groups /\ Good(code, P, d, x)
      BY <2>1, <3>1, <3>2, <3>3, <3>5, <3>6, <3>7, FinalOperand
    <3>9. x[1] \in {"code", "phi"}
      BY <2>4, <3>2, <3>7
    <3>10. PICK h \in Dominators(follows, d) : \E v \in P : x = PhiOf(h, v[2]) /\ HasPhi(code, h, v)
      BY <3>8, <3>9 DEF Good
    <3>11. PICK v \in P : x = PhiOf(h, v[2]) /\ HasPhi(code, h, v)
      BY <3>10
    <3>12. h \in Groups
      BY <3>8, SelfDominates
    <3>13. GroupOf(x) = h
      BY <2>1, <3>5, <3>11, <3>12, GroupOfPhi
    <3>14. D[d] = Dominators(follows, d)
      BY <2>1, <2>3, <3>8, ClimbingFindsDominators
    <3>15. GroupOf(x) \in D[d]
      BY <3>13, <3>14
    <3> QED
      BY <3>2, <3>6, <3>7, <3>15 DEF IsPhi
  <2> QED
    BY <2>2, <2>4 DEF DefinitionsDominateUses, ClimbsTree
<1> QED
  BY <1>1, InitPassInv, NextPassInv, PTL DEF Spec

-----------------------------------------------------------------------------
(***************************************************************************)
(* What a function computes along a path.                                  *)
(***************************************************************************)
\* The phis of codes c, and the value that one of them takes through edge number k.
PhisOf(c) == {i \in ToSet(c) : i.op = "phi"}
Taken(r, k, i) == IF k \in DOMAIN i.args THEN ValueOf(r, i.args[k]) ELSE Garbage
HasId(c, x) == \E i \in PhisOf(c) : i.id = x
TakenFor(r, c, k, x) == Taken(r, k, CHOOSE i \in PhisOf(c) : i.id = x)

\* The phis of a group change nothing but their own results.
LEMMA RunPhisIs ==
    ASSUME NEW r, IsRun(r), NEW c, NEW k, NEW q, q = RunPhis(r, c, k)
    PROVE  /\ IsRun(q) /\ q.memory = r.memory /\ q.uses = r.uses
           /\ q.results = [x \in DOMAIN r.results \cup {i.id : i \in PhisOf(c)} |->
                              IF HasId(c, x) THEN TakenFor(r, c, k, x) ELSE r.results[x]]
BY DEF RunPhis, IsRun, PhisOf, IsPhi, Taken, HasId, TakenFor

\* So what is no phi of the group keeps its value.
LEMMA PhisLeave ==
    ASSUME NEW r, IsRun(r), NEW c, NEW k, NEW q, q = RunPhis(r, c, k), NEW x, ~HasId(c, x)
    PROVE  /\ x \in DOMAIN q.results <=> x \in DOMAIN r.results
           /\ x \in DOMAIN r.results => q.results[x] = r.results[x]
           /\ ValueOf(q, x) = ValueOf(r, x)
<1>1. q.results = [y \in DOMAIN r.results \cup {i.id : i \in PhisOf(c)} |->
                       IF HasId(c, y) THEN TakenFor(r, c, k, y) ELSE r.results[y]]
  BY RunPhisIs
<1>2. x \notin {i.id : i \in PhisOf(c)}
  BY DEF HasId
<1>3. /\ x \in DOMAIN q.results <=> x \in DOMAIN r.results
      /\ x \in DOMAIN r.results => q.results[x] = r.results[x]
  BY <1>1, <1>2
<1> QED
  BY <1>3 DEF ValueOf

\* And a phi of the group takes a value.
LEMMA PhisTake ==
    ASSUME NEW r, IsRun(r), NEW c, NEW k, NEW q, q = RunPhis(r, c, k), NEW x, x[1] = "phi", HasId(c, x),
           NEW y, \A i \in PhisOf(c) : i.id = x => k \in DOMAIN i.args /\ i.args[k] = y
    PROVE  ValueOf(q, x) = ValueOf(r, y)
<1>1. q.results = [z \in DOMAIN r.results \cup {i.id : i \in PhisOf(c)} |->
                       IF HasId(c, z) THEN TakenFor(r, c, k, z) ELSE r.results[z]]
  BY RunPhisIs
<1>2. x \in {i.id : i \in PhisOf(c)}
  BY DEF HasId
<1>3. x \in DOMAIN q.results /\ q.results[x] = TakenFor(r, c, k, x)
  BY <1>1, <1>2
<1>4. PICK j : j = CHOOSE i \in PhisOf(c) : i.id = x
  OBVIOUS
<1>5. j \in PhisOf(c) /\ j.id = x
  BY <1>4 DEF HasId
<1>6. Taken(r, k, j) = ValueOf(r, y)
  BY <1>5 DEF Taken
<1>7. q.results[x] = ValueOf(r, y)
  BY <1>3, <1>4, <1>6 DEF TakenFor
<1> QED
  BY <1>3, <1>7 DEF ValueOf

\* The phis among the codes of a group.
LEMMA PhisAre ==
    ASSUME NEW c \in Seq(Shaped), NEW x
    PROVE  /\ \A i \in PhisOf(c) : \E n \in 1 .. Len(c) : i = c[n] /\ i.op = "phi"
           /\ \A n \in 1 .. Len(c) : c[n].op = "phi" => c[n] \in PhisOf(c)
<1>1. DOMAIN c = 1 .. Len(c)
  BY LenProperties
<1> QED
  BY <1>1 DEF PhisOf, ToSet

\* A value that is there above a group is no phi of the group.
LEMMA NoPhiAbove ==
    ASSUME TypeInv, GraphInv, NEW P, NEW out, NEW orig, NEW tmp, Final(P, out, orig, tmp, code),
           NEW b \in Groups, NEW d \in StrictDominators(follows, b), NEW x, Good(code, P, d, x)
    PROVE  ~HasId(code[b], x)
<1>1. ASSUME HasId(code[b], x) PROVE FALSE
  <2>1. PICK i \in PhisOf(code[b]) : i.id = x
    BY <1>1 DEF HasId
  <2>2. PICK c \in Seq(Shaped) : c = code[b]
    BY CodeOf DEF TypeInv
  <2>3. PICK n \in 1 .. Len(c) : i = c[n] /\ i.op = "phi"
    BY <2>1, <2>2, PhisAre
  <2>4. PhiKnown(b, P, orig, i)
    BY <2>2, <2>3 DEF Final, PhisKnown
  <2>5. PICK u \in P : x = PhiOf(b, u[2])
    BY <2>1, <2>4 DEF PhiKnown
  <2>6. PICK h \in Dominators(follows, d) : \E v \in P : x = PhiOf(h, v[2])
    BY <2>5 DEF Good, PhiOf
  <2>7. h = b
    BY <2>5, <2>6 DEF PhiOf
  <2>8. d \in Dominators(follows, b) /\ d # b
    BY DEF StrictDominators
  <2>9. d = b
    BY <2>6, <2>7, <2>8, DominatesAntisymmetric DEF GraphInv
  <2> QED
    BY <2>8, <2>9
<1> QED
  BY <1>1

\* A variable that a group has no phi for comes from each predecessor with the name it
\* had after the immediate dominator.
LEMMA NamePasses ==
    ASSUME TypeInv, GraphInv, NEW P, NEW out, OutFlows(P, Groups, out, code), NEW p \in Groups, NEW b \in Successors(follows, p),
           b \in Groups, b # Entry, NEW v \in P, ~HasPhi(code, b, v)
    PROVE  out[p][v] = out[Idom(b)][v]
<1>1. IsConnected(follows) /\ IsGraph(follows)
  BY DEF GraphInv, IsConnected
<1>2. PICK e : e = Idom(b)
  OBVIOUS
<1>3. IsIdom(follows, e, b)
  BY <1>1, <1>2, GroupsAssumption, ImmediateDominatorExists DEF Idom
<1>4. e \in Dominators(follows, b) /\ e # b /\ e \in Groups /\ Dominators(follows, e) = Dominators(follows, b) \ {b}
  BY <1>1, <1>3, GroupsAssumption, IdomDepth DEF IsIdom
<1>5. e \in Dominators(follows, p)
  BY <1>1, <1>4, DominatesPredecessor
<1>6. Entry \in StrictDominators(follows, b)
  BY <1>1, EntryDominates DEF StrictDominators
<1>7. ASSUME NEW g \in Dominators(follows, p), g \notin StrictDominators(follows, b)
      PROVE  g \in Groups /\ g # Entry /\ out[g][v] = out[Idom(g)][v]
  <2>1. g \in Groups /\ g # Entry
    BY <1>6, <1>7, SelfDominates
  <2>2. b \in Frontier(follows, g)
    BY <1>7, <2>1, FrontierIs
  <2>3. ~Spreads(code, g, v)
    BY <2>2 DEF Spreads
  <2> QED
    BY <2>1, <2>3 DEF OutFlows
<1>8. PICK W : W = {g \in Dominators(follows, p) : e \in Dominators(follows, g) /\ out[g][v] # out[e][v]}
  OBVIOUS
<1>9. ASSUME W # {} PROVE FALSE
  <2>1. PICK T : T = {Depth(follows, g) : g \in W}
    OBVIOUS
  <2>2. \A g \in W : g \in Groups /\ Depth(follows, g) \in Nat
    BY <1>1, <1>8, GroupsAssumption, DepthIsNumber, SelfDominates
  <2>3. T \subseteq Nat /\ T # {}
    BY <1>9, <2>1, <2>2
  <2>4. PICK m \in T : \A k \in T : m <= k
    BY <2>3, LeastNumber
  <2>5. PICK g \in W : m = Depth(follows, g)
    BY <2>1, <2>4
  <2>6. g \in Dominators(follows, p) /\ e \in Dominators(follows, g) /\ out[g][v] # out[e][v] /\ g \in Groups
    BY <1>8, <2>2, <2>5
  <2>7. g # e
    BY <2>6
  <2>8. g \notin StrictDominators(follows, b)
    <3>1. ASSUME g \in StrictDominators(follows, b) PROVE FALSE
      <4>1. g \in Dominators(follows, e)
        BY <1>4, <3>1 DEF StrictDominators
      <4>2. g = e
        BY <1>1, <1>4, <2>6, <4>1, DominatesAntisymmetric
      <4> QED
        BY <2>7, <4>2
    <3> QED
      BY <3>1
  <2>9. g # Entry /\ out[g][v] = out[Idom(g)][v]
    BY <1>7, <2>6, <2>8
  <2>10. PICK d : d = Idom(g)
    OBVIOUS
  <2>11. IsIdom(follows, d, g)
    BY <1>1, <2>6, <2>9, <2>10, GroupsAssumption, ImmediateDominatorExists DEF Idom
  <2>12. d \in Dominators(follows, g) /\ Dominators(follows, d) = Dominators(follows, g) \ {g} /\ Depth(follows, g) = Depth(follows, d) + 1
    BY <1>1, <2>6, <2>11, GroupsAssumption, IdomDepth DEF IsIdom
  <2>13. e \in Dominators(follows, d)
    BY <2>6, <2>7, <2>12
  <2>14. d \in Dominators(follows, p)
    BY <1>1, <2>6, <2>12, DominatesTransitive
  <2>15. d \in W
    BY <1>8, <2>6, <2>9, <2>10, <2>13, <2>14
  <2>16. m <= Depth(follows, d) /\ Depth(follows, d) \in Nat
    BY <2>1, <2>2, <2>4, <2>15
  <2> QED
    BY <2>5, <2>12, <2>16
<1>10. p \in Dominators(follows, p)
  BY SelfDominates
<1>11. p \notin W
  BY <1>9
<1> QED
  BY <1>2, <1>5, <1>8, <1>10, <1>11

\* Phis use nothing and write nothing.
LEMMA RunPhisKeep ==
    ASSUME NEW r, IsRun(r), NEW c, NEW k, NEW q, q = RunPhis(r, c, k)
    PROVE  IsRun(q) /\ q.memory = r.memory /\ q.uses = r.uses
BY DEF RunPhis, IsRun

\* A run that enters a group without phis.
LEMMA NoPhisToTake ==
    ASSUME GraphInv, NEW b \in Groups, NEW x
    PROVE  ~HasId(source[b], x)
<1>1. \A n \in 1 .. Len(source[b]) : source[b][n].op # "phi"
  <2>1. PICK K : K = Values
    OBVIOUS
  <2>2. ASSUME NEW m \in 1 .. Len(source[Entry]), source[Entry][m].op = "alloca" PROVE source[Entry][m].id \in K
    <3>1. source[Entry][m] \in Shaped
      BY EntryAssumption, CodeOf DEF GraphInv
    <3> QED
      BY <2>1, <3>1, ArgsOf
  <2> QED
    BY <2>2, SourceBody
<1>2. PICK c \in Seq(Shaped) : c = source[b]
  BY CodeOf DEF GraphInv
<1>3. \A n \in 1 .. Len(c) : c[n].op # "phi"
  BY <1>1, <1>2
<1>4. PhisOf(c) = {}
  BY <1>3, PhisAre
<1> QED
  BY <1>2, <1>4 DEF HasId

\* What the phi of a variable takes from a predecessor.
LEMMA PhiTakesName ==
    ASSUME TypeInv, GraphInv, NEW P, NEW out, NEW orig, NEW tmp, Final(P, out, orig, tmp, code),
           NEW b \in Groups, NEW k \in 1 .. Len(precedes[b]), NEW p, p = precedes[b][k], NEW v \in P, HasPhi(code, b, v),
           NEW q, IsRun(q), NEW c, c = RunPhis(q, code[b], k)
    PROVE  ValueOf(c, PhiOf(b, v[2])) = ValueOf(q, out[p][v])
<1>1. PICK x : x = PhiOf(b, v[2])
  OBVIOUS
<1>2. PICK d \in Seq(Shaped) : d = code[b]
  BY CodeOf DEF TypeInv
<1>3. PICK n \in 1 .. Len(d) : d[n].op = "phi" /\ d[n].id = x
  BY <1>1, <1>2 DEF HasPhi, IsPhiFor
<1>4. d[n] \in PhisOf(d)
  BY <1>3, PhisAre
<1>5. HasId(d, x)
  BY <1>3, <1>4 DEF HasId
<1>6. PICK y : y = out[p][v]
  OBVIOUS
<1>7. p \in Groups
  BY DEF GraphInv
<1>8. ASSUME NEW i \in PhisOf(d), i.id = x PROVE k \in DOMAIN i.args /\ i.args[k] = y
  <2>1. PICK m \in 1 .. Len(d) : i = d[m] /\ i.op = "phi"
    BY PhisAre
  <2>2. i \in Shaped
    BY <2>1, ElementOfSeq
  <2>3. PhiKnown(b, P, orig, i) /\ PhiFilled(b, P, Groups, out, i)
    BY <1>2, <2>1 DEF Final, PhisKnown, PhisFilled
  <2>4. k \in 1 .. Len(i.args)
    BY <2>3 DEF PhiKnown
  <2>5. k \in DOMAIN i.args
    BY <2>2, <2>4, ArgsOf
  <2>6. i.args[k] = SourceFor(Groups, out, precedes[b][k], v)
    BY <1>1, <1>8, <2>3 DEF PhiFilled
  <2> QED
    BY <1>6, <1>7, <2>5, <2>6 DEF SourceFor
<1>9. x[1] = "phi"
  BY <1>1 DEF PhiOf
<1>10. c = RunPhis(q, d, k)
  BY <1>2
<1>11. ValueOf(c, x) = ValueOf(q, y)
  BY <1>5, <1>8, <1>9, <1>10, PhisTake
<1> QED
  BY <1>1, <1>6, <1>11

\* Group b is entered from group p, through the edge of number k.
Enters(p, b, k) ==
    /\ p \in Groups /\ b \in Successors(follows, p) /\ b \in Groups
    /\ k \in 1 .. Len(precedes[b]) /\ p = precedes[b][k]

\* Entering a group from a predecessor, the runs still agree.
LEMMA EnterGroup ==
    ASSUME TypeInv, GraphInv, NEW P, NEW out, NEW orig, NEW tmp, Final(P, out, orig, tmp, code),
           NEW p, NEW b, NEW k, Enters(p, b, k),
           NEW o, o = out[p], NEW B, B = Before(follows, source, p) \cup Loads(source, p),
           NEW r, NEW q, Same(P, r, q, o, B, tmp),
           NEW a, a = RunPhis(r, source[b], k), NEW c, c = RunPhis(q, code[b], k),
           NEW nm, nm = NamesIn(P, code, out, b), NEW A, A = Before(follows, source, b)
    PROVE  Same(P, a, c, nm, A, tmp)
<1>0. p \in Groups /\ b \in Successors(follows, p) /\ b \in Groups /\ k \in 1 .. Len(precedes[b]) /\ p = precedes[b][k]
  BY DEF Enters
<1>1. IsRun(r) /\ IsRun(q) /\ r.uses = q.uses
  BY DEF Same
<1>2. /\ IsRun(a) /\ a.memory = r.memory /\ a.uses = r.uses
      /\ IsRun(c) /\ c.uses = q.uses
  <2>1. PICK e : e = source[b]
    OBVIOUS
  <2>2. PICK f : f = code[b]
    OBVIOUS
  <2>3. a = RunPhis(r, e, k) /\ c = RunPhis(q, f, k)
    BY <2>1, <2>2
  <2>4. IsRun(a) /\ a.memory = r.memory /\ a.uses = r.uses
    BY ONLY <1>1, <2>3, RunPhisKeep
  <2>5. IsRun(c) /\ c.memory = q.memory /\ c.uses = q.uses
    BY ONLY <1>1, <2>3, RunPhisKeep
  <2> QED
    BY <2>4, <2>5
<1>3. IsConnected(follows) /\ IsGraph(follows)
  BY DEF GraphInv, IsConnected
<1>4. b # Entry
  <2>1. Predecessors(follows, Entry) = {}
    BY DEF GraphInv, IsFunction
  <2> QED
    BY <1>0, <2>1 DEF Predecessors
<1>5. ASSUME NEW d \in StrictDominators(follows, b), NEW x, Good(code, P, d, x) PROVE ValueOf(c, x) = ValueOf(q, x)
  <2>1. ~HasId(code[b], x)
    BY <1>0, <1>5, NoPhiAbove
  <2>2. PICK e : e = code[b]
    OBVIOUS
  <2>3. ~HasId(e, x) /\ c = RunPhis(q, e, k)
    BY <2>1, <2>2
  <2> QED
    BY <1>0, <1>1, <2>3, PhisLeave
<1>6. ASSUME NEW v \in P PROVE ReadMemory(a, v) = ValueOf(c, nm[v])
  <2>1. ReadMemory(a, v) = ValueOf(q, out[p][v])
    <3>1. ReadMemory(a, v) = ReadMemory(r, v)
      BY <1>2 DEF ReadMemory
    <3> QED
      BY <3>1 DEF Same
  <2>2. nm[v] = NameIn(code, out, b, v)
    BY DEF NamesIn
  <2>3. CASE HasPhi(code, b, v)
    <3>1. nm[v] = PhiOf(b, v[2])
      BY <2>2, <2>3 DEF NameIn
    <3>2. ValueOf(c, PhiOf(b, v[2])) = ValueOf(q, out[p][v])
      BY <1>0, <1>1, <2>3, PhiTakesName
    <3> QED
      BY <2>1, <3>1, <3>2
  <2>4. CASE ~HasPhi(code, b, v)
    <3>1. OutFlows(P, Groups, out, code)
      BY DEF Final, Meaning
    <3>2. out[p][v] = out[Idom(b)][v]
      BY <1>0, <1>4, <2>4, <3>1, NamePasses
    <3>3. nm[v] = out[Idom(b)][v]
      BY <1>4, <2>2, <2>4 DEF NameIn
    <3>4. Idom(b) \in StrictDominators(follows, b) /\ Idom(b) \in Groups
      <4>1. IsIdom(follows, Idom(b), b)
        BY <1>0, <1>3, <1>4, GroupsAssumption, ImmediateDominatorExists DEF Idom
      <4>2. PICK d : d = Idom(b)
        OBVIOUS
      <4>3. d \in Dominators(follows, b) /\ d # b /\ d \in Groups
        BY <1>0, <1>3, <4>1, <4>2, GroupsAssumption, IdomDepth DEF IsIdom
      <4> QED
        BY <4>2, <4>3 DEF StrictDominators
    <3>5. Good(code, P, Idom(b), out[Idom(b)][v])
      BY <1>0, <3>4 DEF Final, NamesOut
    <3>6. ValueOf(c, out[Idom(b)][v]) = ValueOf(q, out[Idom(b)][v])
      BY <1>5, <3>4, <3>5
    <3> QED
      BY <2>1, <3>2, <3>3, <3>6
  <2> QED
    BY <2>3, <2>4
<1>7. ASSUME NEW x \in A PROVE Known(a, c, tmp, x)
  <2>1. PICK d \in StrictDominators(follows, b) : x \in Loads(source, d)
    BY <1>7 DEF Before
  <2>2. d \in Dominators(follows, b) /\ d # b /\ d \in Groups
    BY <1>0, <2>1, SelfDominates DEF StrictDominators
  <2>3. d \in Dominators(follows, p)
    BY <1>0, <1>3, <2>2, DominatesPredecessor
  <2>4. x \in B
    BY <2>1, <2>3 DEF Before, StrictDominators
  <2>5. Known(r, q, tmp, x)
    BY <2>4 DEF Same
  <2>6. Good(code, P, d, tmp[x])
    BY <1>0, <2>1, <2>2 DEF Final, Replacements
  <2>7. ValueOf(c, tmp[x]) = ValueOf(q, tmp[x])
    BY <1>5, <2>1, <2>6
  <2>8. x \in DOMAIN r.results /\ x \in DOMAIN tmp /\ r.results[x] = ValueOf(q, tmp[x])
    BY <2>5 DEF Known
  <2>9. x \in DOMAIN a.results /\ a.results[x] = r.results[x]
    <3>1. PICK e : e = source[b]
      OBVIOUS
    <3>2. ~HasId(e, x) /\ a = RunPhis(r, e, k)
      BY <1>0, <3>1, NoPhisToTake
    <3> QED
      BY <1>0, <1>1, <2>8, <3>2, PhisLeave
  <2> QED
    BY <2>7, <2>8, <2>9 DEF Known
<1> QED
  BY <1>1, <1>2, <1>6, <1>7 DEF Same

\* Starting in the entry they agree.
LEMMA EnterEntry ==
    ASSUME TypeInv, GraphInv, NEW P, NEW out, NEW orig, NEW tmp, Final(P, out, orig, tmp, code),
           NEW a, a = RunPhis(StartOfRun, source[Entry], 0), NEW c, c = RunPhis(StartOfRun, code[Entry], 0),
           NEW nm, nm = NamesIn(P, code, out, Entry), NEW A, A = Before(follows, source, Entry)
    PROVE  Same(P, a, c, nm, A, tmp)
<1>1. PICK z : z = StartOfRun
  OBVIOUS
<1>2. IsRun(z) /\ z.memory = <<>> /\ z.uses = <<>>
  BY <1>1 DEF StartOfRun, IsRun
<1>3. a = RunPhis(z, source[Entry], 0) /\ c = RunPhis(z, code[Entry], 0)
  BY <1>1
<1>4. /\ IsRun(a) /\ a.memory = z.memory /\ a.uses = z.uses
      /\ IsRun(c) /\ c.uses = z.uses
  <2>1. PICK e : e = source[Entry]
    OBVIOUS
  <2>2. PICK f : f = code[Entry]
    OBVIOUS
  <2>3. a = RunPhis(z, e, 0) /\ c = RunPhis(z, f, 0)
    BY <1>3, <2>1, <2>2
  <2>4. IsRun(a) /\ a.memory = z.memory /\ a.uses = z.uses
    BY ONLY <1>2, <2>3, RunPhisKeep
  <2>5. IsRun(c) /\ c.memory = z.memory /\ c.uses = z.uses
    BY ONLY <1>2, <2>3, RunPhisKeep
  <2> QED
    BY <2>4, <2>5
<1>5. StrictDominators(follows, Entry) = {}
  BY EntryDominates DEF GraphInv, IsConnected, StrictDominators
<1>6. A = {}
  BY <1>5 DEF Before
<1>7. ASSUME NEW v \in P PROVE ReadMemory(a, v) = ValueOf(c, nm[v])
  <2>1. ~HasPhi(code, Entry, v)
    BY EntryAssumption DEF HasPhi, IsPhiFor, Final, PhisKnown, PhiKnown
  <2>2. nm[v] = Undef(v[2])
    BY <2>1 DEF NamesIn, NameIn
  <2>3. v[1] = "address"
    BY VariablesAre DEF Final
  <2>4. ReadMemory(a, v) = Undef(v[2])
    BY <1>2, <1>4, <2>3 DEF ReadMemory
  <2>5. Undef(v[2])[1] = "undef"
    BY DEF Undef
  <2> QED
    BY <2>2, <2>4, <2>5 DEF ValueOf
<1> QED
  BY <1>4, <1>6, <1>7 DEF Same

\* The paths the loop of PathsFrom lists, up to length m.
Longer(x) == x \cup UNION {{Append(p, g) : g \in ToSet(follows[Last(p)])} : p \in x}
IsListing(m, F) == F = [k \in 1 .. m |-> IF k = 1 THEN {<<Entry>>} ELSE Longer(F[k - 1])]

\* What it lists first, and next.
ListingGoes(m, F) == F[1] = {<<Entry>>} /\ \A k \in 1 .. m - 1 : F[k + 1] = Longer(F[k])

\* Each step of it.
LEMMA ListingStep ==
    ASSUME NEW m \in Nat, m >= 1, NEW F, IsListing(m, F)
    PROVE  ListingGoes(m, F)
<1>1. F[1] = {<<Entry>>}
  BY DEF IsListing
<1>2. ASSUME NEW k \in 1 .. m - 1 PROVE F[k + 1] = Longer(F[k])
  <2>1. k + 1 \in 1 .. m /\ k + 1 # 1 /\ (k + 1) - 1 = k
    OBVIOUS
  <2> QED
    BY <2>1 DEF IsListing
<1> QED
  BY <1>1, <1>2 DEF ListingGoes

\* It can be continued.
LEMMA ListingGoesOn ==
    ASSUME NEW m \in Nat, m >= 1, NEW h, IsListing(m, h)
    PROVE  \E g : IsListing(m + 1, g)
<1> DEFINE g == [k \in 1 .. m + 1 |-> IF k = m + 1 THEN Longer(h[m]) ELSE h[k]]
<1>1. ASSUME NEW k \in 1 .. m + 1
      PROVE  g[k] = IF k = 1 THEN {<<Entry>>} ELSE Longer(g[k - 1])
  <2>1. CASE k = m + 1
    <3>1. k # 1 /\ k - 1 = m /\ m \in 1 .. m + 1 /\ m # m + 1
      BY <2>1
    <3>2. g[k] = Longer(h[m]) /\ g[k - 1] = h[m]
      BY <2>1, <3>1
    <3> QED
      BY <3>1, <3>2
  <2>2. CASE k # m + 1
    <3>1. k \in 1 .. m
      BY <2>2
    <3>2. g[k] = h[k]
      BY <2>2
    <3>3. CASE k = 1
      BY <3>1, <3>2, <3>3 DEF IsListing
    <3>4. CASE k # 1
      <4>1. k - 1 \in 1 .. m + 1 /\ k - 1 # m + 1
        BY <3>1, <3>4
      <4>2. g[k - 1] = h[k - 1]
        BY <4>1
      <4>3. h[k] = Longer(h[k - 1])
        BY <3>1, <3>4 DEF IsListing
      <4> QED
        BY <3>2, <3>4, <4>2, <4>3
    <3> QED
      BY <3>3, <3>4
  <2> QED
    BY <2>1, <2>2
<1>2. IsListing(m + 1, g)
  BY <1>1 DEF IsListing
<1> QED
  BY <1>2

\* PathsFrom is its result.
LEMMA ListingIs ==
    ASSUME NEW m \in Nat, m >= 1
    PROVE  \E F : IsListing(m, F) /\ PathsFrom(follows, Entry, m) = F[m]
<1> DEFINE T == {k \in 0 .. m - 1 : \E h : IsListing(k + 1, h)}
           F == CHOOSE F : IsListing(m, F)
<1>1. IsListing(1, [k \in 1 .. 1 |-> {<<Entry>>}])
  BY DEF IsListing
<1>2. 0 \in T
  BY <1>1
<1>3. ASSUME NEW k \in 0 .. (m - 1) - 1, k \in T PROVE k + 1 \in T
  BY <1>3, ListingGoesOn
<1>4. \A k \in 0 .. m - 1 : k \in T
  <2> HIDE DEF T
  <2>1. m - 1 \in Nat
    OBVIOUS
  <2> QED
    BY <1>2, <1>3, <2>1, CountingUp
<1>5. IsListing(m, F)
  <2>1. m - 1 \in T
    BY <1>4
  <2>2. \E h : IsListing(m, h)
    BY <2>1
  <2> QED
    BY <2>2
<1>6. PathsFrom(follows, Entry, m) = F[m]
  BY DEF PathsFrom, IsListing, Longer
<1> QED
  BY <1>5, <1>6

\* A path from the entry along the edges.
IsPath(path) ==
    /\ path \in Seq(Groups) /\ Len(path) \in Nat /\ Len(path) >= 1 /\ path[1] = Entry
    /\ \A n \in 1 .. Len(path) - 1 : path[n + 1] \in Successors(follows, path[n])

\* A longer path.
LEMMA LongerPath ==
    ASSUME GraphInv, NEW p, IsPath(p), NEW g \in ToSet(follows[Last(p)]), NEW q, q = Append(p, g)
    PROVE  IsPath(q)
<1>1. p \in Seq(Groups) /\ Len(p) \in Nat /\ Len(p) >= 1 /\ p[1] = Entry /\ Last(p) = p[Len(p)]
  BY DEF IsPath, Last
<1>2. p[Len(p)] \in Groups
  BY <1>1, ElementOfSeq
<1>3. g \in Successors(follows, p[Len(p)])
  BY <1>1 DEF ToSet, Successors
<1>4. IsGraph(follows)
  BY DEF GraphInv, IsConnected
<1>5. g \in Groups
  BY <1>2, <1>3, <1>4, GraphEdges
<1>6. q \in Seq(Groups) /\ Len(q) = Len(p) + 1 /\ q[Len(p) + 1] = g /\ \A n \in 1 .. Len(p) : q[n] = p[n]
  BY <1>1, <1>5, AppendProperties
<1>7. ASSUME NEW n \in 1 .. Len(q) - 1 PROVE q[n + 1] \in Successors(follows, q[n])
  <2>1. n \in 1 .. Len(p)
    BY <1>1, <1>6
  <2>2. CASE n = Len(p)
    BY <1>3, <1>6, <2>1, <2>2
  <2>3. CASE n # Len(p)
    <3>1. n \in 1 .. Len(p) - 1 /\ n + 1 \in 1 .. Len(p)
      BY <1>1, <2>1, <2>3
    <3>2. p[n + 1] \in Successors(follows, p[n])
      BY <3>1 DEF IsPath
    <3> QED
      BY <1>6, <2>1, <3>1, <3>2
  <2> QED
    BY <2>2, <2>3
<1>8. q[1] = Entry /\ Len(q) \in Nat /\ Len(q) >= 1
  <2>1. 1 \in 1 .. Len(p)
    BY <1>1
  <2> QED
    BY <1>1, <1>6, <2>1
<1> QED
  BY <1>6, <1>7, <1>8 DEF IsPath

\* PathsFrom lists paths.
LEMMA PathsAre ==
    ASSUME GraphInv, NEW m \in Nat, m >= 1, NEW path \in PathsFrom(follows, Entry, m)
    PROVE  IsPath(path)
<1>1. PICK F : IsListing(m, F) /\ PathsFrom(follows, Entry, m) = F[m]
  BY ListingIs
<1>2. ListingGoes(m, F)
  BY <1>1, ListingStep
<1> DEFINE T == {k \in 0 .. m - 1 : \A p \in F[k + 1] : IsPath(p)}
<1>3. 0 \in T
  <2>1. IsPath(<<Entry>>)
    BY EntryAssumption DEF IsPath
  <2>2. F[1] = {<<Entry>>}
    BY <1>2 DEF ListingGoes
  <2> QED
    BY <2>1, <2>2
<1>4. ASSUME NEW k \in 0 .. (m - 1) - 1, k \in T PROVE k + 1 \in T
  <2>1. F[(k + 1) + 1] = Longer(F[k + 1])
    BY <1>2 DEF ListingGoes
  <2>2. ASSUME NEW q \in Longer(F[k + 1]) PROVE IsPath(q)
    <3>1. CASE q \in F[k + 1]
      BY <1>4, <3>1
    <3>2. ASSUME NEW p \in F[k + 1], NEW g \in ToSet(follows[Last(p)]), q = Append(p, g) PROVE IsPath(q)
      <4>1. IsPath(p)
        BY <1>4
      <4> QED
        BY <3>2, <4>1, LongerPath
    <3> QED
      BY <3>1, <3>2 DEF Longer
  <2> QED
    BY <2>1, <2>2
<1>5. \A k \in 0 .. m - 1 : k \in T
  <2> HIDE DEF T
  <2>1. m - 1 \in Nat
    OBVIOUS
  <2> QED
    BY <1>3, <1>4, <2>1, CountingUp
<1>6. m - 1 \in T
  BY <1>5
<1> QED
  BY <1>1, <1>6

\* An edge is mirrored.
LEMMA EdgeIsMirrored ==
    ASSUME GraphInv, NEW p \in Groups, NEW b \in Successors(follows, p)
    PROVE  b \in Groups /\ \E k \in 1 .. Len(precedes[b]) : precedes[b][k] = p
<1>1. follows \in [Groups -> Seq(Groups)] /\ precedes \in [Groups -> Seq(Groups)] /\ IsGraph(follows)
  BY DEF GraphInv, IsConnected, IsGraph
<1>2. b \in Groups
  BY <1>1, GraphEdges
<1> DEFINE S == {i \in DOMAIN follows[p] : follows[p][i] = b}
           T == {k \in DOMAIN precedes[b] : precedes[b][k] = p}
<1>3. Cardinality(S) = Cardinality(T)
  BY <1>2 DEF GraphInv, Mirrored
<1>4. S # {}
  BY DEF Successors
<1>5. IsFiniteSet(S)
  <2>1. follows[p] \in Seq(Groups) /\ DOMAIN follows[p] = 1 .. Len(follows[p]) /\ Len(follows[p]) \in Nat
    BY <1>1, LenProperties
  <2>2. IsFiniteSet(DOMAIN follows[p])
    BY <2>1, FS_Interval
  <2>3. S \subseteq DOMAIN follows[p]
    OBVIOUS
  <2> HIDE DEF S
  <2> QED
    BY <2>2, <2>3, FS_Subset
<1>6. T # {}
  <2>1. Cardinality({}) = 0
    BY FS_EmptySet
  <2>2. Cardinality(S) # 0
    <3> HIDE DEF S
    <3> QED
      BY <1>4, <1>5, FS_EmptySet
  <2> HIDE DEF S, T
  <2> QED
    BY <1>3, <2>1, <2>2
<1>7. DOMAIN precedes[b] = 1 .. Len(precedes[b])
  BY <1>1, <1>2, LenProperties
<1> QED
  BY <1>2, <1>6, <1>7

\* The number of the edge a path enters a group through.
LEMMA EdgeToIs ==
    ASSUME GraphInv, NEW path, IsPath(path), NEW n \in 1 .. Len(path) - 1, NEW k, k = EdgeTo(precedes, path, n + 1),
           NEW b, b = path[n + 1], NEW p, p = path[n]
    PROVE  Enters(p, b, k)
<1>1. path \in Seq(Groups) /\ Len(path) \in Nat /\ b \in Successors(follows, p)
  BY DEF IsPath
<1>2. n \in 1 .. Len(path) /\ n + 1 # 1 /\ (n + 1) - 1 = n
  BY <1>1
<1>3. p \in Groups
  BY <1>1, <1>2, ElementOfSeq
<1>4. b \in Groups /\ \E j \in 1 .. Len(precedes[b]) : precedes[b][j] = p
  BY <1>1, <1>3, EdgeIsMirrored
<1>5. DOMAIN precedes[b] = 1 .. Len(precedes[b])
  BY <1>4, LenProperties DEF GraphInv
<1>6. k = CHOOSE j \in DOMAIN precedes[b] : precedes[b][j] = p
  BY <1>2 DEF EdgeTo
<1>7. k \in 1 .. Len(precedes[b]) /\ precedes[b][k] = p
  BY <1>4, <1>5, <1>6
<1> QED
  BY <1>1, <1>3, <1>4, <1>7 DEF Enters

\* Where the runs agree after a group of a path, with these names out and replacements tmp.
AgreeAfter(P, out, tmp, g, r, q) == Same(P, r, q, out[g], Before(follows, source, g) \cup Loads(source, g), tmp)

\* They agree after the entry.
LEMMA EntryAgrees ==
    ASSUME TypeInv, GraphInv, NEW P, NEW out, NEW orig, NEW tmp, Final(P, out, orig, tmp, code),
           NEW r, r = RunGroup(StartOfRun, source[Entry], 0), NEW q, q = RunGroup(StartOfRun, code[Entry], 0)
    PROVE  AgreeAfter(P, out, tmp, Entry, r, q)
<1>1. PICK a : a = RunPhis(StartOfRun, source[Entry], 0)
  OBVIOUS
<1>2. PICK c : c = RunPhis(StartOfRun, code[Entry], 0)
  OBVIOUS
<1>3. PICK nm : nm = NamesIn(P, code, out, Entry)
  OBVIOUS
<1>4. PICK A : A = Before(follows, source, Entry)
  OBVIOUS
<1>5. Same(P, a, c, nm, A, tmp)
  BY <1>1, <1>2, <1>3, <1>4, EnterEntry
<1>6. GroupMeans(P, out, tmp, code, Entry)
  BY EntryAssumption DEF Final, Meaning
<1>7. Same(P, RunCodes(a, source[Entry]), RunCodes(c, code[Entry]), out[Entry], A \cup Loads(source, Entry), tmp)
  BY <1>3, <1>4, <1>5, <1>6 DEF GroupMeans
<1>8. r = RunCodes(a, source[Entry]) /\ q = RunCodes(c, code[Entry])
  BY <1>1, <1>2 DEF RunGroup
<1> QED
  BY <1>4, <1>7, <1>8 DEF AgreeAfter

\* And after each group that follows.
LEMMA GroupAgrees ==
    ASSUME TypeInv, GraphInv, NEW P, NEW out, NEW orig, NEW tmp, Final(P, out, orig, tmp, code),
           NEW p, NEW b, NEW k, Enters(p, b, k),
           NEW r, NEW q, AgreeAfter(P, out, tmp, p, r, q),
           NEW s, s = RunGroup(r, source[b], k), NEW t, t = RunGroup(q, code[b], k)
    PROVE  AgreeAfter(P, out, tmp, b, s, t)
<1>1. PICK a : a = RunPhis(r, source[b], k)
  OBVIOUS
<1>2. PICK c : c = RunPhis(q, code[b], k)
  OBVIOUS
<1>3. PICK nm : nm = NamesIn(P, code, out, b)
  OBVIOUS
<1>4. PICK A : A = Before(follows, source, b)
  OBVIOUS
<1>5. PICK o : o = out[p]
  OBVIOUS
<1>6. PICK B : B = Before(follows, source, p) \cup Loads(source, p)
  OBVIOUS
<1>7. Same(P, r, q, o, B, tmp)
  BY <1>5, <1>6 DEF AgreeAfter
<1>8. Same(P, a, c, nm, A, tmp)
  BY <1>1, <1>2, <1>3, <1>4, <1>5, <1>6, <1>7, EnterGroup
<1>9. GroupMeans(P, out, tmp, code, b)
  BY DEF Final, Meaning, Enters
<1>10. Same(P, RunCodes(a, source[b]), RunCodes(c, code[b]), out[b], A \cup Loads(source, b), tmp)
  BY <1>3, <1>4, <1>8, <1>9 DEF GroupMeans
<1>11. s = RunCodes(a, source[b]) /\ t = RunCodes(c, code[b])
  BY <1>1, <1>2 DEF RunGroup
<1> QED
  BY <1>4, <1>10, <1>11 DEF AgreeAfter

\* What a round has made uses the same values as the source.
LEMMA FinalUsesTheSame ==
    ASSUME TypeInv, GraphInv, FinalInv, NEW path, IsPath(path)
    PROVE  UsesTheSame(source, code, precedes, path)
<1>1. PICK P, out, orig, tmp : Final(P, out, orig, tmp, code)
  BY DEF FinalInv
<1>2. PICK L \in Nat : L = Len(path) /\ L >= 1
  BY DEF IsPath
<1>3. PICK F : IsWalking(source, precedes, path, L, F) /\ RunPath(source, precedes, path) = F[L]
  BY <1>2, WalkingIs
<1>4. PICK G : IsWalking(code, precedes, path, L, G) /\ RunPath(code, precedes, path) = G[L]
  BY <1>2, WalkingIs
<1>5. WalkingGoes(source, precedes, path, L, F) /\ WalkingGoes(code, precedes, path, L, G)
  BY <1>3, <1>4, WalkingStep
<1> DEFINE T == {n \in 0 .. L - 1 : AgreeAfter(P, out, tmp, path[n + 1], F[n + 1], G[n + 1])}
<1>6. 0 \in T
  <2>1. path[1] = Entry
    BY DEF IsPath
  <2>2. F[1] = RunGroup(StartOfRun, source[Entry], 0) /\ G[1] = RunGroup(StartOfRun, code[Entry], 0)
    <3>1. 0 \in 0 .. L - 1 /\ 0 + 1 = 1
      BY <1>2
    <3>2. F[0 + 1] = PathStep(source, precedes, path, 0 + 1, F[0]) /\ G[0 + 1] = PathStep(code, precedes, path, 0 + 1, G[0])
          /\ F[0] = StartOfRun /\ G[0] = StartOfRun
      BY <1>5, <3>1 DEF WalkingGoes
    <3>3. EdgeTo(precedes, path, 1) = 0
      BY DEF EdgeTo
    <3> QED
      BY <2>1, <3>1, <3>2, <3>3 DEF PathStep
  <2>3. PICK r : r = F[1]
    OBVIOUS
  <2>4. PICK q : q = G[1]
    OBVIOUS
  <2>5. AgreeAfter(P, out, tmp, Entry, r, q)
    BY <1>1, <2>2, <2>3, <2>4, EntryAgrees
  <2> QED
    BY <1>2, <2>1, <2>3, <2>4, <2>5
<1>7. ASSUME NEW n \in 0 .. (L - 1) - 1, n \in T PROVE n + 1 \in T
  <2>1. PICK m : m = n + 1
    OBVIOUS
  <2>2. m \in 1 .. Len(path) - 1 /\ m \in 0 .. L - 1
    BY <1>2, <2>1
  <2>3. PICK k : k = EdgeTo(precedes, path, m + 1)
    OBVIOUS
  <2>4. PICK b : b = path[m + 1]
    OBVIOUS
  <2>5. PICK p : p = path[m]
    OBVIOUS
  <2>6. Enters(p, b, k)
    BY <2>2, <2>3, <2>4, <2>5, EdgeToIs
  <2>7. PICK r : r = F[m]
    OBVIOUS
  <2>8. PICK q : q = G[m]
    OBVIOUS
  <2>9. PICK s : s = F[m + 1]
    OBVIOUS
  <2>10. PICK t : t = G[m + 1]
    OBVIOUS
  <2>11. AgreeAfter(P, out, tmp, p, r, q)
    BY <1>7, <2>1, <2>5, <2>7, <2>8
  <2>12. s = RunGroup(r, source[b], k) /\ t = RunGroup(q, code[b], k)
    BY <1>5, <2>2, <2>3, <2>4, <2>7, <2>8, <2>9, <2>10 DEF WalkingGoes, PathStep
  <2>13. AgreeAfter(P, out, tmp, b, s, t)
    BY <1>1, <2>6, <2>11, <2>12, GroupAgrees
  <2> QED
    BY <2>1, <2>2, <2>4, <2>9, <2>10, <2>13
<1>8. \A n \in 0 .. L - 1 : n \in T
  <2> HIDE DEF T
  <2>1. L - 1 \in Nat
    BY <1>2
  <2> QED
    BY <1>6, <1>7, <2>1, CountingUp
<1>9. AgreeAfter(P, out, tmp, path[L], F[L], G[L])
  <2>1. L - 1 \in T
    BY <1>2, <1>8
  <2>2. (L - 1) + 1 = L
    BY <1>2
  <2> QED
    BY <2>1, <2>2
<1> QED
  BY <1>3, <1>4, <1>9 DEF AgreeAfter, Same, UsesTheSame

\* So do codes that are left alone.
LEMMA UntouchedUsesTheSame ==
    ASSUME TypeInv, GraphInv, Untouched, NEW path, IsPath(path)
    PROVE  UsesTheSame(source, code, precedes, path)
<1>1. PICK L \in Nat : L = Len(path) /\ L >= 1
  BY DEF IsPath
<1>2. PICK F : IsWalking(source, precedes, path, L, F) /\ RunPath(source, precedes, path) = F[L]
  BY <1>1, WalkingIs
<1>3. PICK G : IsWalking(code, precedes, path, L, G) /\ RunPath(code, precedes, path) = G[L]
  BY <1>1, WalkingIs
<1>4. WalkingGoes(source, precedes, path, L, F) /\ WalkingGoes(code, precedes, path, L, G)
  BY <1>2, <1>3, WalkingStep
<1> DEFINE T == {n \in 0 .. L : SameRun({}, F[n], G[n])}
<1>5. 0 \in T
  <2>1. IsRun(StartOfRun)
    BY DEF IsRun, StartOfRun
  <2>2. F[0] = StartOfRun /\ G[0] = StartOfRun
    BY <1>4 DEF WalkingGoes
  <2>3. SameRun({}, StartOfRun, StartOfRun)
    BY <2>1, SameIsSame
  <2> QED
    BY <2>2, <2>3
<1>6. ASSUME NEW n \in 0 .. L - 1, n \in T PROVE n + 1 \in T
  <2>1. PICK b : b = path[n + 1]
    OBVIOUS
  <2>2. b \in Groups
    BY <1>1, <2>1, ElementOfSeq DEF IsPath
  <2>3. PICK k : k = EdgeTo(precedes, path, n + 1)
    OBVIOUS
  <2>4. PICK r : r = F[n]
    OBVIOUS
  <2>5. PICK q : q = G[n]
    OBVIOUS
  <2>6. PICK c \in Seq(Shaped) : c = source[b]
    BY <2>2, CodeOf DEF GraphInv
  <2>7. PICK d \in Seq(Shaped) : d = code[b]
    BY <2>2, CodeOf DEF TypeInv
  <2>8. PICK a : a = RunPhis(r, c, k)
    OBVIOUS
  <2>9. PICK e : e = RunPhis(q, d, k)
    OBVIOUS
  <2>10. F[n + 1] = RunCodes(a, c) /\ G[n + 1] = RunCodes(e, d)
    BY <1>4, <2>1, <2>3, <2>4, <2>5, <2>6, <2>7, <2>8, <2>9 DEF WalkingGoes, PathStep, RunGroup
  <2>11. SameRun({}, r, q)
    BY <1>6, <2>4, <2>5
  <2>12. SameRun({}, a, e)
    <3>1. IsRun(r) /\ IsRun(q) /\ r.results = q.results /\ r.uses = q.uses
      BY <2>11 DEF SameRun
    <3>2. PhisOf(c) = {}
      <4>1. ASSUME NEW i \in PhisOf(c) PROVE FALSE
        <5>1. HasId(c, i.id)
          BY DEF HasId
        <5>2. PICK x : x = i.id
          OBVIOUS
        <5>3. ~HasId(source[b], x)
          BY <2>2, NoPhisToTake
        <5> QED
          BY <2>6, <5>1, <5>2, <5>3
      <4> QED
        BY <4>1
    <3>3. PhisOf(d) = {}
      <4>1. \A m \in 1 .. Len(d) : d[m].op # "phi"
        BY <2>2, <2>7 DEF Untouched, PhisKnown, PhiKnown
      <4> QED
        BY <4>1, PhisAre
    <3>4. ASSUME NEW x PROVE ~HasId(c, x) /\ ~HasId(d, x)
      BY <3>2, <3>3 DEF HasId
    <3>5. IsRun(a) /\ a.uses = r.uses
      BY <2>8, <3>1, RunPhisKeep
    <3>6. IsRun(e) /\ e.uses = q.uses
      BY <2>9, <3>1, RunPhisKeep
    <3>7. a.results = [x \in DOMAIN r.results |-> r.results[x]]
      <4>1. a.results = [x \in DOMAIN r.results \cup {i.id : i \in PhisOf(c)} |->
                            IF HasId(c, x) THEN TakenFor(r, c, k, x) ELSE r.results[x]]
        BY <2>8, <3>1, RunPhisIs
      <4> QED
        BY <3>2, <3>4, <4>1
    <3>8. e.results = [x \in DOMAIN q.results |-> q.results[x]]
      <4>1. e.results = [x \in DOMAIN q.results \cup {i.id : i \in PhisOf(d)} |->
                            IF HasId(d, x) THEN TakenFor(q, d, k, x) ELSE q.results[x]]
        BY <2>9, <3>1, RunPhisIs
      <4> QED
        BY <3>3, <3>4, <4>1
    <3>9. a.results = e.results
      BY <3>1, <3>7, <3>8
    <3> QED
      BY <3>1, <3>5, <3>6, <3>9 DEF SameRun
  <2>13. SameRun({}, RunCodes(a, c), RunCodes(a, d))
    BY <2>2, <2>6, <2>7, <2>12 DEF Untouched, Memories, KeepsMemory, SameRun
  <2>14. SameRun({}, RunCodes(a, d), RunCodes(e, d))
    <3>1. PICK K : K = {}
      OBVIOUS
    <3>2. GroupBody(K, Loads(source, b), Before(follows, source, b), d)
      BY <2>2, <2>7, <3>1 DEF Untouched, Bodies
    <3>3. AllDirect(K, d)
      BY <3>2, BodyIsDirect
    <3>4. AreAddresses(K)
      BY <3>1 DEF AreAddresses
    <3>5. SameRun(K, RunCodes(a, d), RunCodes(e, d))
      BY <2>12, <3>1, <3>3, <3>4, LenProperties, SameCodes
    <3> QED
      BY <3>1, <3>5
  <2>15. SameRun({}, RunCodes(a, c), RunCodes(e, d))
    BY <2>13, <2>14 DEF SameRun
  <2>16. n + 1 \in 0 .. L
    BY <1>1
  <2> QED
    BY <2>10, <2>15, <2>16
<1>7. \A n \in 0 .. L : n \in T
  <2> HIDE DEF T
  <2> QED
    BY <1>5, <1>6, CountingUp
<1>8. L \in T
  BY <1>1, <1>7
<1> QED
  BY <1>2, <1>3, <1>8 DEF SameRun, UsesTheSame

\* The pass keeps what a function without pointers computes: along every path the
\* values used after the pass are those used before.
THEOREM MeaningKept == Spec /\ NoPointers(source) => []MeaningIsKept
<1>1. PassInv => MeaningIsKept
  <2> SUFFICES ASSUME PassInv, phase = "finished", NEW path \in PathsFrom(follows, Entry, PathBound)
               PROVE  UsesTheSame(source, code, precedes, path)
    BY DEF MeaningIsKept
  <2>1. TypeInv /\ GraphInv /\ (FinalInv \/ Untouched)
    BY DEF PassInv
  <2>2. PathBound \in Nat /\ PathBound >= 1
    BY BoundAssumption
  <2>3. IsPath(path)
    BY <2>1, <2>2, PathsAre
  <2> QED
    BY <2>1, <2>3, FinalUsesTheSame, UntouchedUsesTheSame
<1> QED
  BY <1>1, InitPassInv, NextPassInv, PTL DEF Spec
=============================================================================
