# A verification of siiLang

siiLang compiles a small C-like language to a three-address IR, promotes variables to SSA values
and leaves SSA form again. It is a sequential program without persistent state. What is hard about it
is not concurrency but *shared, mutable graph structure*: intrusive lists that are changed while they
are iterated over, recursive algorithms over cyclic graphs with results that are provisional for a while,
and passes that rewrite operands in one order while definitions disappear in another; in front of these, a
lexer that is one token ahead of a parser whose grammar lies in the order of its calls. The modules here
model that as state machines, one action per step of the code that another part of it could
observe, and check it with TLC; for the list, the code and function builders, def-use, the dominator tree, the
dominance frontiers and the promotion of variables to registers, the properties are also proved with TLAPS.

The repository has no documentation of its own. What it says about itself is in comments and in the
expectations of its tests, and the findings below quote those.

## 1. Inventory

`main.cpp` runs, for each file and in this order: lexer and parser → AST → IR generator → `BuildFunction` →
`MemoryToRegisterPass` → `QuitSSAPass` → printing. Everything is a direct call in one thread.

| Component (source) | State it keeps | Operations | What makes it hard | What makes it correct |
|---|---|---|---|---|
| Intrusive list (`include/utils/list.h`) | `next_`, `prev_`, `parent_` of each node; dummies and `size_` of each list; the links an iterator remembers | push, insert before/after, erase, `remove_from_parent`, move, iterate | erase and insert under an iterator; a node's idea of its list | lists are sequences; loops meet every node; nodes know their list |
| CodeBuilder (`src/IR/code_builder.cpp`) | allocas, codes, the label that waits, `dest_code_` | `append_*`, `append_label`, `finish` | any interleaving of labels and codes, labels at the end or in a row | each appended label is carried by one code, the one it points to |
| Function builder (`src/IR/function.cpp`) | groups by label, edges both ways, the recursion | `BuildFunction` | recursion over a cyclic graph memoised by label | control flow kept, edges mirrored, one group per reachable code |
| Dominator tree (`src/IR/dominator_tree.cpp`) | numbering, semi-dominators, buckets, union-find | `BuildDominatorTree` | path compression over values that change; provisional results | the tree of immediate dominators |
| IDF builder (`src/IR/IDF_builder.cpp`) | frontiers; working list and result of a call | constructor, `get_IDF`, `get_DF` | growing working list, order of pointers | least set closed under the dominance frontier |
| MemoryToRegisterPass (`src/IR/Pass/memory_to_register.cpp`) | codes; stacks of names; replacements; the variable of each phi | `run`, in rounds | names pushed and popped along the tree; phis filled from any side; erased loads | values used are the same before and after; nothing erased is mentioned |
| QuitSSAPass (`src/IR/Pass/quit_SSA.cpp`) | codes | `run` | assignments run in order, phis at once; a list that grows under its iterator | values used are the same before and after |
| Instructions, values, uses (`include/IR/IR.h`, `use.h`, `value.h`) | operands, `users_` of each value | constructors, setters, `replace_src`, destructors | both directions of def-use kept by hand | `users_` lists exactly the uses of living instructions |
| IR generator (`src/front/IR_generator.cpp`) | the code builder, the context manager | one function per kind of AST node | labels created before they are placed, gotos without a label yet, scopes, types | it is CodeBuilder's disciplined client; the codes do what the function says; ill-formed functions throw |
| Context manager (`src/front/context_manager.cpp`) | tree of scopes, current scope, current function | push/pop scope, append, find, enter/leave function | shadowing, redeclaration | the innermost declaration is found |
| Lexer, diagnose handler (`src/front/lexer.cpp`, `diagnose.cpp`) | index, line, column; lines of the file | next token, peek; report | end of input, look-ahead, line ends | positions are in the file |
| Parser (`src/front/parser.cpp`) | the lexer; the locals of the running calls | one function per part of the grammar | precedence, association, dangling else, declarators read inside out, errors anywhere | it ends; with the tree the grammar gives to what it read, or with an error if that begins no sentence |
| AST, front-end types (`src/front/AST.cpp`, `type.cpp`) | none that changes | constructors, transformers, normalization | parameters with and without types, casts between declarations | the type the declarator says |
| IR types, ID allocator, printers, scripts | – | formatting | – | – |

**How they interact.** The parser takes tokens from the lexer one at a time; errors go to the diagnose handler, which shows
the line and throws. A file is one declaration statement or one function; the generator turns its tree into codes. The generator calls the context manager and drives one CodeBuilder per
function. `BuildFunction` takes the codes and owns the groups. `MemoryToRegisterPass` makes an IDF
builder (which makes the dominator tree) in every round, and changes codes through the lists of the
groups and through the use lists of the values. `QuitSSAPass` relies on what both leave behind: mirrored edges, a
single jump at the end of each group, phis in front.

The hazards this leads to are listed, each at its line, in `PROJECT.json`, with the properties that
would notice.

## 2. Modules

| Module | Models | State and actions |
|---|---|---|
| `IntrusiveList` | `list.h` | `next`, `prev`, `parent`, `pair` (which dummies a list owns), `size` (mod `SizeMod`, as `size_t` wraps), and `loop`, the iterator of a running `for`. One action per operation; `EraseCurrent`, `Advance` are the body and the `++` of the loop. `stale`, `misled` and the `before`/`visited` fields of `loop` are history; `dropped`, the nodes of a list that was moved over, which keep links and parent, are not inserted again. |
| `ListContents` | what callers rely on | lists as disjoint sequences; `IntrusiveList` implements it (`ActsAsSequences`) |
| `IntrusiveListProofs` | theorems about the list, the refinement included | |
| `CodeBuilder` | `code_builder.cpp` | `alloca_list`, `code_list`, `appended_label`, `dest_code`; all codes control just runs through are one kind |
| `FunctionBuilder` | `function.cpp`, after `CodeBuilder` (EXTENDS it: first the client appends, then `BuildFunction` runs on the result) | the recursion of `build_basic_group_starting_from` is `stack`; an action per code taken, per edge linked, per recursive call and return |
| `FunctionBuilderProofs` | theorems about both builders | |
| `FlowGraph` | nothing in the code: the textbook notions (dominance, frontier, iterated frontier) defined by paths and least sets, which the algorithms are compared with | operators |
| `ImmediateDominators` | what `BuildDominatorTree` promises: the whole tree in one step | refined by `DominatorTree` |
| `DominatorTree` | `dominator_tree.cpp` | numbers for groups; one action per iteration of each loop, `assign_index`'s recursion as `stack`; `MergePath` is path compression |
| `LengauerTarjanProofs` | nothing in the code: depth-first numberings, semi-dominators, the union-find and the levels, about functions of numbers | |
| `DominatorTreeProofs` | theorems about `DominatorTree` | |
| `IDFBuilder` | `IDF_builder.cpp` | frontiers by recursion over the tree, then any number of calls of `get_IDF` |
| `DominanceProofs` | nothing in the code: the theory of dominance over `FlowGraph` that the theorems need | |
| `IDFBuilderProofs` | theorems about `IDFBuilder` | |
| `DeclaredTypes` | `type.h`, `type.cpp`, the normalization in `AST.cpp` | operators: types, transformers and normalization, which yields a type, `Threw` or `Undefined` (a null type is asked for its kind) |
| `Parser` | `parser.cpp` with the constructors of `AST.cpp` | `todo` is what the running calls have still to do, `values` their local variables (nodes, and declarators as a name and the transformers pushed so far); `look` is the token that was peeked at. One action per token taken or peeked at and per node built. The file is open: what `peek` returns is chosen when it is called, so that the initial states are few and every file is parsed that differs in something the parser looks at. `read` is history. |
| `Grammar` | nothing in the code: the grammar of the comments in `parser.cpp` as rules with trees, the precedence, association and declarator types of C | operators: `SentencesOf` derives all sentences of bounded length, with their trees |
| `IRGenerator` | `IR_generator.cpp` with `context_manager.cpp`, on top of `CodeBuilder`'s operations | the recursion of the `generate_for_*` functions is `todo`, what the running calls have still to do: `RValueSteps`, `StatementSteps` and the like are their bodies; `values` are their local variables, `scopes` the chain of symbol tables, `operation` what the codes compute. An action per call of CodeBuilder or of the context manager. |
| `ProgramMeaning` | nothing in the code: which files are well formed and what they do, in the sense of C | operators, by recursion over the tree |
| `Lexer` | `lexer.cpp` with `diagnose.cpp` | `contents`, `at` (index, line and column), `next_token`; `Take` is `next()`, `Complain` a message of the diagnose handler, which throws. Contents are sequences of kinds of characters. `taken` is history. |
| `GeneratedCode` | what the generated codes do; the properties of `IRGenerator` | operators |
| `InstructionSemantics` | `IR.h` as far as the passes tell instructions apart, and what running them means | operators; the code never runs instructions, so the meaning is the usual one of loads, stores, phis and assignments |
| `MemoryToRegister` | `memory_to_register.cpp` | `code`, `names`, `temporary`, `original` are `codes_` and the three rename maps; the recursion of `RenamePass` is `stack`; a group is renamed in one step, since nothing observes the middle of it |
| `MemoryToRegisterProofs` (on `DominanceProofs`) | theorems about it | |
| `QuitSSA` | `quit_SSA.cpp`, composed with `MemoryToRegister` in the order of `main.cpp` | `QuitGroup` is the visit of one group |
| `DefUse` | `IR.h`, `use.h`: the life of instructions and uses, and `TryRemoveAllocIfStoreOnly` | `operands` and `users` are the two directions of def-use; `listed`, `held` are what keeps an instruction besides its uses; `dying` are the destructors about to run, one `Destroy` each; `loop` is the iterator over `users_`. The client's actions are what the generator and the passes do to instructions, in any order within a stage, but for `ComesBefore`: a replaced operand is one that could be computed before its user, as in SSA form. |
| `DefUseProofs` | theorems about it | |
| `MC*` | instances for TLC: graphs, functions, files, symmetry; `MCFrontEnd` has the lexer and the parser, one at a time | |

The layers meet where one module's property is another one's assumption. `CodeBuilder` lets its client append
anything that a disciplined client may: each label once, and all that are referred to before `finish`. `IRGenerator` uses the
same operations without those guards, and `ClientIsDisciplined` says that its steps are steps of `CodeBuilder`'s
guarded client (with the gotos that wait for `use_setter` read as set). `FunctionBuilder` checks
`EdgesAreMirrored` and `JumpsNameTheirGroups`; `MemoryToRegister` assumes mirrored edges
(`PrecedesAssumption`) and functions of the shape `IsFunction` (`SourcesAssumption`): the allocas in the entry, which nothing jumps to, every
result made by one code, and every operand a constant, a variable or a result that is there wherever control comes from. `DominatorTree` implements
`ImmediateDominators`, and `IDFBuilder` starts from immediate dominators and their levels. `IDFBuilder`
shows that `get_IDF` is the iterated frontier of `FlowGraph`, and `MemoryToRegister` uses that operator.
`ListContents` is why the passes may treat `codes_` as sequences.

Some things that are left open on purpose: the order in which children of a dominator tree node and sets of
pointers are visited (the code's order depends on addresses or on the order of edges), and the order in
which `QuitSSAPass` visits groups.

## 3. Runs

Every run has a `.cfg` and is listed in `PROJECT.json` with its properties. For each property of a
passing run there is also a *mutant*, an operator with a plausible mistake (`Mutant of ...` in the
modules) under which TLC finds the property violated.

**`dominator_tree`** – all graphs `BuildFunction` can make of an entry and 4 more groups (each ending with
a return, a goto or a branch), numbered breadth-first, which only drops isomorphic copies. Four groups besides
the entry are enough for a semi-dominator to differ from the immediate dominator and for the provisional
one to need the last pass (`FixIdom`): the mutant that skips that pass is caught. Irreducible
loops, self loops and double edges occur. Shows: `SemiDominatorsAreLeast`, `LevelsAreDepths`, and
`BuildsDominatorTree`, the refinement.

**`idf`** – every graph of 5 groups with at most 6 edges reachable from the entry, edges back to the
entry included (the tests of the repository make such graphs), and every list of at most 2 groups, repetitions
included, in every call of a sequence of calls. Shows that frontiers and result are the textbook ones, that phis there suffice
(`PhisSuffice`, the fact SSA construction rests on), and that calls return.

**`function_builder`** – every way to append up to 4 codes, 2 labels (plus the gotos and nopes the builder
adds) and 1 alloca, with jumps to labels before or after they are placed. Labels are interchangeable (symmetry).
Two labels suffice for loops, jumps into a group under construction, falling into a label, labels in a
row, a label at the end, unreachable code and branches with equal targets.

**`generator`** – 10,594 files, of which 3,652 are well formed. *Statements*: a body is a block of up to two
statements, or one selection or loop; those contain simple statements, declarations or a second level of them. So every kind of
statement stands inside, before and behind every other kind, with and without conditions, initializers, `else`; names are shadowed, redeclared
and used outside their block. *Expressions*: two operators over a variable `x`, a pointer `p` and `1`, as a statement;
one operator in a `return`, in functions that return an `int` or a pointer. *Order of evaluation*: an operator between any two of `x`, `*p`, `*(p = &x)`, `++x` and
`x = 1`, as a statement, a returned value or a condition, so that one side changes what the other one reads: where it stores (`*p = *(p = &x)`, whose right side must come first) and which value it uses (`x + ++x`). *Declarations*: up to two declarators with initializers, of variables, arrays or functions, as a file of their own or in a
function, and parameters of the same name. Programs are built over one operator of each sort (the others have the same code
around them, see `IRGenerator`), and with types chosen by name. A run is observed up to five events (`MaxEvents`: stores, tests, the returned value), which is
two turns of a loop and what follows. Shows `RunsAsWritten` (values, addresses and order of evaluation
included, whichever way tests come out), `ThrowsIfIllFormed` in both directions, and `ClientIsDisciplined`. `MaxCodes`, `MaxAllocas` and `Labels` are
larger than any of these functions needs; the generator would stop in the middle otherwise, which is a deadlock.

**`front_end`** – the lexer and the parser, one at a time in one state space. *Lexer*: all contents of up to four characters of
eleven kinds, which has each pair of characters that one token could be made of, with blanks, line ends and
the end of the contents before and behind it. `TokensAreTheText` compares with a definition of words: longest match, nothing but blanks left out, and every
position recounted from the contents. The parser stops at the end and at the first unknown token.
*Parser*: ten choices (`FilesToParse`) of a function that is called, how often each token may occur and how many there may be
altogether, 6 to 15; within these, every sequence of tokens, right or wrong, up to where the parser gives up.
The choices have every pair of operator levels with both orders, parentheses, comparisons that are turned round, chains of assignments;
every statement with missing parts; two ifs, an else for either and a loop around one; declarators with a pointer, a function and an array in every arrangement, arrays of arrays, lists of
declarators and initializers, lists of names and of parameters, declarations behind them and bodies. `BuildsTheTree`
and `RejectsNoSentence` compare with all sentences of `Grammar` and what begins one: together they say that exactly
the sentences are accepted, each with its tree, and that nothing is refused while it could still become one. `EveryParseEnds` is
liveness.

**`list`** – 2 lists, 3 nodes, one running loop. Three nodes are a node with neighbours on both sides;
`SizeMod = 4` makes an underflow visible. Nodes are interchangeable. A loop's body may erase the current
node, move it to the other list and insert before the last node, which is all the passes do.
After `a = std::move(b)` the nodes still name `b`, and `remove_from_parent` then decrements the wrong `size_`, which may wrap. No
pass moves a list, only a test does, and that one looks at the sizes alone. `NodesKnowTheirList` says which nodes know their list (those that did not get where they are by a move, `stale`), and
`SizesAreLengths` that sizes survive everything, moves included, up to the call that follows a stale `parent_` (`misled`).

**`passes`** – functions over the variables x and y with 3 groups besides the entry and at most one statement
in each (`x = c`, `y = c`, `x = y`, `y = x`, `return/use x`), on all such graphs; and functions that start with `x = c; y = &x` and
then use `*y`, in which y is promoted in the first round and x only in the second. "Meaning" is compared
along all paths of at most 5 groups from the entry (`PathBound`): a loop of one group is run three times, one of two groups
nearly twice, so that a value of the previous iteration is met; longer loops are entered once more at most. No graph of this run has a double edge; those are in `function_builder` and `dominator_tree`. `ConstantsSurvive` is the part of the SSA exit that holds: with no copies between
variables the assignments are as good as the phis. `RoundsPromote` is an action property: a round leaves nothing of the
variables it promotes, which is why the `do {} while` in `run` ends.

**`def_use`** – 4 instructions of any kind, phis with at most 2 sources; instructions are interchangeable
(symmetry). Four make a chain of destructors (a store that keeps a load that keeps an alloca, next to another user of
that alloca) inside the loop over `users_`. Shows that the use lists mirror the operands although `~SiiIRPhi` unlinks nothing: a phi is only erased when
an assignment mentions it (`ErasePhiEarly` is the mutant), so its destructor never runs before the function goes. `NothingLeaks` says that what exists can be reached from a group, a map or a
running destructor: `Referenced` lets instructions keep each other, as shared pointers do, so a ring of operands would stay for good. It needs `ComesBefore` in `ReplaceOperand`: `RenamePass` goes down the dominator tree, so
that the name it puts into an instruction was computed before it, and only phis look ahead. With arbitrary replacements TLC finds a ring of two instructions in no group.

**Violations** (each a disagreement of the code with what a comment or test says of it):

* `lines_of_messages` – the line a message shows does not exist if the file is empty or the message is about its end behind a
  final newline, against the comment in `diagnose.cpp:49`.
* `dereference_statement` – `*&x;` throws, since the case for a dereference falls through into the next one.
  `generator` leaves out dereferences of anything but a variable or a dereference as statements of their own.
* `store_through_pointer` – for `*p = c`, `RenamePass` erases the load of `p` but the
  store keeps naming it. `passes` therefore only has pointers that are read through.
* `copies_in_loop` – the swap and lost-copy problems of leaving SSA form by assignments in sequence.

## 4. Fairness and liveness

The program is one thread that nothing blocks, so weak fairness of its own steps is what "it runs"
means. `Parser` asserts it for `Parse`, the steps of the parser, and `EveryParseEnds` says that no loop of it stays where it is: the lexer returns the
end of the file and an unknown token again and again. The bounds on the file do not help it to end, since these two can be taken any number of times. `IDFBuilder` asserts it for `Step`, the steps of the code, and not for
`CallGetIDF`, since nobody has to call it; under it `CallsReturn` holds. `DominatorTree` asserts it for
`Next`. The other specifications have only safety properties and state no fairness. Where the system stops (the
function is built, the passes are done) the module has an explicit stuttering action, so that
deadlock stays checked everywhere.

## 5. Proofs

TLC shows a property on an instance; the theorems below hold for every value of the constants. `PROJECT.json` lists
them with what each one says. Each component has one inductive invariant, from which all its theorems follow, and a
lemma per action that the action keeps it.

**`IntrusiveListProofs`** – `LinksAreConsistent`, `NodesKnowTheirList`, `SizesAreLengths`, `LoopsMissNothing` and the refinement `ActsAsSequences`.
The invariant `Inv(c)` speaks of sequences `c`, one for each list: `IsContents` says that the links are those of `c`, `Owners`
what nodes and lists know of each other but for what is `stale` or was `misled`, `LoopIsOnTrack` that all nodes of the beginning which the loop has not met are still ahead of it,
in their old order. The properties are stated with `Contents`, a walk along the links; walks cannot be reasoned about while links change, so the
proof is that each operation on the links turns `Inv(c)` into `Inv(d)` with `d` the operation on sequences (`PutIn`,
`TakenOut`), and, once, that `IsContents(c)` makes every walk yield `c`. From the same step lemmas follows that each operation is a step of `ListContents` or a stutter.
Assumptions: finitely many lists and nodes (`FiniteAssumption`), fewer nodes than `size_t` can count (`SizeAssumption`), links, lists and the null pointer are different things
(`NullAssumption`, `DummiesAssumption`).

**`FunctionBuilderProofs`** – `TypeOK`, `LabelsHaveTheirCode`, `NeverThrows`, `EdgesAreMirrored`,
`ControlFlowIsKept`, `ReachableCodesHaveOneGroup`, `JumpsNameTheirGroups`: whatever the client appends, in whatever order. `BuilderInv` is kept by the calls of the client, and implies,
when `BuildFunction` starts, `SourceInv`: what the recursion finds under a label is the code that carries it. During the recursion, `FrameInv`
relates what a call has put into its group to the codes it has read (`Partial`: a run of codes without label or jump in between;
`Ended`: such a run up to a jump, the end or the next label, which becomes a goto, and the edges already linked followed by those still to
link are where control goes next); `GroupInv` says that a group is finished or one call is at work on it; `ReachInv` that nothing is touched that control cannot
reach. None of the properties is inductive: they speak of the built function, and the invariant has to say what is true in the middle of any number of nested
calls. Assumptions: finitely many labels, the label of the first code and the absence of one are two things (`FiniteAssumption`,
`LabelsAssumption`, `NamesAssumption`), bounds are numbers (`BoundsAssumption`).

**`DefUseProofs`** – `TypeOK`, `UsersMirrorOperands`, `OperandsExist`, `NothingLeaks`, `RemovalLoopIsSafe`. The properties depend on each other, so the invariant has all of them
together with what makes them inductive: `Accounted` (what is referenced by lists, maps or *operands* is exactly what is not about to be destroyed), `Shapes`
(the setters and the loops find the operands they rely on), `PhisAreKept` (the destructor that would leave its uses behind never runs), `NoRings` (among instructions that are no phis some one is used by none of them, which `ComesBefore` keeps) and `LoopInv` (the
uses ahead of the loop of `TryRemoveAllocIfStoreOnly` are those in the list but for the one whose user is being destroyed, and each has a store of its own). `NothingLeaks` follows: instructions that cannot be reached would be used by each other only, so by `NoRings` there would be a phi among them, which `PhisAreKept` has in its group or behind an assignment.
Assumptions: `NullAssumption`, `MaxSourcesAssumption`.

**`IDFBuilderProofs`** (on `DominanceProofs`) – `FrontiersAreCorrect`, `IDFIsLeastClosed`, `PhisSuffice`.
`TypeInv` says what the variables hold, and that the nodes of the tree the recursion visits are groups.
`WorklistInv` says, while a call works, that (1) every group the call knows of (`defs` and `idf`) is still on the
working list or its frontier is in `idf` except for what is left in `todo`, and (2) whatever is in `idf`
or `todo` is in every closed set. (1) makes the result closed when list and `todo` are empty, (2) makes it least. Neither mentions in which order anything is visited.
`FrontierInv` says that while the frontiers are computed the running calls are a walk over the dominator tree (`IsWalk`): they stand on a
branch of the tree, the frontiers of all subtrees they are done with are the textbook's, and those of the running nodes are so up to the children that are still to come.
`PhisSuffice` follows, in a returned state, from closure under the textbook frontier and the shape of the tree.
Assumptions: entry, edges and arguments are groups, of which there are finitely many (`EntryAssumption`, `FlowGraphsAssumption`, `CallsAssumption`,
`GroupsAssumption`); control can reach every group (`ConnectedAssumption`, which is what `GroupsCorrect` proves of `BuildFunction`).

`DominanceProofs` derives from the definition by paths (least closed sets) that dominance is an order, linear above each group; that
every group but the entry has one immediate dominator; that climbing the tree to a level finds the dominator at that level if there is one (`ClimbFindsDominator`, which is `IsDominatorOf`); that the
frontier of a group is made of its own edges and the frontiers of its children; and what a call and a return do to a walk.

**`DominatorTreeProofs`** (on `LengauerTarjanProofs`) – `TypeOK`, `SemiDominatorsAreLeast`, `LevelsAreDepths` and the refinement
`BuildsDominatorTree`: the algorithm of Lengauer and Tarjan as the code has it, path compression and the last pass included. The invariant `IInv` has one part per loop.
`NumberInv` says that the running calls of `assign_index` are a depth-first search (`IsSearch`: an edge from a finished number never leads to one that has no number yet, and a
number's father is the last one on the path that was running when it was met). `NumberedInv` is what is left of it: fathers and edges form a depth-first tree (`IsDFS`), from which the theory derives that
a semi-dominator is an ancestor and that a node is dominated by exactly those ancestors that nothing jumps over (`Safe`). `SemiInv` and `BucketInv` say that the union-find is the
tree cut off at the numbers not yet linked, with the best semi-dominator below the root at each node (`IsForest`, kept by compression, linking and lowering), that the numbers already done have their semi-dominators and each is
in the bucket of its semi-dominator or has a provisional dominator (`IsProvisional`). `FixInv` replaces provisional dominators by immediate ones from the front; `TreeInv`, `LevelInv` and `DoneInv` carry them into the returned tree.
Assumptions: those of the graph, as for `IDFBuilderProofs`.

**`MemoryToRegisterProofs`** (on `DominanceProofs`) – `TypeOK` of every function; `NothingErasedIsMentioned`, `RoundsPromote`, `DefinitionsDominateUses` and
`MeaningIsKept` of every function with `NoPointers(source)`: its loads and stores name variables, and it neither stores nor uses the address of one. That is
what the code allows. The pass takes a variable for promotable if no *store* has its address as the value, and a function that reaches a variable through
another one is not kept in general: `store_through_pointer` shows a store that is left with an erased operand. The generator makes functions with `NoPointers` of all files
that have no `&` and dereference nothing. Flow graphs and the number of groups, variables, rounds and codes are arbitrary.

None of the properties is inductive, since each is about the end of a round, so `PassInv` has a part for each phase. `ScanInv`, while the allocas are scanned: every group does to the variables
that are left what its source does (`Memories`), codes are of the shape the scan relies on (`Bodies`), and a variable for which a group stores has a phi in each group of the frontier, since phis are in
the iterated one (`PhisSpread`). `RenameInv`, while `RenamePass` recurses, says of the set `R` of groups that are renamed:

* `WalkTree`: the running calls are for different groups of `R`, and a child of a renamed group is renamed or still to do; so that all groups are renamed in the end.
* `WalkNames`: below what a call has pushed, the stacks of names are those its caller had; so that popping by count restores them, and the top of a stack is the name out of the group of the call.
* `CodesInv`: groups outside `R` are as the scan left them, those in `R` have no load or store; the phis have a source for each edge from a group in `R`, which is the name out of it; every name and replacement
  is a value that is available in its group (`Good`).
* `Meaning`: each group of `R`, run with a value for each name on entry, ends with the values its source leaves in memory under the names out (`GroupMeans`), and names flow as values do (`OutFlows`):
  a variable without a phi in a group has there the name it has behind the group's immediate dominator.

That last fact and the fixed frontiers give `NamePasses`: along an edge to a group without a phi of a variable, the name out of the predecessor is that of the group's immediate dominator, so that what is known of
a path up to a group is known up to the next. `FinalInv` is what is left when all groups are renamed; `FinalUsesTheSame` follows a path group by group with it, which is `MeaningIsKept` for any `PathBound`. A round
after the first finds no variable, so `FinalInv` stays. Assumptions: groups and graphs as for `IDFBuilderProofs`, mirrored edges (`PrecedesAssumption`, which
`EdgesCorrect` proves of `BuildFunction`), functions of the shape `IsFunction` (`SourcesAssumption`), different names for different values (`VariablesAssumption`,
`ValuesAssumption`), and a bound that is a number (`BoundAssumption`).

*Induction.* Theorems of induction with an operator as parameter are out of the provers' reach. `LeastNumber` (a set of numbers
that is not empty has a least one) takes their place: to show that all groups, positions or steps have a property, take the least one, in some
measure, that lacks it. What a recursive function computes (`Climb`, `Contents`, `In` of `PhisSuffice`) is shown by giving the function
explicitly, showing that it satisfies the recursion, and that a function that does is unique, by a least counterexample.

*Only model-checked.* `CallsReturn` and `EveryParseEnds` are liveness under fairness, which the prover does not support. `DeclaredTypes`, `Grammar`, `Parser`, `ProgramMeaning`,
`IRGenerator` and `GeneratedCode` use recursive operators, whose modules the prover cannot take.
`TokensAreTheText` of the lexer is checked on all short contents and not proved.
Of the passes, `ConstantsSurvive` (leaving SSA form) is model-checked only, and so is what the pass does to functions with pointers that are read through,
which are promoted in two rounds: what holds of these depends on which variable a pointer has when it is promoted, and no invariant is stated for it.

## 6. Not modelled

* In the generator, the pointers with an offset limit that parameters of array type become. (For arrays as variables it throws, and the model, too.)
* In the parser, the positions that nodes get: it asks for `current_position()` before it takes the first token of a node, which the lexer has already passed, so they begin behind
  their first token; only two messages about the size of arrays use them. Sizes of arrays that do not fit (`std::stoll`) are left out, too: there is one number.
* Equality of types and trees, which only tests and `SymbolTable::push` use, the latter for a message; translation to IR types, sizes.
* The destruction of a whole function: `main.cpp` prints it and lets it go, and nothing runs afterwards. Phis that name each other are not freed then; `NothingLeaks` is about everything before.
* The rules for redeclared functions in `SymbolTable::push`: a file has one function, and no declaration of another gets that far. The codes `MCMemoryToRegister` starts from (`CodesOf`) are those `IRGenerator` makes of the same statements.
* The outermost `CodeBuilder` of a file with a function, which gets one code, and functions without a body as a file, which the parser makes no tree for.
* Printing, reading of files, scripts.
* `function.cpp:91` calls the entry "an entry node that contains no code"; it gets the allocas and a goto. That is what the code means to do, so the model has it.

## 7. The language as the code has it

`Grammar` and `ProgramMeaning` are written from the comments and from C. Where the code accepts something else, they follow the code and say so:

* A comma may stand behind the last declarator (`int a, ;`), and the one behind the first initializer of a file may be missing (`int a = 1 b;`), although
  parser.cpp:320 says `{INIT_DECLARATOR {',' INIT_DECLARATOR}*}?`. So `int x = x * x;` can be read in two ways; the parser takes the longest expression.
* `int x { ... }` is accepted as a variable, with the body in place of its initializer; the generator refuses the file.
* `return;` is refused by the parser although the generator has a test for it.
* A declarator without a name has no suffix unless in parentheses, which may be empty: `int (*)()` is a parameter, `int [1]` is not.
* The comments above the functions for equality, relation and unary operators list fewer operators than these accept.
* Of an array as a parameter only the outermost part is normalized. Of a parameter that is declared twice behind a list of names, the last declaration counts; initializers there are dropped.
* A list of names in a declarator inside another one has no types, and normalization asks a null type for its kind. The model ends with `"undefined"`.
* A function cannot be declared in a block or in a list, since the generator has no case for it: the parser accepts `int g();`, the generator throws.
* A local variable may have the name of a parameter, whose scope is around that of the body.

## 8. Plan

1. Rounds of `MemoryToRegisterPass` over joins left by an earlier round, and pointers with several targets: the hazards without a property.
   Then a hypothesis weaker than `NoPointers` under which `MeaningIsKept` can be proved.
2. A proof of `ConstantsSurvive`, from `MeaningKept` and the order of the assignments.
