# rung in TLA+

This directory specifies [rung](../src/README.md), a small dynamic language with
four ways to run a program: a tree-walking evaluator, a stack machine, a
register machine, and a baseline JIT for ARM64 that can compile on a thread of
its own. The modules model the parts in which an order of steps, a collection
at the wrong moment or a full table can go wrong without a test noticing.
`PROJECT.json` ties every definition to its lines of source, every property to a
run and to a mutation of the model that breaks it, and every hazard we know of
to the properties that watch it.

Contents: [inventory](#inventory), [modules](#modules),
[runs](#runs-and-bounds), [findings](#findings), [fairness](#fairness),
[proofs](#proofs), [what is not modelled](#not-modelled), [plan](#plan).

## Inventory

Paths are relative to `src/src/`.

| Component | State | Operations | Talks to |
|---|---|---|---|
| **Background compilation**, `jit/jit.cpp` | queue, `compiling_`, `stopping_`, `held_` under one mutex; `jit_status`, `jit_hotness`, the atomic `jit_entry` in each function; code buffers | `enqueue`, `compile`, `adopt`, `mark_pending`, `wait_until_idle`, `hold_for_testing`, `shutdown`, `worker_main` | the VM calls it on calls and loop back-edges; the collector asks it for roots; the compiler thread publishes code to the VM |
| **Register VM**, `vm_reg.cpp` | one array of registers, frames, the sorted list of open upvalues, globals, inline caches | `run`, `call_global`, 40-odd instructions, `capture_upvalue`, `close_upvalues`, `take_error`, `mark_roots` | heap (allocates and is traced), JIT hooks |
| **Register compiler**, `compiler_reg.cpp` | per function: locals, scope depth, next free register, upvalues | one case per syntax node | emits what the VM runs; allocates constants on the heap |
| **JIT compiler**, `jit/jit_compiler.cpp` | label tables, exits | whitelist check, code generation, self-calls, bail-outs | reads a function's code; the generated code edits the VM's registers and, in a self-call, its frames |
| **Heap**, `runtime/heap.cpp` | object list, byte counts, gray stack, temporary roots, root markers, weak intern table | `allocate`, `intern`, `collect`, `mark_*` | calls back every engine's `mark_roots` |
| **Executable memory**, `jit/exec_memory.cpp` | mapped buffers | `allocate`, `write` (copy, then flush) | called by the JIT |
| **Stack VM and compiler**, `vm_stack.cpp`, `compiler_stack.cpp` | value stack, frames, open upvalues | as the register VM | heap |
| **Tree engine**, `engine_tree.cpp` | environments, explicit root stacks, a return value in flight | `exec`, `eval`, calls | heap |
| **Values and operations**, `runtime/ops.cpp`, `runtime/value.h` | none | wrapping arithmetic, comparison, indexing, printing | all engines |
| **Constant folding**, `fold.cpp`; **superinstructions**, `superinstructions.cpp`; **resolver**, `resolver.cpp` | the tree or code they rewrite | one pass each | run before the engines |
| **Lexer, parser, command line, tools** | text | | |

What is hard:

* *Threads.* The engine's thread and the compiler thread share a queue under a
  mutex and one atomic pointer per function outside it. The collector runs on
  the engine's thread while the other reads a function. Shutdown meets the
  compiler thread in any state. Two condition variables can lose a wake-up.
* *Collections in the middle of things.* Any allocation can collect. Every value
  a handler, a compiler or an evaluator still needs has to be a root by then,
  and nothing stale may be one.
* *Shared storage.* Register windows overlap, a captured variable lives in a
  register first and in an upvalue later, and its frame can end by a return, by
  a scope's end or by a runtime error.
* *Limits.* Depth, register file and value stack, the hotness counter, 32-bit arithmetic.
* *Agreement.* Four engines, folding on or off and fused instructions or not
  must give one answer.

What makes each component correct:

* Background compilation: machine code is entered only when it is complete,
  flushed and adopted; no function is freed while a thread may read it; each
  function is queued and resolved once; nothing waits forever; shutdown leaves
  nothing behind.
* Register VM: variables behave as if each lived in a box of its own; the
  collector marks only valid slots and frees nothing in use; the arrays are
  never overrun.
* Stack VM: no pointer into the stack outlives its slot, the stack is never overrun,
  and a call fails for depth exactly where the other engines fail.
* Compilers: a program means what the tree engine says it means.
* JIT compiler: machine code steps are VM steps; after a bail-out the frames are
  those the VM would have.
* Heap: exactly what is reachable survives; the intern table holds each string
  at most once and never a freed one; garbage stays bounded although objects grow unseen.

## Modules

| Module | What it is |
|---|---|
| `CodeHandoff` | what compilation promises: one stage per function, which only moves forward, and the function whose code runs |
| `JitBackground` | the JIT's queue, thread and flags, with the hooks of the VM; implements `CodeHandoff` |
| `MCJitBackground` | small instances for TLC |
| `QueueTheorems` | what `Head`, `Tail`, `Append` and `Range` do to a queue without duplicates, and what an insertion does to a descending list |
| `ValueTheorems` | what the operations of `Operations` give and keep, and what the two walks of the list of open upvalues and an insertion in it do, for both machines |
| `JitBackgroundProofs` | the inductive invariant, the safety theorems and the refinement theorem of `JitBackground` |
| `BoxedVariables` | what the machines promise about variables: a box per captured variable, activations that share nothing |
| `RegisterVM` | windows, frames, upvalues, roots and collections of the register machine; implements `BoxedVariables` |
| `MCRegisterVM` | small instances for TLC |
| `RegisterVMProofs` | the inductive invariant and the safety theorems of `RegisterVM`, and the theorem that it implements `BoxedVariables` |
| `ManagedHeap` | what the heap promises to the engines: interned strings, and collections that happen at once |
| `Heap` | the object list, gray stack, marks, sweep, intern table, roots and threshold; implements `ManagedHeap` |
| `MCHeap` | small instances for TLC |
| `HeapProofs` | the inductive invariant, the safety theorems and the refinement theorem of `Heap` |
| `TreeRoots` | the tree engine's pending calls and what each of them keeps rooted; a client of `ManagedHeap` |
| `MCTreeRoots` | a small instance for TLC |
| `TreeRootsProofs` | the inductive invariant and the safety theorems of `TreeRoots`, and the theorem that it is such a client |
| `Operations` | values, and the operations all engines share: arithmetic, comparison, indexing, natives, printing |
| `SyntaxTree` | the node kinds, and which fields of a node are nodes |
| `Resolver` | bindings, captures and static errors: an operator from a program to a resolved one |
| `Folding` | simplification: an operator from a resolved program to a simpler one |
| `TreeEngine` | evaluation of the tree: an operator from a program to what a run of it shows |
| `RegisterInstructions` | the words of register code, and the fused pairs |
| `RegisterCompiler` | an operator from a program to register code, with the superinstruction pass |
| `EngineInterface` | what every engine is given and must show for it: the passes before it, and the tree-walker's result |
| `RegisterCode` | the register machine, one action per instruction |
| `MachineCode` | the register machine with a JIT: which functions are compiled, and what their machine code does |
| `RegisterMachine` | the register machine and its JIT as a machine for any code whose words fit one another, with its properties |
| `RegisterMachineProofs` | theorems about its inline cache, frames and calls in machine code; the inductive invariant that keeps it inside its code and its windows; and the theorem that machine code acts as the interpreter |
| `Engines` | a run with the register engine, composed as the command line and bench mode do, with the properties |
| `StackCompiler` | an operator from a program to stack code |
| `OpenUpvalues` | the list of open upvalues, which both machines walk from its head |
| `StackCode` | the stack machine, one action per instruction |
| `StackMachine` | the stack machine as a machine for any code whose words have shapes, with its properties |
| `StackMachineProofs` | the inductive invariant that keeps it inside its code and its stack, and the theorems about its upvalues and its room |
| `StackEngines` | a run with the stack engine, composed as the command line and bench mode do, with the properties |
| `SamplePrograms` | the programs the engines are compared on |
| `MCEngines`, `MCStackEngines` | the instances for TLC, and the programs that one engine only is for |

**`JitBackground`.** A critical section of `Jit::mutex_` is one action; what the
code does before it or after it (the status store before the lock in `enqueue`, the
notification after it, the release store of `jit_entry`, the join) is an action
of its own. `engine` and `worker` say where the two threads are; `resume` says
where `jit_count` returns to. `code[f]` is the state of f's buffer as another core
would fetch it: `ExecBuffer::write` first copies, then flushes. The program is
nondeterministic: it makes and forgets closures, calls, takes back-edges, fails
and collects. A collection has two steps, marking (which takes the mutex in
`mark_pending`) and sweeping, and the compiler thread moves in between. Waiting
on a condition variable is a step to sleep, and waking is a step that a notification
or a spurious wake-up causes, after which the predicate is tested again.

**`RegisterVM`.** The program is any sequence of instructions the compiler could
have emitted: a frame carries the compiler's `free_reg` (`live`) and how many
registers are variables (`locals`), and the guards are the compiler's discipline
(temporaries above variables, a callee and its arguments in the highest
temporaries, CLOSE at the end of a scope). CLOSURE is one action per word: the
closure is stored, then each Capture word may allocate, and `Collect` can come
between any two. A slot beyond every window is `Junk` (whatever it held is
stale), so that reading or marking one would show. Where the code has
consecutive nil slots, pointers and lists, the model has a function from slots to
values, addresses `1..n` and a sequence.

**`Heap`.** `allocate` is a request (`NewObject`, `InternMiss`), then a collection if
`before_allocate` wants one, then `Create`, which links the object and enters a
new string in the table. A collection is one action per iteration of its loops:
`Trace` takes an object from the gray stack, `SweepMarked` and `SweepUnmarked` pass
the next link. `unswept` is the part of the list behind `link`; the model takes its
objects in any order, which includes the list's. The root markers are what they
mark, so a program step puts an object under a marker or takes it away; a
`TempRoot` is a push and a pop. `result` is the local variable that holds the
last object returned: by the contract in `heap.h` nobody uses it after the next
allocation unless it was rooted, and the model forgets it there. `size` is `object_bytes`
of each object: an object is counted when it is linked and again when a sweep passes it
(`live`), and in between `SetReferences` may let it grow without telling the heap, as a
scope does that gets variables, a function that gets code, and an array in `ArrayAppend`.
`grown` is a history variable, the growth that `bytes_` does not know of yet.
`Bytes` counts the cells that objects take up, so that the sum of their sizes is a
`Cardinality`, which the proofs can reason about.

**`TreeRoots`.** The tree engine is a set of C++ functions that call each other, so its
state is the C++ stack: `pending` has a frame for each call of `exec_node`, `eval_node`,
`call_function` or a native that has not returned, with its node, how far it is, its
scope, and what its destructors will undo. `point` is where the innermost one is, `value`
and `made` the local variable that holds what it was just given. An action goes from one
call of `eval`, `exec`, `heap_.allocate` or `intern` to the next; an error or a `return`
takes the frames off one at a time, with the roots of each. Which node comes
next, which variable it names, what an operator answers and whether it fails are left open, so the actions
stand for every program; `nodes` restricts a behaviour to some kinds of nodes so that TLC
can explore deep ones. An allocation is preceded by a collection or not, at once, as
`ManagedHeap` allows. A scope or an array is the set of what it holds: storing a value may
or may not lose another. Names are kept for good by `names_`, so scopes and functions do
not refer to theirs. Natives are no objects here: they are among the globals from the
start and refer to nothing.

`TreeRoots` and `Heap` meet in `ManagedHeap`: `Heap` implements it, and `KeepsContract` says
that the engine is a program it allows, with the engine's roots, and a value in its
hands, as the roots, and an object it was just given as `result`. A step of the engine that pushes some roots
and pops others is one `Regroup` of `ManagedHeap` and several steps of `Heap`'s program.

**`Engines`, `StackEngines`.** Everything up to the code is a function of the program, and a
program is the initial state: `Init` resolves it, folds it or not, compiles it, and
evaluates it with `TreeEngine`, whose result stays in `expected`. Then the machine of
`RegisterCode` or `StackCode` runs the code, one instruction a step, and calls the global `run` as
bench mode does. An operator of the passes has the name of the function it stands
for, and the overloads of `compile` are `CompileIf`, `CompileCall` and so on. The
compiler's state is a record passed from one operator to the next; the recursive
data the code walks (`Expr`, `Stmt`) is a record with a `node` field, and `Parts`
gives a node's parts in their order. An assertion of the compiler that fails is
remembered in `faults`, so that the model shows it where a release build would go on.
Strings are TLA+ strings, values are pairs of a type and contents, and identities
are numbers in the order of creation, which the engines do not share: so
`Shown` compares what is printed. Every node has a line of its own, given by the
resolver's walk, so that an error on a wrong line is seen. Left out: floats, the
`clock` native, and the parser, whose output the programs are. `RegisterVM` and
`RegisterCode` are two views of one machine: the first takes any code within the
compiler's discipline and looks at storage and collection, the second takes the code
of real programs and looks at values. In `StackCode` the variable `stack` is what lies
below `sp`: a read of anything above it, which the code may have left there, would
stop TLC with an error. Stack code is bytes in the program; a word of the model is an
instruction with its operand, and distances count words.

**`MachineCode`.** The interpreter of `RegisterCode` with its two hooks, and machine code
that works on the same registers and frames. One step of machine code is one word of
register code: the checks, then the writes. A check that fails, and a return, leave. What
a word computes is what the ARM64 instructions compute (`SDIV` gives 0 for a divisor 0, a
remainder is an `MSUB`, an index is compared as an unsigned number), not what `Operations`
says; that they agree is checked. `activations` is the part of the processor's stack
that belongs to machine code: a base and a word for each call. How code is handed over between threads
is the subject of `JitBackground`; here, in the background, it arrives at some later call.

**`RegisterMachine`.** `MachineCode` started with any code that fits together
(`WellFormed`), and what is claimed of it whatever the code computes. `Engines` starts the
same machine with the code of the compiler. The index of an array is compared as a 64-bit
unsigned number, so an array of more elements than an index that is a negative int would be
read at its wrong end; no memory holds such an array, and `LengthsFit` says so. It is what
the theorem about windows assumes and what `TypeOK` of `Engines` checks. Machine code that
returns to machine code closes no upvalue, while the interpreter closes those in the window
of the callee. There are none when every call's window is above the captured variables,
as the compiler places it (a callee is copied to a new temporary, `compiler_reg.cpp:484`):
`CallsAboveVariables`, which the refinement assumes and `TypeOK` checks too. The two walks of
the open list, of `close_upvalues` and of `capture_upvalue`, are one definition, in
`OpenUpvalues`, for this machine and for the stack machine: the upvalues at the head of the
list that are at or above a slot (`Leading`), and how many they are (`Walked`).

**`StackMachine`.** `StackCode` started with any code that fits together, and called from
outside any number of times. The stack machine tests nothing when it pushes, pops or reads a
slot, so what keeps it in bounds is in the code: whichever way a run comes to a word, its frame
has the same number of values on the stack there, and the slots that may be captured are the
same. That is the *shape* of a word. `Takes` and `Gives` say what each instruction does
to the height, `CapturedAfter` what it does to the captured slots, `Follows` where it goes on;
`WellFormed` asks that there is a shape for every word a run may be at, that these agree, that
a word takes only values of its own frame, and none that is captured unless it is the end of its
scope or of the frame. Nothing is said of what a word computes. `FewTemporaries` asks in
addition that no frame is ever higher than `kFrameSlots` and the slack together: the comment at
`vm_stack.h:54` says why programs are like that. `StackEngines` computes the shapes of
the compiler's code (`Shapes`: from the first word, onwards along `Follows`, until nothing
changes) and checks as `CompilesWellFormed` that they are such. The comparison of
strings needs their lengths; `LengthsFit` says that they are numbers, which TLA+ leaves open.

**Abstract specifications.** `CodeHandoff` has no threads, queue or memory order: a
function is interpreted, pending, compiled or refused. `BoxedVariables` has no
register file, no open list and no closing: capturing a variable gives it a
box, and everyone who captured it holds the same box. `ManagedHeap` has no marks, table or
counts: a string is looked up among the objects there are, and a collection is
one step that leaves what the roots lead to. `RegisterCode` is the abstract specification of
`MachineCode`. `TreeEngine` is the reference for the
compiled engines, as it is in the repository's own differential tests: each run of
`Engines` and `StackEngines` is a comparison with it.

## Runs and bounds

| Run | Question | Bounds |
|---|---|---|
| `jit_safety` | can any interleaving break the memory, queue or code invariants, or the handoff? | a script and three functions, one nested in another, one not compilable; threshold 2; two frames; both modes; about 1.5 million states |
| `jit_liveness` | is a wake-up ever lost? | a script and two functions, one not compilable; threshold 1; one waiting thread; about 66 thousand states |
| `vm_variables` | is a parameter captured in a called function one variable for everyone? | four objects, a depth of 2, one global, a function with a parameter that its inner function captures; about 245 thousand states |
| `vm_nested` | the same through two levels, with functions that capture themselves; does the collector meet a stale slot, does a call overrun an array, and is the list of open upvalues ever out of order? | four objects, windows of 2, 1 and 0 registers in a file of 4, so that a window ends below its caller's and the file before the depth; about 220 thousand states |
| `heap_safety` | does a collection, of any graph, by stress or by the threshold, free anything in use or leave the table wrong, and do garbage and memory stay bounded when objects grow after they were counted? | three objects of one or two bytes, two strings, two nested `TempRoot`s, threshold 1; about 7 million states |
| `heap_collection` | is a collection atomic to the program, and does it end? | three objects of one byte, one string, one marker, threshold 1; about 0.6 million states |
| `tree_roots` | does the tree engine ever lose what a pending call needs, or keep a root too long, and is it a client the heap's contract allows? | twelve sets of node kinds, each met by every program made of them; every allocation collecting, or any; four objects, one string, four nested C++ calls, two values on `stack_`; about 1.2 million states |
| `engines_register` | does evaluation order survive compilation, is what the resolver accepts within what the compiler can hold, do folding, fused pairs and the inline cache change what a program does, and does every compiled loop end? | 294 expressions, each a simple one or a subtraction with one on its right, where a value is printed, assigned to a local or an element, declared or returned: 1,470 programs; 64 accepted programs at the limits or next to them, which are 5 here and 255 in the code; and some 150 pieces of program, each in a function, in a loop of one and in a block of the script, with all eight settings; ints of 4 bits, a depth of 3; two calls; about 190 thousand states |
| `machine_code` | is every step of machine code a step of the interpreter, and does the JIT change what a program shows? | about 900 programs that call one function until it is hot: every operator and index on ints at the edges and on other values, branches and loops on every truth value, and functions that call themselves to the end, to a failed check, too deep, with a window beyond the file, with wrong arguments and after their name was assigned; at once and in the background, branches and self-calls with all eight settings; threshold 2, a depth of 4, a file of 23 registers, self-calls up to windows of 8; about 130 thousand states |
| `engines_nested` | (violation, see the findings) | one program |
| `stack_engine` | does the stack engine do what the tree-walker does, without a pointer to a slot that is gone or a push beyond the stack, and has its code shapes? | every program of `engines_register` and one that fills the stack, simplified or not; frames of 6 slots (5 locals, as the limit is 5), a depth of 3, 6 slots for temporaries, two calls; about 150 thousand states |
| `stack_depth` | (violation, see the findings) | one program |

`MaxRkConstant` is 1 and `ArrayBatch` is 2 in the runs of the engines, so that small
programs have constants that do not fit an operand and literals of several batches.
Ints of 4 bits overflow with one-digit literals.

Every run is exhaustive within its bounds. They are enough to make the cases that
matter happen: two functions in the queue with a third being compiled, one of
them garbage; a function made, forgotten and freed while queued; shutdown in
every state of the compiler thread; two closures that share a variable and
outlive its frame; a callee whose window ends below its caller's; both limits
of a call; cycles of up to three objects; a string freed and made again; several
collections, the threshold having moved. `Object`, `MaxFrames`, `Slots`, `Address` and `MaxTempRoots` are the only bounds the code does not
have or has far larger. Constants that bound something are named in the module.

Each property has a mutant: an operator next to the definition it changes,
commented "mutant", that TLC must find to violate the property. The
properties:

* `TypeOK` (every module): types, and that the hotness counter stops at the
  threshold; that a frame's registers in use stay inside its window; that no mark outlives
  a collection; that scopes of the tree engine lie in scopes, and are never values.
* `NoUseAfterFree`, `QueuedOnce`, `CodeReady`, `ShutdownComplete`: the safety
  of background compilation, one per hazard of the inventory.
* `ImplementsHandoff`: the refinement of `CodeHandoff`.
* `QueuedIsResolved`, `ShutdownTerminates`, `WaitReturns`: liveness.
* `NothingDangles`: every slot the collector marks and every pointer it follows is
  valid, also half way through a CLOSURE.
* `OpenUpvaluesOrdered`: the list `capture_upvalue` and `close_upvalues` search is
  strictly descending, complete, and points only at variables of live frames.
* `WithinLimits`: frames and registers are never overrun.
* `ImplementsBoxes`: the refinement of `BoxedVariables`.
* `NothingReachableFreed`: what the roots, the last result or the pending request
  lead to is allocated, at every step of a collection.
* `Interned`: the table and the strings there are correspond one to one.
* `GarbageBounded`: outside a sweep the byte count is short by exactly what objects have
  grown since they were last counted; memory exceeds the threshold by at most the
  newest object and that growth, and however much objects grow, there are no more of them than
  the threshold allows.
* `CollectionEnds`: marking ends, on cyclic graphs too.
* `ImplementsManagedHeap`: the refinement of `ManagedHeap`.
* `NothingLost`: the scopes, operands, arguments and values that pending calls still need,
  and all their objects refer to, are allocated.
* `RootsReleased`: the roots are exactly those of the calls that are pending, whichever way the others ended.
* `KeepsContract`: the tree engine does to the heap only what `ManagedHeap` allows a program
  to do: nothing it hands out, stores or roots was out of its reach.
* `SameOutcome`: whenever the register or the stack machine has stopped, its output, error and
  line, globals and result are the tree-walker's, whatever the switches.
* `CompilerAssertions`: no assertion of the register compiler fails.
* `CompilesWellFormed`: the code of the compiler is what the theorems about the machine ask of
  code. Of register code: no operand names a register outside the window of its function, a constant or an
  upvalue that is not there, and no jump or end leads out of the code. Of stack code: it has
  shapes, and few temporaries; and no assertion of the stack compiler fails.
* `InsideWindow`: the interpreter and machine code stay in the code they run, an
  instruction uses only registers inside its function's window, and the window is in the
  register file.
* `CacheNeverStale`: a filled cache slot belongs to a global access and holds that
  global's cell, across errors, calls and later definitions.
* `OpenUpvaluesOnStack`: an open upvalue of the stack machine points at a slot in use,
  and the list is strictly descending.
* `StackHasRoom`: the room that a call leaves is enough for the pushes of its frame, which
  are not checked.
* `OverflowAtLimit`: a call fails with a stack overflow only when as many calls as are
  allowed are active. It does not hold.
* `ActsAsInterpreter`: seen at the word it has reached, machine code takes the steps of an
  interpreter that has no JIT and no inline cache, and no others: a refinement, with
  `RegisterCode` as the abstract specification.
* `ActivationsMatchFrames`: the newest frames are those of the calls in machine code, with
  their windows, and all but the newest are past their CALL, which is what a nested
  bail-out leaves to the interpreter.
* `Halts`: every one of these programs ends, as it does in the tree-walker.

## Findings

**A register written too early.** `assign()` in `compiler_reg.cpp` computes the new value of a register variable
straight into its register. If that value is itself an assignment to a global, as in
`x = (nowhere = 5)`, the register is written before `SetGlobal`, and `SetGlobal` can
fail. The comment at `compiler_reg.cpp:334` says that a destination is written only
when the value is complete. Inside the failed run nobody can tell; but a closure
over `x` that was stored in a global survives it, and when the host calls the engine
again (`vm_reg_test.cpp:323`: "the engine is still usable after an error") it reads 5
where the tree-walker has 1. `engines_nested` shows it with one program. The command line
never calls an engine after an error, so no output of the tool is affected.

**A depth limit that is not the same in every engine.** A call in the stack machine needs
`kFrameSlots + kTempSlack` free slots (`vm_stack.cpp:204`). The stack has
`kMaxCallDepth` times `kFrameSlots` slots besides the slack, and a frame may use all of
its `kFrameSlots` for its locals and more for the operands that are pending while it
calls. So a deep recursion of a function with many locals overflows before it is
`kMaxCallDepth` calls deep, and the comment at `runtime/ops.h:90` says that the
10,001st call is the one that fails, in every engine. `stack_depth` shows it with the
smallest case: 3 calls of a function with 5 locals, where 3 calls and 5 locals are
allowed. At full size, a function of 255 locals (its parameter one of them) that calls
itself 9,999 times, 10,000 calls in all, prints its result with `--engine=tree` and
`--engine=register` and ends with `stack overflow` with `--engine=stack`. The
register machine asks for the callee's own window instead of 256 slots, and has the
slack for windows too.
The programs of `stack_engine` stay clear of this, except the one that never ends,
which must overflow in any engine.

## Fairness

`JitBackground!Fairness` is weak fairness of a thread that is inside the JIT's own
C++ code: the operating system keeps running it, and a thread that asks for the
mutex gets it. The sections are short, nobody holds the mutex while it waits, and
no thread takes it in a loop without giving it up. Nothing is assumed of the program (it may never call, collect or
exit), of a thread that may start to wait, or of spurious wake-ups. Two of the
properties assume that a test which holds the compiler thread
(`hold_for_testing`) lets it go in the end; shutting down does not need that.
`Heap!FairSpec` is weak fairness of `Collector`: `collect` is a plain loop that
nothing interrupts. The program may stop at any point outside it. The `Fairness` of
`Engines` and of `StackEngines` is weak fairness of the machine and of bench mode's loop,
which are both plain loops. It says
something only about the programs of `SamplePrograms`, which all end; `RegisterVM` has no
liveness properties, as a rung program may loop.

## Proofs

TLC decides the instances above; the TLA+ proof system shows the following for
every set of functions, every reference graph, every threshold, depth and number
of waiting threads. What is assumed of the constants is what kind of thing each of them
is: `ConstantsAssumption` of a module, and the named assumptions of `Operations`,
`StackCode`, `RegisterCode`, `MachineCode` and `RegisterMachine`.

* `JitBackgroundProofs` proves `TypeCorrect`, `NeverUsedAfterFree`,
  `AlwaysQueuedOnce`, `AlwaysCodeReady` and `AlwaysShutdownComplete`, all from
  `Invariant == Spec => []IInv`. `IInv` is the conjunction of `TypeOK` and five
  parts, each needed because the properties alone are not inductive:
  * `ThreadInv`: which states of the two threads go together (a thread that
    builds has a job; once `stopping` is set the queue is empty and stays so);
  * `CountInv`: a function that is still counted is below the threshold, so the
    counter has room for one more;
  * `StageInv`: `QueuedOnce`, and that a function whose status is still Cold has
    never been queued, which is why it can be queued now;
  * `CodeInv`: whatever is published is flushed, and the compiler thread's
    progress with the rest;
  * `HeapInv`: what is alive is closed under references and holds every root, and so is what a
    collection in progress has marked. Without the latter a sweep could free
    what was queued since marking.

  There is a lemma per part, with a step per action. Actions that change nothing a
  part mentions are dispatched by a lemma about what stays the same.
* `JitBackgroundProofs` also proves `Implements`: an initial state maps to an initial
  state of `CodeHandoff`, and a step from a state that satisfies `IInv` maps to
  an action of it or to a stutter.
* `HeapProofs` proves `TypeCorrect`, `NeverFreedInUse`, `AlwaysInterned`,
  `AlwaysGarbageBounded` and `Implements` for every set of addresses and strings, any number of
  markers and temporary roots, every threshold and any bound on the size of an object. Its `IInv` is the tri-colour
  argument: while marking, a black object (marked and not gray) refers only to
  marked ones, the roots are marked, and everything marked is reachable; when no
  gray object is left, the marked objects are therefore exactly what is reachable.
  While sweeping, `Survivors` (what was passed, and what is still marked) does not
  change. `RequestInv` says that the arguments of the object to be made stay reachable
  across the collection, and a string to be interned stays absent. `CountInv` says
  that `live` is the size of what the sweep has passed, that the count and the growth make up the memory
  in use, that there is room below the threshold after a collection, and that every object was
  counted with at least a byte. `CellsAdd` is what it rests on: an object takes up its size.
  `Implements`: starting a collection is the atomic collection of `ManagedHeap`, and
  all its other steps are stutters, because freeing an unreachable object does not
  change what is reachable.
* `RegisterVMProofs` proves `TypeCorrect`, `AlwaysOrdered`, `NeverDangles` and
  `AlwaysWithinLimits` for every set of functions and captures, every frame size,
  register file and depth limit. None of these is inductive alone: `NothingDangles`
  needs the order of the list (to know that what a return or the end of a scope
  closes is all that points there) and the list needs valid upvalues. `IInv` joins
  them with three parts:
  * `FrameInv`: a frame's window starts where its caller's registers in use end, so
    closing at or above a base closes exactly that frame's variables; and the number
    of frames stays below the limit that `call_value` tests;
  * `ClosureInv`: a closure's upvalues are upvalues, and as many as its function
    captures unless it is the one being built, so a capture through the running closure finds
    its upvalue;
  * `BuildingInv`: the closure being built is in the newest register in use, which is
    why a collection between two captures keeps it.

  `PassedPrefix` and `WalkStops` say what a walk down the list finds; `Closing` and
  `OrderedAfterClosing` are shared by the three ways a frame's variables end;
  `EntryHolds` by the two ways a first frame begins; `CaptureHolds` by the three kinds
  of capture. There is a lemma per action.
* `RegisterVMProofs` also proves `Implements`, that `RegisterVM` implements
  `BoxedVariables`, for every value of the constants. It needs one more invariant,
  `StackedInv` (theorem `WindowsApart`): the registers in use of two frames do not
  overlap, and a frame that waits for a call holds the callee in a temporary, which is
  why the result it gets there can overwrite no variable. The proof goes through two
  views of a state:
  * `Box`, the box of each slot, is all that is needed of the list: `BoxFacts` follows
    from its order (`OneBox`: no slot has two). A step is then a change of `Box`:
    none (`SameBox`), one slot (`NewUpvalueMaps`), or the slots at or above one
    (`ClosingMaps`);
  * `Act`, the activation a window makes, is a function of base, length, `Box` and
    registers. `ActSame` says when two windows make the same one, and `ActStored`,
    `ActDropped`, `ActBoxed` and `ActEmpty` what a store, the end of registers in use, a
    capture and a call do to it. `BelowUnchanged` disposes of the frames below.

  There is a lemma per action (`...Maps`), which names the step of `BoxedVariables` it is:
  `DeclareLocal` is a stutter, `FreeTemporaries` and `EndScope` are `Drop`, a collection is
  `Free` of what it freed, and the others are the actions of the same name.
* `TreeRootsProofs` proves `TypeCorrect`, `NeverLost` and `AlwaysReleased` for every
  program, every set of addresses and strings, and calls and expressions nested to any
  depth. Neither property is inductive: what a call still needs is rooted only if its
  roots are where its destructors think they are, and no object is lost only if those
  are. `IInv` has three parts:
  * `ContentsInv`: what every variable and object has is allocated and of the right kind;
  * `FramesInv`: the roots of a call begin where those of the calls outside it end
    (`Owns`, `BelowAll`), its TempRoots are its operands, and its scope is among the active
    ones; a body is run for a pending call, and a `return` is inside a body (`InPlace`);
  * `HandsInv`: at most one thing is in C++ locals: a value, an object just made, or an
    object asked for, which refers only to roots and to what a root's closure is.

  `FramesStep` is what a call, its next stage, an item on `stack_` and a return have in
  common: the calls below some height stay, and at most one is on top. `CollectHolds` uses
  that what is reachable is closed (`ReachClosed`). There is a lemma per kind of step
  (`StepsHold`, `EndsHold`, `AsksHold`, `InternHolds`) and one per action that does more.
  `Refines`, in the same module: a step of the engine is a collection, an
  allocation, an interning, a store in one object, or a change of what it holds, in the
  terms of `ManagedHeap`. With `HeapProofs`, which proves that `Heap` keeps its
  side of the same contract, the two sides of it are proved.
* `RegisterMachineProofs` proves `NeverStale` and `AlwaysMatch`: that `CacheNeverStale` and
  `ActivationsMatchFrames` hold of the register machine and its machine code, with every
  choice of JIT and inline cache, for all code that is `WellFormed`. That is a static
  condition, on each function by itself: operands name what is there, a fused word is followed by its
  partner, no jump or end leads out of the code. `Engines` checks as `CompilesWellFormed`
  that the code of the compiler is such.
  * A cell of the inline cache is filled only by a word that has just found its global
    (`CellFilled`), and globals never go away. `CacheInv` adds to the property that the
    cache has a cell for each word of each function.
  * A frame of machine code and an activation come and go together, but machine code
    that leaves gives up all its activations at once and keeps the frames. `StackInv` says
    that both are sequences of records and that there are no more activations than
    frames. There is a lemma for each way to change them (`InterpretMatches`,
    `ProceedMatches`, `ExitMatches`, `SelfCallMatches`, `ReturnMatches`,
    `CallEntryMatches`); `FramesAfter` is what those of the interpreter have in common.
* `RegisterMachineProofs` also proves `StaysInWindow`: for the same code, and as long as
  `LengthsFit`, the interpreter and machine code never leave the function they run or its window
  (`InsideWindow`). The condition on the code is static, and what can go wrong is dynamic: the
  function that runs is the one a call found in a register, fused words and closures skip
  the words after them, and a window begins where the caller's word says. So the
  invariant, `SafeInv`, says of everything that the machine holds that it is what the next
  instruction takes it for:
  * `ValuesInv`: registers, globals, elements of arrays and upvalues hold values, an array
    or function that a value refers to exists, a closure has an upvalue for every name that
    its function captures, and the upvalues of the open list exist;
  * `PlacesInv`: a frame is at a word that may run (`Starts`), never at one that only names
    what a closure captures, and its window fits the register file; the calls in machine
    code are at such words too, and the window of each begins just above the register
    that its caller's word names;
  * `CompiledInv`: what was compiled passed the whitelist with the globals that are now
    defined, which is why machine code meets no word it was not made for;
  * `CellsInv`: with the inline cache, every function that can be called has its cells;
  * the invariants of `NeverStale` and `AlwaysMatch`.

  `After` is what a step has to leave. There is a lemma for each way an instruction can end
  (`SetFits`, `TakeFits`, `ContinueFits`, `FailAtFits`, `ReturnFits`), which those of the
  instructions share; machine code has its own (`StayFits`, `ExitFits`). `BodyFits` serves
  the plain instruction and the superinstruction that contains it. `TruncatedInts` and
  `UnsignedBelow` say what division and the comparison of an index do to ints of any width.
  What a Closure instruction captured is a recursive function of its words:
  `CapturingExists` finds it by counting up to their number (`CountUp`, from the library's
  theorem that `<` is well-founded), and `WordsCaptured` shows the list and the captures
  after each word. TLC finds `SafeInv` true in every state of `machine_code`'s instance.

  `AlwaysActsAsInterpreter`, in the same module, is the refinement: as long as `LengthsFit`
  and `CallsAboveVariables`, every step of the register machine with its machine code is, seen
  through `Interpreted`, a step of an interpreter without a JIT and without an inline cache, or
  leaves it where it is (`ActsAsInterpreter`). `Interpreted` moves the newest frame to the
  word that machine code has reached. Code with superinstructions is left out, as in the property.
  * A step of the interpreter is its own (`InterpretActsAlike`, one lemma per group of
    instructions, over `SameNow`: both have the same frame, word and registers). Only an
    access to a global differs, and there `CacheInv` says that the cell is the global's.
  * `ActsAlike` has a case per kind of step of machine code. `CodeDispatches` has both at
    the same word. What a word computes on the processor is the interpreter's effect once its checks
    passed: `MachineArithmeticActsAlike` rests on `WrapSame` and `TruncatedInts`, loads on
    `CompiledInv`, an index on `UnsignedBelow`. `SelfCallActsAlike` finds that the callee is the
    function itself and that the interpreter's checks of a call pass too.
  * `ReturnToCallerActsAlike` needs that the interpreter closes nothing when it returns. It
    looks only at the head of the open list, so that its order matters: `OpenInv` says that the list is
    strictly falling, and that no open upvalue is in the window of a call in machine code.
    It is inductive because a capture keeps the order (`CapturedFalling`), no word of
    machine code captures, and a call begins above what is captured.
  * An exit and a nested bail-out leave the interpreter where it is (`ExitStands`).

  TLC finds `OpenInv` true on the instances of `machine_code`, `engines_nested` and
  `engines_register`.
* `StackMachineProofs` proves `AlwaysOnStack`, `AlwaysInFrame`, `AlwaysHasRoom` and
  `TypeCorrect` of the stack machine, for all code that is `WellFormed` (`AlwaysHasRoom` for
  code that has `FewTemporaries`), any int width, depth limit, frame size and slack, and any
  sequence of calls from outside, after errors too. A behaviour of `StackEngines` whose code is
  such is one of `MachineSpec`, so the theorems hold of the runs there. The properties are not inductive: that a pop
  takes a value of its own frame depends on the word that the frame is at, on those that its
  callers are at, and on which closure was called. `Safe(shapes)` has five parts:
  * `Shaped`: the code has these shapes (the code never changes, so one choice of shapes does
    for a behaviour, and `SafeInv` is that there is one);
  * `StatusInv`: a machine that stopped is empty, one that runs has frames, and only
    the script's frame does not count as a call;
  * `ValuesInv`: what the variables hold are values, what a value refers to exists, a closure
    has the upvalues its function names, and the open list is by strictly falling location and
    has every upvalue that is open;
  * `FramesFit`: every frame is at a word that has a shape, its height is that of the
    shape, and there it meets the slot where the next frame begins: the callee is slot 0
    of its own frame and the place of the result in its caller's;
  * `OpenFits`: each open upvalue is on a slot of some frame that the shape of that frame's word
    says may be captured, below the frames that it called.

  The last part is what makes `AlwaysOnStack` hold: a word that takes a slot off
  the stack takes none that may be captured, so that no open upvalue is on it, unless the word closes it
  first. `Here` and `TakenHere` are what the invariant says of the running frame and its word. Instructions
  that leave a stack of another height share `MovesOn`, those that fail `FailSafe`;
  `CallClosureSafe`, `ReturnSafe`, `CloseUpvalueSafe` and `ClosureSafe` are the ones that move
  frames or upvalues. What a Closure instruction captures is a recursive function of its words, as in the register
  machine: `CapturingExists` counts up to their number, and one captured slot (`SlotCaptured`) is
  an insertion that `ListGrown` describes. `AlwaysHasRoom` adds that
  the height of a frame is that of a shape: the check of a call left `kFrameSlots` and the slack above the
  base of its frame, and by `Low` no frame is higher.
  TLC finds the parts of `Safe` true in every state of `stack_engine`'s instance.
* `QueueTheorems` and `ValueTheorems` have the facts about sequences, values and the open
  list that these rest on.

Only model-checked: liveness, which needs fairness and `ENABLED`, out of the
prover's reach; the compilers, the passes before them and the tree engine, which are
recursive over the tree, and with them that the engines agree (`SameOutcome`), that no
assertion of a compiler fails (`CompilerAssertions`), that compiled code is `WellFormed` and has
`FewTemporaries` (`CompilesWellFormed`), and that it calls above its variables
(`CallsAboveVariables`); and the `TypeOK` of `Engines`, of which `CallsAboveVariables` is a part.

## Not modelled

The lexer, parser, disassembler, dumps and benchmarks are text in and text out. The
ARM64 encoder is bit patterns against a manual. The other rows of the inventory that
no module covers are in the plan. In the modules above: in `JitBackground`, log lines,
timing statistics and scheduling classes; in
`MachineCode`, the choice of ARM64 instructions and registers, and the probes for the layout of C++ objects; in
`RegisterVM`, arithmetic and jumps, natives, functions as heap objects and elements of
arrays; in the modules of `Engines` and `StackEngines`, floats, the clock, allocation and
collection, and the errors for a function too large for its operand fields; in `Heap`,
how `object_bytes` adds up the parts of an object, statistics and the destructor; in `TreeRoots`, what programs compute, which is
`TreeEngine`'s part, and the natives' objects. The rooting discipline of the two bytecode compilers and of the
stack machine is not modelled.

## Plan

In this order, the most important behaviour first.

1. `CodeHandoff`, `JitBackground` and their theorems. *Done.*
2. `BoxedVariables`, `RegisterVM`, its safety theorems and the refinement as a theorem. *Done.*
3. `ManagedHeap`, `Heap` and their theorems. *Done.* `TreeRoots`, and that it is a client of `ManagedHeap`.
   *Done;* next to it: what is rooted while compiling (functions, constants, names).
4. `Operations` to `Engines`: resolver, folding, register compiler and machine against
   the tree engine. *Done;* to add: arithmetic and the printing of cyclic arrays
   against reference definitions.
5. `StackCompiler`, `StackCode`: the third engine. *Done,* with `StackMachine` and its
   theorems; to add: its roots under the collector, as a second implementation of
   `BoxedVariables`.
6. `MachineCode`: self-calls, depth and register checks, nested bail-outs; its
   frames implement the interpreter's. *Done.*
7. The parser's limits (nesting and chains), over token sequences.
