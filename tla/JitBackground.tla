--------------------------- MODULE JitBackground ---------------------------
(***************************************************************************)
(* The baseline JIT and its compiler thread: src/src/jit/jit.cpp, with the *)
(* hooks of the register VM that call it (jit_count, jit_frame_entry,      *)
(* mark_roots and the engine's destructor in src/src/vm_reg.cpp).          *)
(*                                                                         *)
(* Three kinds of thread share the state: the engine's thread, which runs  *)
(* the program, collects garbage and shuts the JIT down; the compiler      *)
(* thread (worker_main); and tools or tests that wait for the compiler     *)
(* (wait_until_idle).  A critical section of Jit::mutex_ is one action;    *)
(* what the code does before taking the mutex or after releasing it (a     *)
(* notify, the publishing store, the join) is an action of its own.        *)
(***************************************************************************)
EXTENDS Naturals, Sequences, Functions

CONSTANTS
    Function,      \* every ObjFunction the register compiler made
    Script,        \* the top-level script's function, the one without a name
    NoFunction,    \* a null ObjFunction*
    Refs,          \* Refs[f]: the functions among f's constants
    Compilable,    \* the functions inside the whitelist whose code can be emitted
    Threshold,     \* --jit-threshold
    MaxFrames,     \* bound: activations at once
    Modes,         \* which of background (TRUE) and synchronous (FALSE) to explore
    Waiter         \* threads that may call wait_until_idle

ASSUME ConstantsAssumption ==
    /\ Script \in Function
    /\ NoFunction \notin Function
    /\ Refs \in [Function -> SUBSET Function]
    /\ Compilable \subseteq Function
    /\ Threshold \in Nat
    /\ MaxFrames \in Nat
    /\ Modes \subseteq BOOLEAN

VARIABLES
    background,    \* Jit::background_, fixed by the constructor
    \* The heap, seen from the functions in it.
    alive,         \* the functions not freed yet
    rooted,        \* the functions a register or a global holds a closure of
    frames,        \* the functions of the VM's call frames, oldest first
    marked,        \* what the collection in progress has marked
    \* Fields of ObjFunction.
    hotness,       \* jit_hotness
    status,        \* jit_status
    published,     \* the functions whose jit_entry is not null
    \* Fields of Jit guarded by mutex_.
    queue, compiling, stopping, held,
    compiled,      \* the functions record_locked counted as compiled (buffers_)
    rejected,      \* the functions it counted as rejected
    \* Memory and threads.
    code,          \* the function's ExecBuffer as another core would fetch it
    engine,        \* where the engine's thread is
    resume,        \* where it goes on once jit_count returns
    dropped,       \* shutdown's local vector of cancelled functions
    worker,        \* where the compiler thread is
    waiter         \* where each waiting thread is

functionVars == <<hotness, status>>
heapVars == <<alive, rooted, frames, marked>>
lockedVars == <<queue, compiling, stopping, held, compiled, rejected>>
codeVars == <<published, code>>
vars == <<background, heapVars, functionVars, lockedVars, codeVars,
          engine, resume, dropped, worker, waiter>>

-----------------------------------------------------------------------------
(* The heap. *)

\* Everything the gray stack reaches from a set of marked functions: the
\* smallest set that holds it and the constants of its members.
Reach(S) ==
    {f \in Function :
        \A T \in SUBSET Function :
            (S \subseteq T /\ \A g \in T : Refs[g] \subseteq T) => f \in T}

\* Jit::mark_pending, run by the engine's root marker under mutex_.
Pending ==
    Range(queue) \cup (IF compiling = NoFunction THEN {} ELSE {compiling})

\* Mutant: mark_pending forgets the function being compiled.
Roots_QueueOnly == rooted \cup Range(frames) \cup Range(queue)

\* RegisterEngine::mark_roots.
Roots == rooted \cup Range(frames) \cup Pending

TopFrame == frames[Len(frames)]

-----------------------------------------------------------------------------
(* Condition variables: a notify moves the sleeping threads to the check   *)
(* of their predicate; a thread that is not asleep misses it.              *)

NotifyWorker == worker' = IF worker = "asleep" THEN "check" ELSE worker

NotifyIdle ==
    waiter' = [w \in Waiter |->
                  IF waiter[w] = "asleep" THEN "check" ELSE waiter[w]]

-----------------------------------------------------------------------------

Init ==
    /\ background \in Modes
    /\ alive = Function
    /\ rooted = {}
    /\ frames = <<Script>>
    /\ marked = {}
    /\ hotness = [f \in Function |-> 0]
    /\ status = [f \in Function |-> "Cold"]
    /\ published = {}
    /\ queue = <<>>
    /\ compiling = NoFunction
    /\ stopping = FALSE
    /\ held = FALSE
    /\ compiled = {}
    /\ rejected = {}
    /\ code = [f \in Function |-> "none"]
    /\ engine = "vm"
    /\ resume = "vm"
    /\ dropped = {}
    /\ worker = IF background THEN "check" ELSE "exited"
    /\ waiter = [w \in Waiter |-> "away"]

-----------------------------------------------------------------------------
(* The engine's thread: counting, queueing, compiling at once.             *)

\* Mutant: a function that left Cold is counted again.
Counts_Always(f) == f # Script

\* jit_count stops counting a function that left Cold, and never counts the
\* nameless script.
Counts(f) == status[f] = "Cold" /\ f # Script

\* Below the threshold, jit_count only bumps the counter.
CountOnly(f, then) ==
    /\ ~Counts(f) \/ hotness[f] + 1 < Threshold
    /\ hotness' = IF Counts(f) THEN [hotness EXCEPT ![f] = @ + 1] ELSE hotness
    /\ engine' = then
    /\ UNCHANGED <<status, resume, compiled, rejected, codeVars>>

\* Mutant: the function is queued and stays Cold.
CountAndQueue_StillCold(f, then) ==
    /\ background
    /\ Counts(f) /\ hotness[f] + 1 >= Threshold
    /\ hotness' = [hotness EXCEPT ![f] = 0]
    /\ engine' = "enqueue"
    /\ resume' = then
    /\ UNCHANGED <<status, compiled, rejected, codeVars>>

\* At the threshold in background mode: the status leaves Cold before
\* Jit::enqueue takes the mutex.  (The address of the global that names f is
\* looked up here too; whether there is one only decides Compilable.)
CountAndQueue(f, then) ==
    /\ background
    /\ Counts(f) /\ hotness[f] + 1 >= Threshold
    /\ hotness' = [hotness EXCEPT ![f] = @ + 1]
    /\ status' = [status EXCEPT ![f] = "Queued"]
    /\ engine' = "enqueue"
    /\ resume' = then
    /\ UNCHANGED <<compiled, rejected, codeVars>>

\* At the threshold in synchronous mode: Jit::compile on this thread, which
\* builds, records and publishes before it returns.
CountAndCompile(f, then) ==
    /\ ~background
    /\ Counts(f) /\ hotness[f] + 1 >= Threshold
    /\ hotness' = [hotness EXCEPT ![f] = @ + 1]
    /\ IF f \in Compilable
       THEN /\ code' = [code EXCEPT ![f] = "flushed"]
            /\ published' = published \cup {f}
            /\ compiled' = compiled \cup {f}
            /\ status' = [status EXCEPT ![f] = "Compiled"]
            /\ UNCHANGED rejected
       ELSE /\ rejected' = rejected \cup {f}
            /\ status' = [status EXCEPT ![f] = "Rejected"]
            /\ UNCHANGED <<compiled, codeVars>>
    /\ engine' = then
    /\ UNCHANGED resume

\* ... and the process aborts if the operating system refuses the memory.
CountAndAbort(f) ==
    /\ ~background
    /\ Counts(f) /\ hotness[f] + 1 >= Threshold
    /\ f \in Compilable
    /\ hotness' = [hotness EXCEPT ![f] = @ + 1]
    /\ engine' = "aborted"
    /\ UNCHANGED <<status, resume, compiled, rejected, codeVars>>

JitCount(f, then) ==
    /\ \/ CountOnly(f, then)
       \/ CountAndQueue(f, then)
       \/ CountAndCompile(f, then)
       \/ CountAndAbort(f)
    /\ UNCHANGED <<queue, compiling, stopping, held, dropped, worker, waiter>>

\* A CALL of a closure the program holds, or call_global: the frame is
\* pushed, and jit_frame_entry counts the call before it looks for code.
Call(f) ==
    /\ engine = "vm"
    /\ f \in rooted
    /\ Len(frames) < MaxFrames
    /\ frames' = Append(frames, f)
    /\ JitCount(f, "entry")
    /\ UNCHANGED <<background, alive, rooted, marked>>

\* A backward JUMP in the newest frame counts too, and stays in the VM.
BackEdge ==
    /\ engine = "vm"
    /\ frames # <<>>
    /\ JitCount(TopFrame, "vm")
    /\ UNCHANGED <<background, heapVars>>

\* Jit::enqueue, the critical section.
Enqueue ==
    /\ engine = "enqueue"
    /\ IF stopping
       THEN engine' = resume /\ UNCHANGED queue
       ELSE engine' = "notify" /\ queue' = Append(queue, TopFrame)
    /\ UNCHANGED <<background, heapVars, functionVars, compiling, stopping, held,
                   compiled, rejected, codeVars, resume, dropped, worker, waiter>>

\* Mutant: the compiler thread is not notified.
NotifyQueued_Silent ==
    /\ engine = "notify"
    /\ engine' = resume
    /\ UNCHANGED <<background, heapVars, functionVars, lockedVars, codeVars,
                   resume, dropped, worker, waiter>>

\* Jit::enqueue, work_ready_.notify_one() after the mutex is released.
NotifyQueued ==
    /\ engine = "notify"
    /\ NotifyWorker
    /\ engine' = resume
    /\ UNCHANGED <<background, heapVars, functionVars, lockedVars, codeVars,
                   resume, dropped, waiter>>

-----------------------------------------------------------------------------
(* The engine's thread: entering machine code.                             *)

\* Mutant: a function that was handed over is taken for compiled.
LoadEntry_ByStatus ==
    /\ engine = "entry"
    /\ engine' = IF status[TopFrame] \in {"Queued", "Compiled"} THEN "code" ELSE "vm"
    /\ UNCHANGED <<background, heapVars, functionVars, lockedVars, codeVars,
                   resume, dropped, worker, waiter>>

\* The acquire load of jit_entry in jit_frame_entry.
LoadEntry ==
    /\ engine = "entry"
    /\ engine' = IF TopFrame \notin published THEN "vm"
                 ELSE IF status[TopFrame] # "Compiled" THEN "adopt" ELSE "code"
    /\ UNCHANGED <<background, heapVars, functionVars, lockedVars, codeVars,
                   resume, dropped, worker, waiter>>

\* Jit::adopt: the core discards what it fetched early, once per function.
\* (It also aborts if the first word of the code is 0, which generated code
\* never starts with: see CodeReady.)
Adopt ==
    /\ engine = "adopt"
    /\ status' = [status EXCEPT ![TopFrame] = "Compiled"]
    /\ engine' = "code"
    /\ UNCHANGED <<background, heapVars, hotness, lockedVars, codeVars,
                   resume, dropped, worker, waiter>>

\* The machine code returns to the VM: at a RETURN, or by a bail-out.
LeaveCode ==
    /\ engine = "code"
    /\ engine' = "vm"
    /\ UNCHANGED <<background, heapVars, functionVars, lockedVars, codeVars,
                   resume, dropped, worker, waiter>>

-----------------------------------------------------------------------------
(* The engine's thread: the program, and the collector.                    *)

\* RETURN pops the newest frame.
Return ==
    /\ engine = "vm"
    /\ frames # <<>>
    /\ frames' = SubSeq(frames, 1, Len(frames) - 1)
    /\ UNCHANGED <<background, alive, rooted, marked, functionVars, lockedVars, codeVars,
                   engine, resume, dropped, worker, waiter>>

\* A runtime error: take_error drops every frame.
TakeError ==
    /\ engine = "vm"
    /\ frames # <<>>
    /\ frames' = <<>>
    /\ UNCHANGED <<background, alive, rooted, marked, functionVars, lockedVars, codeVars,
                   engine, resume, dropped, worker, waiter>>

\* CLOSURE makes a closure of a function among the running one's constants.
MakeClosure(f) ==
    /\ engine = "vm"
    /\ frames # <<>>
    /\ f \in Refs[TopFrame]
    /\ rooted' = rooted \cup {f}
    /\ UNCHANGED <<background, alive, frames, marked, functionVars, lockedVars, codeVars,
                   engine, resume, dropped, worker, waiter>>

\* The program overwrites the last register or global that held a closure.
Forget(f) ==
    /\ engine = "vm"
    /\ f \in rooted
    /\ rooted' = rooted \ {f}
    /\ UNCHANGED <<background, alive, frames, marked, functionVars, lockedVars, codeVars,
                   engine, resume, dropped, worker, waiter>>

\* Heap::collect, up to the empty gray stack.  mark_pending reads the queue
\* at one moment, under mutex_; the compiler thread goes on meanwhile.
Mark ==
    /\ engine = "vm"
    /\ marked' = Reach(Roots)
    /\ engine' = "sweep"
    /\ UNCHANGED <<background, alive, rooted, frames, functionVars, lockedVars, codeVars,
                   resume, dropped, worker, waiter>>

\* Heap::sweep.
Sweep ==
    /\ engine = "sweep"
    /\ alive' = alive \cap marked
    /\ marked' = {}
    /\ engine' = "vm"
    /\ UNCHANGED <<background, rooted, frames, functionVars, lockedVars, codeVars,
                   resume, dropped, worker, waiter>>

-----------------------------------------------------------------------------
(* The engine's thread: hold_for_testing, shutdown and the destructors.    *)

\* Jit::hold_for_testing(hold), the critical section, then the notify.
Hold(hold) ==
    /\ engine = "vm"
    /\ background
    /\ hold # held
    /\ held' = hold
    /\ engine' = "holdNotify"
    /\ UNCHANGED <<background, heapVars, functionVars, queue, compiling, stopping,
                   compiled, rejected, codeVars, resume, dropped, worker, waiter>>

NotifyHold ==
    /\ engine = "holdNotify"
    /\ NotifyWorker
    /\ engine' = "vm"
    /\ UNCHANGED <<background, heapVars, functionVars, lockedVars, codeVars,
                   resume, dropped, waiter>>

\* Mutant: what is still queued is listed and left in the queue.
Shutdown_KeepsQueue ==
    /\ engine = "vm"
    /\ frames = <<>>
    /\ IF background
       THEN /\ stopping' = TRUE
            /\ dropped' = Range(queue)
            /\ engine' = "stopNotify"
       ELSE engine' = "logged" /\ UNCHANGED <<stopping, dropped>>
    /\ UNCHANGED <<background, heapVars, functionVars, compiling, held, queue,
                   compiled, rejected, codeVars, resume, worker, waiter>>

\* ~RegisterEngine calls Jit::shutdown; without a compiler thread it is over
\* at once (so is the second call, ~Jit's, after the join), else the queue is
\* emptied and the flag raised under the mutex.
Shutdown ==
    /\ engine = "vm"
    /\ frames = <<>>
    /\ IF background
       THEN /\ stopping' = TRUE
            /\ dropped' = Range(queue)
            /\ queue' = <<>>
            /\ engine' = "stopNotify"
       ELSE engine' = "logged" /\ UNCHANGED <<stopping, dropped, queue>>
    /\ UNCHANGED <<background, heapVars, functionVars, compiling, held,
                   compiled, rejected, codeVars, resume, worker, waiter>>

\* Mutant: a sleeping compiler thread is not told to stop.
NotifyStop_Silent ==
    /\ engine = "stopNotify"
    /\ engine' = "join"
    /\ UNCHANGED <<background, heapVars, functionVars, lockedVars, codeVars,
                   resume, dropped, worker, waiter>>

NotifyStop ==
    /\ engine = "stopNotify"
    /\ NotifyWorker
    /\ engine' = "join"
    /\ UNCHANGED <<background, heapVars, functionVars, lockedVars, codeVars,
                   resume, dropped, waiter>>

\* Mutant: the threads that wait are not told that the queue was dropped.
Join_Silent ==
    /\ engine = "join"
    /\ worker = "exited"
    /\ engine' = "joined"
    /\ UNCHANGED <<background, heapVars, functionVars, lockedVars, codeVars,
                   resume, dropped, worker, waiter>>

\* worker_.join(), then idle_.notify_all().
Join ==
    /\ engine = "join"
    /\ worker = "exited"
    /\ NotifyIdle
    /\ engine' = "joined"
    /\ UNCHANGED <<background, heapVars, functionVars, lockedVars, codeVars,
                   resume, dropped, worker>>

\* The cancelled functions are logged by name, which reads them.
LogCancelled ==
    /\ engine = "joined"
    /\ engine' = "logged"
    /\ UNCHANGED <<background, heapVars, functionVars, lockedVars, codeVars,
                   resume, dropped, worker, waiter>>

\* heap_.remove_root_marker: from here no root keeps a function alive.
RemoveRootMarker ==
    /\ engine = "logged"
    /\ engine' = "unrooted"
    /\ UNCHANGED <<background, heapVars, functionVars, lockedVars, codeVars,
                   resume, dropped, worker, waiter>>

\* ~Jit unmaps the code and the heap's owner frees the rest.  A caller of
\* wait_until_idle must have returned before it lets the JIT go.
Destroy ==
    /\ engine = "unrooted"
    /\ \A w \in Waiter : waiter[w] = "away"
    /\ code' = [f \in Function |-> "none"]
    /\ alive' = {}
    /\ rooted' = {}
    /\ engine' = "done"
    /\ UNCHANGED <<background, frames, marked, functionVars, lockedVars, published,
                   resume, dropped, worker, waiter>>

-----------------------------------------------------------------------------
(* The compiler thread: worker_main.                                       *)

\* The predicate of work_ready_.wait holds for shutdown: the thread ends.
WorkerStop ==
    /\ worker = "check"
    /\ stopping
    /\ worker' = "exited"
    /\ UNCHANGED <<background, heapVars, functionVars, lockedVars, codeVars,
                   engine, resume, dropped, waiter>>

\* It holds for a job: the job moves from queue_ to compiling_.
WorkerTake ==
    /\ worker = "check"
    /\ ~stopping /\ ~held /\ queue # <<>>
    /\ queue' = Tail(queue)
    /\ compiling' = Head(queue)
    /\ worker' = "build"
    /\ UNCHANGED <<background, heapVars, functionVars, stopping, held, compiled, rejected,
                   codeVars, engine, resume, dropped, waiter>>

\* It does not hold: the thread sleeps and releases the mutex in one step.
WorkerSleep ==
    /\ worker = "check"
    /\ ~stopping /\ (held \/ queue = <<>>)
    /\ worker' = "asleep"
    /\ UNCHANGED <<background, heapVars, functionVars, lockedVars, codeVars,
                   engine, resume, dropped, waiter>>

\* A condition variable may wake by itself.
WorkerWakes ==
    /\ worker = "asleep"
    /\ worker' = "check"
    /\ UNCHANGED <<background, heapVars, functionVars, lockedVars, codeVars,
                   engine, resume, dropped, waiter>>

\* Mutant: the instruction caches are not flushed.
WorkerBuild_NoFlush ==
    /\ worker = "build"
    /\ IF compiling \in Compilable
       THEN /\ code' = [code EXCEPT ![compiling] = "copied"]
            /\ worker' = "publish"
       ELSE worker' = "record" /\ UNCHANGED code
    /\ UNCHANGED <<background, heapVars, functionVars, lockedVars, published,
                   engine, resume, dropped, waiter>>

\* Jit::build outside the mutex: the whitelist and the generator (either may
\* refuse), and the words copied into a fresh ExecBuffer.
WorkerBuild ==
    /\ worker = "build"
    /\ IF compiling \in Compilable
       THEN /\ code' = [code EXCEPT ![compiling] = "copied"]
            /\ worker' = "flush"
       ELSE worker' = "record" /\ UNCHANGED code
    /\ UNCHANGED <<background, heapVars, functionVars, lockedVars, published,
                   engine, resume, dropped, waiter>>

\* The operating system refuses executable memory: the process aborts.
WorkerAbort ==
    /\ worker = "build"
    /\ compiling \in Compilable
    /\ worker' = "aborted"
    /\ engine' = "aborted"
    /\ UNCHANGED <<background, heapVars, functionVars, lockedVars, codeVars,
                   resume, dropped, waiter>>

\* ExecBuffer::write, step 4: the instruction caches forget the old bytes.
WorkerFlush ==
    /\ worker = "flush"
    /\ code' = [code EXCEPT ![compiling] = "flushed"]
    /\ worker' = "publish"
    /\ UNCHANGED <<background, heapVars, functionVars, lockedVars, published,
                   engine, resume, dropped, waiter>>

\* The release store of jit_entry, before the mutex is taken.
WorkerPublish ==
    /\ worker = "publish"
    /\ published' = published \cup {compiling}
    /\ worker' = "record"
    /\ UNCHANGED <<background, heapVars, functionVars, lockedVars, code,
                   engine, resume, dropped, waiter>>

\* record_locked, compiling_ = nullptr and idle_.notify_all, in one section.
\* (With a log the mutex is released once more before the next check, which
\* is an action of its own anyway.)
WorkerRecord ==
    /\ worker = "record"
    /\ IF compiling \in published
       THEN compiled' = compiled \cup {compiling} /\ UNCHANGED rejected
       ELSE rejected' = rejected \cup {compiling} /\ UNCHANGED compiled
    /\ compiling' = NoFunction
    /\ IF queue = <<>> THEN NotifyIdle ELSE UNCHANGED waiter
    /\ worker' = "check"
    /\ UNCHANGED <<background, heapVars, functionVars, queue, stopping, held, codeVars,
                   engine, resume, dropped>>

-----------------------------------------------------------------------------
(* A thread that calls wait_until_idle.                                    *)

Idle == (queue = <<>> \/ stopping) /\ compiling = NoFunction

\* Some thread calls it while the JIT is there.
StartWait(w) ==
    /\ background
    /\ waiter[w] = "away"
    /\ engine \notin {"unrooted", "done", "aborted"}
    /\ waiter' = [waiter EXCEPT ![w] = "check"]
    /\ UNCHANGED <<background, heapVars, functionVars, lockedVars, codeVars,
                   engine, resume, dropped, worker>>

\* The predicate of idle_.wait, under the mutex: return, or sleep.
CheckIdle(w) ==
    /\ waiter[w] = "check"
    /\ engine # "aborted"
    /\ waiter' = [waiter EXCEPT ![w] = IF Idle THEN "away" ELSE "asleep"]
    /\ UNCHANGED <<background, heapVars, functionVars, lockedVars, codeVars,
                   engine, resume, dropped, worker>>

WaiterWakes(w) ==
    /\ waiter[w] = "asleep"
    /\ engine # "aborted"
    /\ waiter' = [waiter EXCEPT ![w] = "check"]
    /\ UNCHANGED <<background, heapVars, functionVars, lockedVars, codeVars,
                   engine, resume, dropped, worker>>

-----------------------------------------------------------------------------

\* The program's own steps: it may stop, or loop, anywhere.
Program ==
    \/ \E f \in Function : Call(f) \/ MakeClosure(f) \/ Forget(f)
    \/ BackEdge \/ LeaveCode \/ Return \/ TakeError \/ Mark
    \/ \E hold \in BOOLEAN : Hold(hold)
    \/ Shutdown

\* Steps inside a C++ function of the engine's thread that is under way.
EngineStep ==
    \/ Enqueue \/ NotifyQueued \/ LoadEntry \/ Adopt \/ Sweep \/ NotifyHold
    \/ NotifyStop \/ Join \/ LogCancelled \/ RemoveRootMarker \/ Destroy

WorkerStep ==
    \/ WorkerStop \/ WorkerTake \/ WorkerSleep
    \/ WorkerBuild \/ WorkerAbort \/ WorkerFlush \/ WorkerPublish \/ WorkerRecord

\* The engine is gone, or the process is.
Terminated == engine \in {"done", "aborted"} /\ UNCHANGED vars

Next ==
    \/ Program
    \/ EngineStep
    \/ WorkerStep
    \/ WorkerWakes
    \/ \E w \in Waiter : StartWait(w) \/ CheckIdle(w) \/ WaiterWakes(w)
    \/ Terminated

\* Each thread that is inside the JIT's C++ code keeps running, and a thread
\* asking for the mutex gets it.  Nothing is assumed of the program, of new
\* waits, or of spurious wake-ups.
Fairness ==
    /\ WF_vars(EngineStep)
    /\ WF_vars(WorkerStep)
    /\ \A w \in Waiter : WF_vars(CheckIdle(w))

Spec == Init /\ [][Next]_vars

FairSpec == Spec /\ Fairness

-----------------------------------------------------------------------------
(* Properties.                                                             *)

EngineState ==
    {"vm", "enqueue", "notify", "entry", "adopt", "code", "sweep", "holdNotify",
     "stopNotify", "join", "joined", "logged", "unrooted", "done", "aborted"}
WorkerState ==
    {"check", "asleep", "build", "flush", "publish", "record", "exited", "aborted"}

\* jit_hotness stops at the threshold (the first count reaches a threshold
\* of 0 or 1), so the 32-bit counter never wraps.
HotnessRange == IF Threshold = 0 THEN {0, 1} ELSE 0..Threshold

\* Every variable has its type; jit_count never counts past the threshold.
TypeOK ==
    /\ background \in BOOLEAN
    /\ alive \in SUBSET Function
    /\ rooted \in SUBSET Function
    /\ frames \in Seq(Function)
    /\ marked \in SUBSET Function
    /\ hotness \in [Function -> HotnessRange]
    /\ status \in [Function -> {"Cold", "Queued", "Compiled", "Rejected"}]
    /\ published \in SUBSET Function
    /\ queue \in Seq(Function)
    /\ compiling \in Function \cup {NoFunction}
    /\ stopping \in BOOLEAN
    /\ held \in BOOLEAN
    /\ compiled \in SUBSET Function
    /\ rejected \in SUBSET Function
    /\ code \in [Function -> {"none", "copied", "flushed"}]
    /\ engine \in EngineState
    /\ resume \in {"vm", "entry"}
    /\ dropped \in SUBSET Function
    /\ worker \in WorkerState
    /\ waiter \in [Waiter -> {"away", "check", "asleep"}]

ShuttingDown == {"stopNotify", "join", "joined"}

\* No thread follows a pointer to a function the collector freed: the
\* functions the compiler thread reads or will read, with their constants;
\* the frames and closures of the program; and the cancelled functions,
\* which are no roots any more when shutdown logs their names.
NoUseAfterFree ==
    /\ \A f \in Pending : {f} \cup Refs[f] \subseteq alive
    /\ engine # "done" => Range(frames) \cup rooted \subseteq alive
    /\ engine \in ShuttingDown => dropped \subseteq alive

\* A function is queued at most once in its life, so it is compiled at most
\* once and its code never replaced; and whatever was queued is in exactly
\* one place: on its way, in the queue, being compiled, done, or cancelled.
QueuedOnce ==
    /\ \A i, j \in DOMAIN queue : queue[i] = queue[j] => i = j
    /\ compiling \notin Range(queue)
    /\ Pending \cap (compiled \cup rejected \cup dropped) = {}
    /\ compiled \cap rejected = {}
    /\ dropped \cap (compiled \cup rejected) = {}
    /\ \A f \in Function : status[f] = "Queued" =>
          \/ f \in Pending \cup compiled \cup rejected \cup dropped
          \/ engine = "enqueue" /\ f = TopFrame
          \/ engine = "aborted"

\* The engine's thread executes machine code only when the copy is complete,
\* the instruction caches have forgotten what was there before, and this
\* core has discarded what it fetched early.
CodeReady ==
    engine = "code" =>
        /\ TopFrame \in published
        /\ code[TopFrame] = "flushed"
        /\ status[TopFrame] = "Compiled"

\* Once shutdown has joined the compiler thread nobody compiles, nothing is
\* left to compile, and every queued function has its outcome; so the root
\* marker can go and the code can be unmapped.
ShutdownComplete ==
    engine \in {"joined", "logged", "unrooted", "done"} =>
        /\ worker = "exited"
        /\ Pending = {}
        /\ \A f \in Function :
              status[f] = "Queued" => f \in compiled \cup rejected \cup dropped

-----------------------------------------------------------------------------
(* Refinement: this is how CodeHandoff's promise is kept.                  *)

StageOf(f) ==
    IF f \in published THEN "compiled"
    ELSE IF f \in rejected \cup dropped THEN "refused"
    ELSE IF status[f] = "Cold" THEN "interpreted" ELSE "pending"

Handoff == INSTANCE CodeHandoff
    WITH stage <- [f \in Function |-> StageOf(f)],
         running <- IF engine = "code" THEN TopFrame ELSE NoFunction

\* The JIT implements the abstract handoff, whichever thread compiles.
ImplementsHandoff == Handoff!Spec

-----------------------------------------------------------------------------
(* Liveness.                                                               *)

\* Unless a test holds the compiler forever, a function that is queued is
\* compiled, rejected or cancelled: no wake-up is lost.
QueuedIsResolved ==
    <>[]~held =>
        \A f \in Function :
            f \in Pending ~> (f \in compiled \cup rejected \cup dropped \/ engine = "aborted")

\* Shutting down terminates, even while a test holds the compiler, with
\* jobs queued and one in progress.
ShutdownTerminates == engine = "stopNotify" ~> engine \in {"done", "aborted"}

\* wait_until_idle returns, also when shutdown empties the queue under a
\* thread that waits.
WaitReturns ==
    <>[]~held =>
        \A w \in Waiter : waiter[w] = "check" ~> (waiter[w] = "away" \/ engine = "aborted")

=============================================================================
