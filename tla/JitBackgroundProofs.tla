------------------------ MODULE JitBackgroundProofs ------------------------
(***************************************************************************)
(* Safety of the background JIT for every set of functions, every graph of *)
(* constants, every threshold and every number of waiting threads.         *)
(***************************************************************************)
EXTENDS JitBackground, QueueTheorems, TLAPS

-----------------------------------------------------------------------------
(* The inductive invariant, in six parts.                                  *)

ShutdownState == {"stopNotify", "join", "joined", "logged", "unrooted", "done"}
JoinedState == {"joined", "logged", "unrooted", "done"}
BuildState == {"build", "flush", "publish"}

\* Which thread is where: the worker holds a function exactly while it
\* compiles, ends only for shutdown, and nothing is queued any more then.
ThreadInv ==
    /\ worker \in BuildState \cup {"record"} => compiling # NoFunction
    /\ compiling # NoFunction => worker \in BuildState \cup {"record", "aborted"}
    /\ worker = "aborted" => engine = "aborted"
    /\ worker = "exited" => stopping \/ ~background
    /\ stopping => queue = <<>> /\ engine \in ShutdownState \cup {"aborted"}
    /\ background /\ engine \in ShutdownState => stopping
    /\ dropped # {} => stopping
    /\ ~background => worker = "exited" /\ queue = <<>>
    /\ engine \in JoinedState => worker = "exited"
    /\ engine \in {"enqueue", "notify"} => background
    /\ engine \in {"enqueue", "entry", "adopt", "code"} => frames # <<>>
    /\ engine \in {"enqueue", "notify"} /\ resume = "entry" => frames # <<>>

\* A function that is still counted has not reached the threshold.
CountInv ==
    engine # "aborted" =>
        \A f \in Function : status[f] = "Cold" => hotness[f] = 0 \/ hotness[f] < Threshold

\* A function leaves Cold before it is queued, and is queued once.
StageInv ==
    /\ \A i, j \in DOMAIN queue : queue[i] = queue[j] => i = j
    /\ compiling \notin Range(queue)
    /\ Pending \cap (compiled \cup rejected \cup dropped) = {}
    /\ compiled \cap rejected = {}
    /\ dropped \cap (compiled \cup rejected) = {}
    /\ \A f \in Function : status[f] = "Cold" =>
          f \notin Pending \cup compiled \cup rejected \cup dropped
    /\ \A f \in Function : status[f] = "Queued" =>
          \/ f \in Pending \cup compiled \cup rejected \cup dropped
          \/ engine = "enqueue" /\ f = TopFrame
          \/ engine = "aborted"
    /\ engine = "enqueue" =>
          /\ status[TopFrame] = "Queued"
          /\ TopFrame \notin Pending \cup compiled \cup rejected \cup dropped

\* What is published is complete, and belongs to a function that is done or
\* about to be recorded.
CodeInv ==
    /\ compiled \subseteq published
    /\ published \subseteq compiled \cup {compiling}
    /\ worker \in BuildState => compiling \notin published
    /\ worker = "publish" => code[compiling] = "flushed"
    /\ engine # "done" => \A f \in published : code[f] = "flushed"
    /\ engine \in {"adopt", "code"} => TopFrame \in published
    /\ engine = "code" => status[TopFrame] = "Compiled"
    /\ \A f \in Function : status[f] = "Compiled" => f \in published
    /\ \A f \in Function : status[f] = "Rejected" => f \in rejected

\* What is alive is closed under constants and holds every root; what a
\* collection in progress has marked is closed and holds every root too.
HeapInv ==
    /\ \A f \in alive : Refs[f] \subseteq alive
    /\ engine # "done" => Roots \subseteq alive
    /\ engine = "sweep" => Roots \subseteq marked /\ \A f \in marked : Refs[f] \subseteq marked
    /\ engine \in ShuttingDown => dropped \subseteq alive

IInv == TypeOK /\ ThreadInv /\ CountInv /\ StageInv /\ CodeInv /\ HeapInv

-----------------------------------------------------------------------------
(* Facts about the model's operators.                                      *)

\* Reach(S) is a closed set of functions that holds S.
LEMMA ReachClosed ==
    ASSUME NEW S \in SUBSET Function
    PROVE  /\ S \subseteq Reach(S)
           /\ Reach(S) \subseteq Function
           /\ \A f \in Reach(S) : Refs[f] \subseteq Reach(S)
  BY ConstantsAssumption DEF Reach

\* The newest frame runs a function, one of those in the frames.
LEMMA TopFrameRuns ==
    ASSUME TypeOK, frames # <<>>
    PROVE  TopFrame \in Function /\ TopFrame \in Range(frames)
  BY RangeFront DEF TypeOK, TopFrame

\* What is pending is a function.
LEMMA PendingType == TypeOK => Pending \subseteq Function
  BY RangeType DEF TypeOK, Pending

\* jit_count keeps the types of what it writes.
LEMMA JitCountType ==
    ASSUME TypeOK, CountInv, NEW f \in Function, NEW then \in {"vm", "entry"},
           JitCount(f, then), engine = "vm"
    PROVE  /\ hotness' \in [Function -> HotnessRange]
           /\ status' \in [Function -> {"Cold", "Queued", "Compiled", "Rejected"}]
           /\ published' \in SUBSET Function
           /\ compiled' \in SUBSET Function
           /\ rejected' \in SUBSET Function
           /\ code' \in [Function -> {"none", "copied", "flushed"}]
           /\ engine' \in {"vm", "entry", "enqueue", "aborted"}
           /\ resume' \in {"vm", "entry"}
  <1> USE ConstantsAssumption DEF TypeOK
  <1>1. Counts(f) => hotness[f] + 1 \in HotnessRange
    BY DEF CountInv, Counts, HotnessRange
  <1>2. CASE CountOnly(f, then)
    BY <1>1, <1>2 DEF CountOnly, codeVars
  <1>3. CASE CountAndQueue(f, then)
    BY <1>1, <1>3 DEF CountAndQueue, codeVars
  <1>4. CASE CountAndCompile(f, then)
    BY <1>1, <1>4 DEF CountAndCompile, codeVars
  <1>5. CASE CountAndAbort(f)
    BY <1>1, <1>5 DEF CountAndAbort, codeVars
  <1>6. QED  BY <1>2, <1>3, <1>4, <1>5 DEF JitCount

-----------------------------------------------------------------------------
(* Type correctness.                                                       *)

\* The engine starts with every variable of its type.
LEMMA TypeInit == Init => TypeOK
  <1>1. ASSUME Init PROVE frames \in Seq(Function) /\ queue \in Seq(Function)
    BY <1>1, ConstantsAssumption DEF Init
  <1>2. 0 \in HotnessRange
    BY ConstantsAssumption DEF HotnessRange
  <1>3. ASSUME Init PROVE background \in BOOLEAN /\ worker \in WorkerState
    BY <1>3, ConstantsAssumption DEF Init, WorkerState
  <1>4. QED
    BY <1>1, <1>2, <1>3 DEF Init, TypeOK, EngineState

\* No step breaks the types.
LEMMA TypeStep == ASSUME TypeOK, ThreadInv, CountInv, [Next]_vars PROVE TypeOK'
  <1> USE DEF TypeOK, EngineState, WorkerState,
              vars, heapVars, functionVars, lockedVars, codeVars
  <1>1. ASSUME NEW f \in Function, Call(f) PROVE TypeOK'
    <2>1. JitCount(f, "entry") /\ frames' \in Seq(Function)
      BY <1>1, RangeAppend DEF Call
    <2>2. QED  BY <1>1, <2>1, JitCountType DEF Call, JitCount
  <1>2. ASSUME NEW f \in Function, MakeClosure(f) PROVE TypeOK'
    BY <1>2 DEF MakeClosure
  <1>3. ASSUME NEW f \in Function, Forget(f) PROVE TypeOK'
    BY <1>3 DEF Forget
  <1>4. CASE BackEdge
    <2>1. JitCount(TopFrame, "vm") /\ TopFrame \in Function
      BY <1>4, TopFrameRuns DEF BackEdge
    <2>2. QED  BY <1>4, <2>1, JitCountType DEF BackEdge, JitCount
  <1>5. CASE LeaveCode
    BY <1>5 DEF LeaveCode
  <1>6. CASE Return
    <2>1. frames' \in Seq(Function)
      BY <1>6, RangeFront DEF Return
    <2>2. QED  BY <1>6, <2>1 DEF Return
  <1>7. CASE TakeError
    BY <1>7 DEF TakeError
  <1>8. CASE Mark
    <2>1. Roots \in SUBSET Function
      BY PendingType, RangeType DEF Roots
    <2>2. QED  BY <1>8, <2>1, ReachClosed DEF Mark
  <1>9. ASSUME NEW hold \in BOOLEAN, Hold(hold) PROVE TypeOK'
    BY <1>9 DEF Hold
  <1>10. CASE Shutdown
    <2>1. Range(queue) \subseteq Function
      BY RangeType
    <2>2. queue' \in Seq(Function)
      BY <1>10 DEF Shutdown
    <2>3. QED  BY <1>10, <2>1, <2>2 DEF Shutdown
  <1>11. CASE Enqueue
    <2>1. TopFrame \in Function
      BY <1>11, TopFrameRuns DEF Enqueue, ThreadInv
    <2>2. queue' \in Seq(Function)
      BY <1>11, <2>1, RangeAppend, SMTT(30) DEF Enqueue
    <2>3. QED  BY <1>11, <2>2 DEF Enqueue
  <1>12. CASE NotifyQueued
    BY <1>12 DEF NotifyQueued, NotifyWorker
  <1>13. CASE LoadEntry
    BY <1>13 DEF LoadEntry
  <1>14. CASE Adopt
    BY <1>14 DEF Adopt
  <1>15. CASE Sweep
    BY <1>15 DEF Sweep
  <1>16. CASE NotifyHold
    BY <1>16 DEF NotifyHold, NotifyWorker
  <1>17. CASE NotifyStop
    BY <1>17 DEF NotifyStop, NotifyWorker
  <1>18. CASE Join
    BY <1>18 DEF Join, NotifyIdle
  <1>19. CASE LogCancelled
    BY <1>19 DEF LogCancelled
  <1>20. CASE RemoveRootMarker
    BY <1>20 DEF RemoveRootMarker
  <1>21. CASE Destroy
    BY <1>21 DEF Destroy
  <1>22. CASE WorkerStop
    BY <1>22 DEF WorkerStop
  <1>23. CASE WorkerTake
    BY <1>23 DEF WorkerTake
  <1>24. CASE WorkerSleep
    BY <1>24 DEF WorkerSleep
  <1>25. CASE WorkerBuild
    BY <1>25 DEF WorkerBuild
  <1>26. CASE WorkerAbort
    BY <1>26 DEF WorkerAbort
  <1>27. CASE WorkerFlush
    BY <1>27 DEF WorkerFlush
  <1>28. CASE WorkerPublish
    BY <1>28 DEF WorkerPublish, ThreadInv, BuildState
  <1>29. CASE WorkerRecord
    BY <1>29 DEF WorkerRecord, NotifyIdle, ThreadInv
  <1>30. CASE WorkerWakes
    BY <1>30 DEF WorkerWakes
  <1>31. ASSUME NEW w \in Waiter, StartWait(w) PROVE TypeOK'
    BY <1>31 DEF StartWait
  <1>32. ASSUME NEW w \in Waiter, CheckIdle(w) PROVE TypeOK'
    BY <1>32 DEF CheckIdle
  <1>33. ASSUME NEW w \in Waiter, WaiterWakes(w) PROVE TypeOK'
    BY <1>33 DEF WaiterWakes
  <1>34. CASE UNCHANGED vars
    BY <1>34
  <1>35. QED
    BY <1>1, <1>2, <1>3, <1>4, <1>5, <1>6, <1>7, <1>8, <1>9, <1>10, <1>11, <1>12, <1>13, <1>14, <1>15, <1>16, <1>17, <1>18, <1>19, <1>20, <1>21, <1>22, <1>23, <1>24, <1>25, <1>26, <1>27, <1>28, <1>29, <1>30, <1>31, <1>32, <1>33, <1>34
    DEF Next, Program, EngineStep, WorkerStep, Terminated

-----------------------------------------------------------------------------
(* The threads' states.                                                    *)

\* The compiler thread starts with nothing to compile, or is not there.
LEMMA ThreadInit == Init => ThreadInv
  BY DEF Init, ThreadInv, BuildState, ShutdownState, JoinedState

\* No step of any thread leaves the threads in an impossible combination.
LEMMA ThreadStep == ASSUME TypeOK, ThreadInv, [Next]_vars PROVE ThreadInv'
  <1> USE DEF ThreadInv, BuildState, ShutdownState, JoinedState,
              vars, heapVars, functionVars, lockedVars, codeVars
  <1>1. ASSUME NEW f \in Function, Call(f) PROVE ThreadInv'
    <2>1. frames' # <<>>
      BY <1>1 DEF Call, TypeOK
    <2>2. QED  BY <1>1, <2>1 DEF Call, JitCount, CountOnly, CountAndQueue, CountAndCompile, CountAndAbort
  <1>2. ASSUME NEW f \in Function, MakeClosure(f) PROVE ThreadInv'
    BY <1>2 DEF MakeClosure
  <1>3. ASSUME NEW f \in Function, Forget(f) PROVE ThreadInv'
    BY <1>3 DEF Forget
  <1>4. CASE BackEdge
    BY <1>4 DEF BackEdge, JitCount, CountOnly, CountAndQueue, CountAndCompile, CountAndAbort
  <1>5. CASE LeaveCode
    BY <1>5 DEF LeaveCode
  <1>6. CASE Return
    BY <1>6 DEF Return
  <1>7. CASE TakeError
    BY <1>7 DEF TakeError
  <1>8. CASE Mark
    BY <1>8 DEF Mark
  <1>9. ASSUME NEW hold \in BOOLEAN, Hold(hold) PROVE ThreadInv'
    BY <1>9 DEF Hold
  <1>10. CASE Shutdown
    BY <1>10 DEF Shutdown
  <1>11. CASE Enqueue
    BY <1>11 DEF Enqueue
  <1>12. CASE NotifyQueued
    BY <1>12 DEF NotifyQueued, NotifyWorker, TypeOK
  <1>13. CASE LoadEntry
    BY <1>13 DEF LoadEntry
  <1>14. CASE Adopt
    BY <1>14 DEF Adopt
  <1>15. CASE Sweep
    BY <1>15 DEF Sweep
  <1>16. CASE NotifyHold
    BY <1>16 DEF NotifyHold, NotifyWorker
  <1>17. CASE NotifyStop
    BY <1>17 DEF NotifyStop, NotifyWorker
  <1>18. CASE Join
    BY <1>18 DEF Join, NotifyIdle
  <1>19. CASE LogCancelled
    BY <1>19 DEF LogCancelled
  <1>20. CASE RemoveRootMarker
    BY <1>20 DEF RemoveRootMarker
  <1>21. CASE Destroy
    BY <1>21 DEF Destroy
  <1>22. CASE WorkerStop
    BY <1>22 DEF WorkerStop
  <1>23. CASE WorkerTake
    <2>1. compiling' \in Function
      BY <1>23, RangeTail DEF WorkerTake, TypeOK
    <2>2. QED  BY <1>23, <2>1, ConstantsAssumption DEF WorkerTake
  <1>24. CASE WorkerSleep
    BY <1>24 DEF WorkerSleep
  <1>25. CASE WorkerBuild
    BY <1>25 DEF WorkerBuild
  <1>26. CASE WorkerAbort
    BY <1>26 DEF WorkerAbort
  <1>27. CASE WorkerFlush
    BY <1>27 DEF WorkerFlush
  <1>28. CASE WorkerPublish
    BY <1>28 DEF WorkerPublish
  <1>29. CASE WorkerRecord
    BY <1>29 DEF WorkerRecord, NotifyIdle
  <1>30. CASE WorkerWakes
    BY <1>30 DEF WorkerWakes
  <1>31. ASSUME NEW w \in Waiter, StartWait(w) PROVE ThreadInv'
    BY <1>31 DEF StartWait
  <1>32. ASSUME NEW w \in Waiter, CheckIdle(w) PROVE ThreadInv'
    BY <1>32 DEF CheckIdle
  <1>33. ASSUME NEW w \in Waiter, WaiterWakes(w) PROVE ThreadInv'
    BY <1>33 DEF WaiterWakes
  <1>34. CASE UNCHANGED vars
    BY <1>34
  <1>35. QED
    BY <1>1, <1>2, <1>3, <1>4, <1>5, <1>6, <1>7, <1>8, <1>9, <1>10, <1>11, <1>12, <1>13, <1>14, <1>15, <1>16, <1>17, <1>18, <1>19, <1>20, <1>21, <1>22, <1>23, <1>24, <1>25, <1>26, <1>27, <1>28, <1>29, <1>30, <1>31, <1>32, <1>33, <1>34
    DEF Next, Program, EngineStep, WorkerStep, Terminated

-----------------------------------------------------------------------------
(* Counting.                                                               *)

\* No function has been counted yet.
LEMMA CountInit == Init => CountInv
  BY DEF Init, CountInv

\* jit_count takes a function out of Cold when it reaches the threshold.
LEMMA CountStep == ASSUME TypeOK, CountInv, [Next]_vars PROVE CountInv'
  <1> USE DEF CountInv, vars, heapVars, functionVars, lockedVars, codeVars
  <1>1. ASSUME NEW f \in Function, Call(f) PROVE CountInv'
    BY <1>1, ConstantsAssumption DEF Call, JitCount, CountOnly, CountAndQueue, CountAndCompile, CountAndAbort, Counts, TypeOK
  <1>2. ASSUME NEW f \in Function, MakeClosure(f) PROVE CountInv'
    BY <1>2 DEF MakeClosure
  <1>3. ASSUME NEW f \in Function, Forget(f) PROVE CountInv'
    BY <1>3 DEF Forget
  <1>4. CASE BackEdge
    BY <1>4, ConstantsAssumption DEF BackEdge, JitCount, CountOnly, CountAndQueue, CountAndCompile, CountAndAbort, Counts, TypeOK
  <1>5. CASE LeaveCode
    BY <1>5 DEF LeaveCode
  <1>6. CASE Return
    BY <1>6 DEF Return
  <1>7. CASE TakeError
    BY <1>7 DEF TakeError
  <1>8. CASE Mark
    BY <1>8 DEF Mark
  <1>9. ASSUME NEW hold \in BOOLEAN, Hold(hold) PROVE CountInv'
    BY <1>9 DEF Hold
  <1>10. CASE Shutdown
    BY <1>10 DEF Shutdown
  <1>11. CASE Enqueue
    BY <1>11 DEF Enqueue
  <1>12. CASE NotifyQueued
    BY <1>12 DEF NotifyQueued, NotifyWorker
  <1>13. CASE LoadEntry
    BY <1>13 DEF LoadEntry
  <1>14. CASE Adopt
    BY <1>14 DEF Adopt, TypeOK
  <1>15. CASE Sweep
    BY <1>15 DEF Sweep
  <1>16. CASE NotifyHold
    BY <1>16 DEF NotifyHold, NotifyWorker
  <1>17. CASE NotifyStop
    BY <1>17 DEF NotifyStop, NotifyWorker
  <1>18. CASE Join
    BY <1>18 DEF Join, NotifyIdle
  <1>19. CASE LogCancelled
    BY <1>19 DEF LogCancelled
  <1>20. CASE RemoveRootMarker
    BY <1>20 DEF RemoveRootMarker
  <1>21. CASE Destroy
    BY <1>21 DEF Destroy
  <1>22. CASE WorkerStop
    BY <1>22 DEF WorkerStop
  <1>23. CASE WorkerTake
    BY <1>23 DEF WorkerTake
  <1>24. CASE WorkerSleep
    BY <1>24 DEF WorkerSleep
  <1>25. CASE WorkerBuild
    BY <1>25 DEF WorkerBuild
  <1>26. CASE WorkerAbort
    BY <1>26 DEF WorkerAbort
  <1>27. CASE WorkerFlush
    BY <1>27 DEF WorkerFlush
  <1>28. CASE WorkerPublish
    BY <1>28 DEF WorkerPublish
  <1>29. CASE WorkerRecord
    BY <1>29 DEF WorkerRecord, NotifyIdle
  <1>30. CASE WorkerWakes
    BY <1>30 DEF WorkerWakes
  <1>31. ASSUME NEW w \in Waiter, StartWait(w) PROVE CountInv'
    BY <1>31 DEF StartWait
  <1>32. ASSUME NEW w \in Waiter, CheckIdle(w) PROVE CountInv'
    BY <1>32 DEF CheckIdle
  <1>33. ASSUME NEW w \in Waiter, WaiterWakes(w) PROVE CountInv'
    BY <1>33 DEF WaiterWakes
  <1>34. CASE UNCHANGED vars
    BY <1>34
  <1>35. QED
    BY <1>1, <1>2, <1>3, <1>4, <1>5, <1>6, <1>7, <1>8, <1>9, <1>10, <1>11, <1>12, <1>13, <1>14, <1>15, <1>16, <1>17, <1>18, <1>19, <1>20, <1>21, <1>22, <1>23, <1>24, <1>25, <1>26, <1>27, <1>28, <1>29, <1>30, <1>31, <1>32, <1>33, <1>34
    DEF Next, Program, EngineStep, WorkerStep, Terminated

-----------------------------------------------------------------------------
(* Stages: what is queued, is queued once.                                 *)

\* Nothing is queued yet.
LEMMA StageInit == Init => StageInv
  <1>1. ASSUME Init PROVE DOMAIN queue = {} /\ Pending = {}
    BY <1>1, RangeEmpty DEF Init, Pending
  <1>2. QED  BY <1>1, ConstantsAssumption, RangeEmpty DEF Init, StageInv

\* A step that leaves the queue and the outcomes alone, and does not queue.
LEMMA StageQuiet ==
    ASSUME StageInv,
           UNCHANGED <<queue, compiling, compiled, rejected, dropped>>,
           \A f \in Function : status'[f] = status[f] \/ status'[f] = "Compiled",
           \/ UNCHANGED <<status, engine, frames>>
           \/ engine \notin {"enqueue", "aborted"} /\ engine' # "enqueue"
           \/ engine' = "aborted"
    PROVE  StageInv'
  <1>1. Pending' = Pending /\ (UNCHANGED frames => TopFrame' = TopFrame)
    BY DEF Pending, TopFrame
  <1>2. engine' = "enqueue" => UNCHANGED <<status, engine, TopFrame>>
    BY <1>1
  <1>3. \A f \in Function : status'[f] = "Queued" =>
          \/ f \in Pending \cup compiled \cup rejected \cup dropped
          \/ engine' = "enqueue" /\ f = TopFrame'
          \/ engine' = "aborted"
    <2>1. CASE UNCHANGED <<status, engine, frames>>
      BY <1>1, <2>1 DEF StageInv
    <2>2. CASE engine \notin {"enqueue", "aborted"} /\ engine' # "enqueue"
      BY <2>2 DEF StageInv
    <2>3. QED  BY <2>1, <2>2
  <1>4. QED  BY <1>1, <1>2, <1>3 DEF StageInv

\* jit_count in a frame of f: the function stays Cold, or leaves Cold for
\* the queue, or for its outcome.
LEMMA StageCount ==
    ASSUME TypeOK, ThreadInv, StageInv, NEW f \in Function, NEW then \in {"vm", "entry"},
           JitCount(f, then), engine = "vm", TopFrame' = f
    PROVE  StageInv'
  <1> USE DEF codeVars
  <1>1. CASE CountOnly(f, then)
    BY <1>1, StageQuiet DEF CountOnly, JitCount
  <1>2. CASE CountAndQueue(f, then)
    <2>1. f \notin Pending \cup compiled \cup rejected \cup dropped
      BY <1>2 DEF CountAndQueue, Counts, StageInv
    <2>2. \A g \in Function : status'[g] = IF g = f THEN "Queued" ELSE status[g]
      BY <1>2 DEF CountAndQueue, TypeOK
    <2>3. UNCHANGED <<queue, compiling, compiled, rejected, dropped, Pending>>
      BY <1>2 DEF CountAndQueue, JitCount, Pending
    <2>4. QED  BY <1>2, <2>1, <2>2, <2>3 DEF CountAndQueue, StageInv
  <1>3. CASE CountAndCompile(f, then)
    <2>1. f \notin Pending \cup compiled \cup rejected \cup dropped
      BY <1>3 DEF CountAndCompile, Counts, StageInv
    <2>2. \A g \in Function \ {f} : status'[g] = status[g]
      <3>1. CASE f \in Compilable
        BY <1>3, <3>1 DEF CountAndCompile, TypeOK
      <3>2. CASE f \notin Compilable
        BY <1>3, <3>2 DEF CountAndCompile, TypeOK
      <3>3. QED  BY <3>1, <3>2
    <2>3. UNCHANGED <<queue, compiling, dropped, Pending>>
      BY <1>3 DEF CountAndCompile, JitCount, Pending
    <2>4. \/ compiled' = compiled \cup {f} /\ rejected' = rejected
          \/ compiled' = compiled /\ rejected' = rejected \cup {f}
      BY <1>3 DEF CountAndCompile
    <2>5. status'[f] \in {"Compiled", "Rejected"} /\ engine' # "enqueue"
      BY <1>3 DEF CountAndCompile, TypeOK
    <2>6. QED  BY <2>1, <2>2, <2>3, <2>4, <2>5 DEF StageInv
  <1>4. CASE CountAndAbort(f)
    BY <1>4, StageQuiet DEF CountAndAbort, JitCount
  <1>5. QED  BY <1>1, <1>2, <1>3, <1>4 DEF JitCount

\* No step queues a function twice, or loses one that was queued.
LEMMA StageStep == ASSUME TypeOK, ThreadInv, StageInv, [Next]_vars PROVE StageInv'
  <1> USE DEF vars, heapVars, functionVars, lockedVars, codeVars
  <1>1. ASSUME NEW f \in Function, Call(f) PROVE StageInv'
    <2>1. JitCount(f, "entry") /\ engine = "vm"
      BY <1>1 DEF Call
    <2>2. TopFrame' = f
      BY <1>1 DEF Call, TopFrame, TypeOK
    <2>3. QED  BY <2>1, <2>2, StageCount
  <1>2. ASSUME NEW f \in Function, MakeClosure(f) PROVE StageInv'
    BY <1>2, StageQuiet DEF MakeClosure
  <1>3. ASSUME NEW f \in Function, Forget(f) PROVE StageInv'
    BY <1>3, StageQuiet DEF Forget
  <1>4. CASE BackEdge
    <2>1. JitCount(TopFrame, "vm") /\ engine = "vm" /\ TopFrame \in Function
      BY <1>4, TopFrameRuns DEF BackEdge
    <2>2. TopFrame' = TopFrame
      BY <1>4 DEF BackEdge, TopFrame
    <2>3. QED  BY <2>1, <2>2, StageCount
  <1>5. CASE LeaveCode
    BY <1>5, StageQuiet DEF LeaveCode
  <1>6. CASE Return
    BY <1>6, StageQuiet DEF Return
  <1>7. CASE TakeError
    BY <1>7, StageQuiet DEF TakeError
  <1>8. CASE Mark
    BY <1>8, StageQuiet DEF Mark
  <1>9. ASSUME NEW hold \in BOOLEAN, Hold(hold) PROVE StageInv'
    BY <1>9, StageQuiet DEF Hold
  <1>10. CASE Shutdown
    <2>1. CASE background
      <3>1. queue' = <<>> /\ dropped' = Range(queue) /\ dropped = {} /\ engine' = "stopNotify"
        BY <1>10, <2>1 DEF Shutdown, ThreadInv, ShutdownState
      <3>2. DOMAIN queue' = {} /\ Range(queue') = {}
        BY <3>1, RangeEmpty
      <3>3. Pending = Pending' \cup Range(queue) /\ Pending' \cap Range(queue) = {}
        BY <1>10, <3>1, <3>2 DEF Shutdown, Pending, StageInv
      <3>4. QED  BY <1>10, <3>1, <3>2, <3>3 DEF Shutdown, StageInv
    <2>2. CASE ~background
      BY <1>10, <2>2, StageQuiet DEF Shutdown
    <2>3. QED  BY <2>1, <2>2 DEF TypeOK
  <1>11. CASE Enqueue
    <2>1. frames # <<>> /\ ~stopping /\ engine = "enqueue"
      BY <1>11 DEF Enqueue, ThreadInv, ShutdownState
    <2>2. TopFrame \in Function /\ TopFrame' = TopFrame
      BY <1>11, <2>1, TopFrameRuns DEF Enqueue, TopFrame
    <2>3. queue' = Append(queue, TopFrame) /\ engine' = "notify"
      BY <1>11, <2>1 DEF Enqueue
    <2>4. TopFrame \notin Range(queue) /\ TopFrame # compiling
      BY <2>1, <2>2, ConstantsAssumption DEF StageInv, Pending
    <2>5. Range(queue') = Range(queue) \cup {TopFrame}
      BY <2>2, <2>3, RangeAppend DEF TypeOK
    <2>6. \A i, j \in DOMAIN queue' : queue'[i] = queue'[j] => i = j
      BY <2>2, <2>3, <2>4, AppendNew DEF TypeOK, StageInv
    <2>7. Pending' = Pending \cup {TopFrame}
      BY <1>11, <2>5 DEF Enqueue, Pending
    <2>8. QED  BY <1>11, <2>1, <2>2, <2>3, <2>4, <2>5, <2>6, <2>7 DEF Enqueue, StageInv
  <1>12. CASE NotifyQueued
    BY <1>12, StageQuiet DEF NotifyQueued, NotifyWorker, TypeOK
  <1>13. CASE LoadEntry
    BY <1>13, StageQuiet DEF LoadEntry
  <1>14. CASE Adopt
    BY <1>14, StageQuiet DEF Adopt, TypeOK
  <1>15. CASE Sweep
    BY <1>15, StageQuiet DEF Sweep
  <1>16. CASE NotifyHold
    BY <1>16, StageQuiet DEF NotifyHold, NotifyWorker
  <1>17. CASE NotifyStop
    BY <1>17, StageQuiet DEF NotifyStop, NotifyWorker
  <1>18. CASE Join
    BY <1>18, StageQuiet DEF Join, NotifyIdle
  <1>19. CASE LogCancelled
    BY <1>19, StageQuiet DEF LogCancelled
  <1>20. CASE RemoveRootMarker
    BY <1>20, StageQuiet DEF RemoveRootMarker
  <1>21. CASE Destroy
    BY <1>21, StageQuiet DEF Destroy
  <1>22. CASE WorkerStop
    BY <1>22, StageQuiet DEF WorkerStop
  <1>23. CASE WorkerTake
    <2>1. queue' = Tail(queue) /\ compiling' = Head(queue) /\ compiling = NoFunction
      BY <1>23 DEF WorkerTake, ThreadInv, BuildState
    <2>2. Range(queue) = {Head(queue)} \cup Range(Tail(queue)) /\ Head(queue) \in Function
      BY <1>23, RangeTail DEF WorkerTake, TypeOK
    <2>3. /\ Head(queue) \notin Range(Tail(queue))
          /\ \A i, j \in DOMAIN Tail(queue) : Tail(queue)[i] = Tail(queue)[j] => i = j
      BY <1>23, HeadLeaves DEF WorkerTake, TypeOK, StageInv
    <2>4. Pending' = Pending
      BY <2>1, <2>2, ConstantsAssumption DEF Pending
    <2>5. TopFrame' = TopFrame
      BY <1>23 DEF WorkerTake, TopFrame
    <2>6. QED  BY <1>23, <2>1, <2>3, <2>4, <2>5 DEF WorkerTake, StageInv
  <1>24. CASE WorkerSleep
    BY <1>24, StageQuiet DEF WorkerSleep
  <1>25. CASE WorkerBuild
    BY <1>25, StageQuiet DEF WorkerBuild
  <1>26. CASE WorkerAbort
    BY <1>26, StageQuiet DEF WorkerAbort
  <1>27. CASE WorkerFlush
    BY <1>27, StageQuiet DEF WorkerFlush
  <1>28. CASE WorkerPublish
    BY <1>28, StageQuiet DEF WorkerPublish
  <1>29. CASE WorkerRecord
    <2>1. compiling # NoFunction /\ compiling' = NoFunction
      BY <1>29 DEF WorkerRecord, ThreadInv
    <2>2. Pending = Pending' \cup {compiling} /\ compiling \notin Pending'
      BY <1>29, <2>1 DEF WorkerRecord, Pending, StageInv
    <2>3. \/ compiled' = compiled \cup {compiling} /\ rejected' = rejected
          \/ compiled' = compiled /\ rejected' = rejected \cup {compiling}
      BY <1>29 DEF WorkerRecord
    <2>4. UNCHANGED <<status, queue, dropped, engine, frames, TopFrame>>
      BY <1>29 DEF WorkerRecord, TopFrame
    <2>5. NoFunction \notin Range(queue)
      BY RangeType, ConstantsAssumption DEF TypeOK
    <2>6. QED  BY <2>1, <2>2, <2>3, <2>4, <2>5 DEF StageInv
  <1>30. CASE WorkerWakes
    BY <1>30, StageQuiet DEF WorkerWakes
  <1>31. ASSUME NEW w \in Waiter, StartWait(w) PROVE StageInv'
    BY <1>31, StageQuiet DEF StartWait
  <1>32. ASSUME NEW w \in Waiter, CheckIdle(w) PROVE StageInv'
    BY <1>32, StageQuiet DEF CheckIdle
  <1>33. ASSUME NEW w \in Waiter, WaiterWakes(w) PROVE StageInv'
    BY <1>33, StageQuiet DEF WaiterWakes
  <1>34. CASE UNCHANGED vars
    BY <1>34, StageQuiet
  <1>35. QED
    BY <1>1, <1>2, <1>3, <1>4, <1>5, <1>6, <1>7, <1>8, <1>9, <1>10, <1>11, <1>12, <1>13, <1>14, <1>15, <1>16, <1>17, <1>18, <1>19, <1>20, <1>21, <1>22, <1>23, <1>24, <1>25, <1>26, <1>27, <1>28, <1>29, <1>30, <1>31, <1>32, <1>33, <1>34
    DEF Next, Program, EngineStep, WorkerStep, Terminated

-----------------------------------------------------------------------------
(* Machine code: what the engine may enter.                                *)

\* Nothing is published yet.
LEMMA CodeInit == Init => CodeInv
  BY ConstantsAssumption DEF Init, CodeInv, BuildState

\* A step that neither builds nor publishes, and does not enter code.
LEMMA CodeQuiet ==
    ASSUME CodeInv, UNCHANGED <<published, code, compiled, rejected, compiling>>,
           \A f \in Function : status'[f] \in {status[f], "Queued"},
           worker' \in BuildState => UNCHANGED worker,
           engine' = "done" \/ engine # "done",
           \/ UNCHANGED <<status, engine, frames>>
           \/ engine' \notin {"adopt", "code"}
    PROVE  CodeInv'
  <1>1. UNCHANGED frames => UNCHANGED TopFrame
    BY DEF TopFrame
  <1>2. QED  BY <1>1 DEF CodeInv, BuildState

\* jit_count publishes only complete code, and only for its own function.
LEMMA CodeCount ==
    ASSUME TypeOK, ThreadInv, CodeInv, NEW f \in Function, NEW then \in {"vm", "entry"},
           JitCount(f, then), engine = "vm"
    PROVE  CodeInv'
  <1> USE DEF codeVars
  <1>1. CASE CountOnly(f, then)
    BY <1>1, CodeQuiet DEF CountOnly, JitCount
  <1>2. CASE CountAndQueue(f, then)
    <2>1. \A g \in Function : status'[g] \in {status[g], "Queued"}
      BY <1>2 DEF CountAndQueue, TypeOK
    <2>2. QED  BY <1>2, <2>1, CodeQuiet DEF CountAndQueue, JitCount
  <1>3. CASE CountAndCompile(f, then)
    <2>1. worker' = "exited" /\ UNCHANGED compiling /\ engine' \notin {"adopt", "code", "done"}
      BY <1>3 DEF CountAndCompile, JitCount, ThreadInv
    <2>2. CASE f \in Compilable
      <3>1. /\ published' = published \cup {f} /\ compiled' = compiled \cup {f}
            /\ \A g \in published' : code'[g] = "flushed"
            /\ \A g \in Function \ {f} : status'[g] = status[g]
            /\ status'[f] = "Compiled" /\ UNCHANGED rejected
        BY <1>3, <2>2 DEF CountAndCompile, CodeInv, TypeOK
      <3>2. QED  BY <2>1, <3>1 DEF CodeInv, BuildState
    <2>3. CASE f \notin Compilable
      <3>1. /\ UNCHANGED <<published, compiled, code>> /\ rejected' = rejected \cup {f}
            /\ \A g \in Function \ {f} : status'[g] = status[g]
            /\ status'[f] = "Rejected"
        BY <1>3, <2>3 DEF CountAndCompile, TypeOK
      <3>2. QED  BY <1>3, <2>1, <3>1 DEF CodeInv, BuildState
    <2>4. QED  BY <2>2, <2>3
  <1>4. CASE CountAndAbort(f)
    BY <1>4, CodeQuiet DEF CountAndAbort, JitCount
  <1>5. QED  BY <1>1, <1>2, <1>3, <1>4 DEF JitCount

\* No step publishes code that is not complete.
LEMMA CodeStep ==
    ASSUME TypeOK, ThreadInv, StageInv, CodeInv, [Next]_vars PROVE CodeInv'
  <1> USE DEF CodeInv, vars, heapVars, functionVars, lockedVars, codeVars
  <1>1. ASSUME NEW f \in Function, Call(f) PROVE CodeInv'
    <2>1. JitCount(f, "entry") /\ engine = "vm"
      BY <1>1 DEF Call
    <2>2. QED  BY <2>1, CodeCount
  <1>2. ASSUME NEW f \in Function, MakeClosure(f) PROVE CodeInv'
    BY <1>2, CodeQuiet DEF MakeClosure
  <1>3. ASSUME NEW f \in Function, Forget(f) PROVE CodeInv'
    BY <1>3, CodeQuiet DEF Forget
  <1>4. CASE BackEdge
    <2>1. JitCount(TopFrame, "vm") /\ engine = "vm" /\ TopFrame \in Function
      BY <1>4, TopFrameRuns DEF BackEdge
    <2>2. QED  BY <2>1, CodeCount
  <1>5. CASE LeaveCode
    BY <1>5, CodeQuiet DEF LeaveCode
  <1>6. CASE Return
    BY <1>6, CodeQuiet DEF Return
  <1>7. CASE TakeError
    BY <1>7, CodeQuiet DEF TakeError
  <1>8. CASE Mark
    BY <1>8, CodeQuiet DEF Mark
  <1>9. ASSUME NEW hold \in BOOLEAN, Hold(hold) PROVE CodeInv'
    BY <1>9, CodeQuiet DEF Hold
  <1>10. CASE Shutdown
    BY <1>10, CodeQuiet DEF Shutdown
  <1>11. CASE Enqueue
    BY <1>11, CodeQuiet DEF Enqueue, TypeOK
  <1>12. CASE NotifyQueued
    BY <1>12, CodeQuiet DEF NotifyQueued, NotifyWorker, BuildState, TypeOK
  <1>13. CASE LoadEntry
    <2>1. TopFrame' = TopFrame
      BY <1>13 DEF LoadEntry, TopFrame
    <2>2. QED  BY <1>13, <2>1 DEF LoadEntry
  <1>14. CASE Adopt
    <2>1. TopFrame' = TopFrame /\ TopFrame \in Function
      BY <1>14, TopFrameRuns DEF Adopt, TopFrame, ThreadInv
    <2>2. QED  BY <1>14, <2>1 DEF Adopt, TypeOK
  <1>15. CASE Sweep
    BY <1>15, CodeQuiet DEF Sweep
  <1>16. CASE NotifyHold
    BY <1>16, CodeQuiet DEF NotifyHold, NotifyWorker, BuildState
  <1>17. CASE NotifyStop
    BY <1>17, CodeQuiet DEF NotifyStop, NotifyWorker, BuildState
  <1>18. CASE Join
    BY <1>18, CodeQuiet DEF Join, NotifyIdle
  <1>19. CASE LogCancelled
    BY <1>19, CodeQuiet DEF LogCancelled
  <1>20. CASE RemoveRootMarker
    BY <1>20, CodeQuiet DEF RemoveRootMarker
  <1>21. CASE Destroy
    BY <1>21 DEF Destroy, ThreadInv, JoinedState, BuildState
  <1>22. CASE WorkerStop
    BY <1>22, CodeQuiet DEF WorkerStop, BuildState
  <1>23. CASE WorkerTake
    <2>1. compiling = NoFunction /\ Head(queue) \in Range(queue) /\ Head(queue) \in Function
      BY <1>23, RangeTail DEF WorkerTake, ThreadInv, BuildState, TypeOK
    <2>2. Head(queue) \notin compiled /\ compiling \notin Function
      BY <2>1, ConstantsAssumption DEF StageInv, Pending
    <2>3. published = compiled
      <3>1. /\ compiled \subseteq published /\ published \subseteq compiled \cup {compiling}
            /\ published \subseteq Function
        BY DEF CodeInv, TypeOK
      <3>2. QED  BY <2>2, <3>1
    <2>4. UNCHANGED TopFrame
      BY <1>23 DEF WorkerTake, TopFrame
    <2>5. QED  BY <1>23, <2>2, <2>3, <2>4 DEF WorkerTake, BuildState
  <1>24. CASE WorkerSleep
    BY <1>24, CodeQuiet DEF WorkerSleep, BuildState
  <1>25. CASE WorkerBuild
    <2>1. compiling \in Function /\ UNCHANGED TopFrame /\ compiling \notin published
      BY <1>25 DEF WorkerBuild, ThreadInv, BuildState, TypeOK, TopFrame
    <2>2. \A f \in published : code'[f] = code[f]
      BY <1>25, <2>1 DEF WorkerBuild, TypeOK
    <2>3. QED  BY <1>25, <2>1, <2>2 DEF WorkerBuild, BuildState
  <1>26. CASE WorkerAbort
    BY <1>26, CodeQuiet DEF WorkerAbort, BuildState, ThreadInv, JoinedState
  <1>27. CASE WorkerFlush
    <2>1. compiling \in Function /\ UNCHANGED TopFrame /\ compiling \notin published
      BY <1>27 DEF WorkerFlush, ThreadInv, BuildState, TypeOK, TopFrame
    <2>2. \A f \in published : code'[f] = code[f]
      BY <1>27, <2>1 DEF WorkerFlush, TypeOK
    <2>3. code'[compiling] = "flushed"
      BY <1>27, <2>1 DEF WorkerFlush, TypeOK
    <2>4. QED  BY <1>27, <2>1, <2>2, <2>3 DEF WorkerFlush, BuildState
  <1>28. CASE WorkerPublish
    <2>1. UNCHANGED TopFrame
      BY <1>28 DEF WorkerPublish, TopFrame
    <2>2. QED  BY <1>28, <2>1 DEF WorkerPublish, BuildState
  <1>29. CASE WorkerRecord
    <2>1. UNCHANGED TopFrame
      BY <1>29 DEF WorkerRecord, TopFrame
    <2>2. NoFunction \notin published
      BY ConstantsAssumption DEF TypeOK
    <2>3. QED  BY <1>29, <2>1, <2>2 DEF WorkerRecord, BuildState
  <1>30. CASE WorkerWakes
    BY <1>30, CodeQuiet DEF WorkerWakes, BuildState
  <1>31. ASSUME NEW w \in Waiter, StartWait(w) PROVE CodeInv'
    BY <1>31, CodeQuiet DEF StartWait
  <1>32. ASSUME NEW w \in Waiter, CheckIdle(w) PROVE CodeInv'
    BY <1>32, CodeQuiet DEF CheckIdle
  <1>33. ASSUME NEW w \in Waiter, WaiterWakes(w) PROVE CodeInv'
    BY <1>33, CodeQuiet DEF WaiterWakes
  <1>34. CASE UNCHANGED vars
    BY <1>34, CodeQuiet
  <1>35. QED
    BY <1>1, <1>2, <1>3, <1>4, <1>5, <1>6, <1>7, <1>8, <1>9, <1>10, <1>11, <1>12, <1>13, <1>14, <1>15, <1>16, <1>17, <1>18, <1>19, <1>20, <1>21, <1>22, <1>23, <1>24, <1>25, <1>26, <1>27, <1>28, <1>29, <1>30, <1>31, <1>32, <1>33, <1>34
    DEF Next, Program, EngineStep, WorkerStep, Terminated

-----------------------------------------------------------------------------
(* The heap: every root is alive.                                          *)

rootVars == <<rooted, frames, queue, compiling>>

\* Every root is alive.
LEMMA HeapInit == Init => HeapInv
  <1>1. ASSUME Init PROVE Roots \subseteq Function
    <2>1. Script \in Function /\ frames \in Seq(Function) /\ queue \in Seq(Function)
      BY <1>1, ConstantsAssumption DEF Init
    <2>2. QED  BY <1>1, <2>1, RangeType DEF Init, Roots, Pending
  <1>2. QED  BY <1>1, ConstantsAssumption DEF Init, HeapInv, ShuttingDown

\* The roots depend on the registers, the frames and what is pending.
LEMMA RootsQuiet == UNCHANGED rootVars => Roots' = Roots
  BY DEF rootVars, Roots, Pending

\* A step that frees nothing and adds no root.
LEMMA HeapQuiet ==
    ASSUME HeapInv, Roots' \subseteq Roots, UNCHANGED <<alive, marked, dropped>>,
           engine' = "done" \/ engine # "done",
           engine' = "sweep" => engine = "sweep",
           engine' \in ShuttingDown => engine \in ShuttingDown
    PROVE  HeapInv'
  BY DEF HeapInv

\* No step frees a root, and no new root is a freed function.
LEMMA HeapStep ==
    ASSUME TypeOK, ThreadInv, HeapInv, [Next]_vars PROVE HeapInv'
  <1> USE DEF vars, heapVars, functionVars, lockedVars, codeVars
  <1>1. ASSUME NEW f \in Function, Call(f) PROVE HeapInv'
    <2>1. /\ Range(frames') = Range(frames) \cup {f} /\ f \in rooted
          /\ engine = "vm" /\ engine' \in {"vm", "entry", "enqueue", "aborted"}
      BY <1>1, RangeAppend DEF Call, JitCount, CountOnly, CountAndQueue, CountAndCompile, CountAndAbort, TypeOK
    <2>2. Roots' = Roots
      BY <1>1, <2>1 DEF Call, JitCount, Roots, Pending
    <2>3. QED  BY <1>1, <2>1, <2>2, HeapQuiet DEF Call, JitCount, ShuttingDown
  <1>2. ASSUME NEW f \in Function, MakeClosure(f) PROVE HeapInv'
    <2>1. TopFrame \in alive
      BY <1>2, TopFrameRuns DEF MakeClosure, HeapInv, Roots
    <2>2. Roots' = Roots \cup {f} /\ f \in alive /\ engine = "vm" /\ engine' = "vm"
      BY <1>2, <2>1 DEF MakeClosure, Roots, Pending, HeapInv
    <2>3. QED  BY <1>2, <2>2 DEF MakeClosure, HeapInv, ShuttingDown
  <1>3. ASSUME NEW f \in Function, Forget(f) PROVE HeapInv'
    <2>1. Roots' \subseteq Roots
      BY <1>3 DEF Forget, Roots, Pending
    <2>2. QED  BY <1>3, <2>1, HeapQuiet DEF Forget
  <1>4. CASE BackEdge
    <2>1. engine = "vm" /\ engine' \in {"vm", "enqueue", "aborted"} /\ UNCHANGED rootVars
      BY <1>4 DEF BackEdge, JitCount, CountOnly, CountAndQueue, CountAndCompile, CountAndAbort, rootVars
    <2>2. QED  BY <1>4, <2>1, RootsQuiet, HeapQuiet DEF BackEdge, JitCount, ShuttingDown
  <1>5. CASE LeaveCode
    BY <1>5, RootsQuiet, HeapQuiet DEF LeaveCode, rootVars, ShuttingDown
  <1>6. CASE Return
    <2>1. Range(frames') \subseteq Range(frames)
      BY <1>6, RangeFront DEF Return, TypeOK
    <2>2. Roots' \subseteq Roots
      BY <1>6, <2>1 DEF Return, Roots, Pending
    <2>3. QED  BY <1>6, <2>2, HeapQuiet DEF Return
  <1>7. CASE TakeError
    <2>1. Roots' \subseteq Roots
      BY <1>7, RangeEmpty DEF TakeError, Roots, Pending
    <2>2. QED  BY <1>7, <2>1, HeapQuiet DEF TakeError
  <1>8. CASE Mark
    <2>1. Roots \in SUBSET Function
      BY PendingType, RangeType DEF Roots, TypeOK
    <2>2. Roots' = Roots
      BY <1>8, RootsQuiet DEF Mark, rootVars
    <2>3. QED  BY <1>8, <2>1, <2>2, ReachClosed DEF Mark, HeapInv, ShuttingDown
  <1>9. ASSUME NEW hold \in BOOLEAN, Hold(hold) PROVE HeapInv'
    BY <1>9, RootsQuiet, HeapQuiet DEF Hold, rootVars, ShuttingDown
  <1>10. CASE Shutdown
    <2>1. CASE background
      <3>1. /\ queue' = <<>> /\ dropped' = Range(queue) /\ engine = "vm" /\ engine' = "stopNotify"
            /\ UNCHANGED <<alive, marked, rooted, frames, compiling>>
        BY <1>10, <2>1 DEF Shutdown
      <3>2. Roots' \subseteq Roots /\ Range(queue) \subseteq Roots
        BY <3>1, RangeEmpty DEF Roots, Pending
      <3>3. QED  BY <3>1, <3>2 DEF HeapInv
    <2>2. CASE ~background
      BY <1>10, <2>2, RootsQuiet, HeapQuiet DEF Shutdown, rootVars, ShuttingDown
    <2>3. QED  BY <2>1, <2>2 DEF TypeOK
  <1>11. CASE Enqueue
    <2>1. TopFrame \in Range(frames) /\ TopFrame \in Function /\ engine = "enqueue"
      BY <1>11, TopFrameRuns DEF Enqueue, ThreadInv
    <2>2. queue' = queue \/ queue' = Append(queue, TopFrame)
      BY <1>11 DEF Enqueue
    <2>3. Range(queue') \subseteq Range(queue) \cup {TopFrame}
      <3>1. Range(Append(queue, TopFrame)) = Range(queue) \cup {TopFrame}
        BY <2>1, RangeAppend DEF TypeOK
      <3>2. QED  BY <2>2, <3>1
    <2>4. Roots' \subseteq Roots
      BY <1>11, <2>1, <2>3 DEF Enqueue, Roots, Pending
    <2>5. engine' \in {"notify", "vm", "entry"}
      BY <1>11 DEF Enqueue, TypeOK
    <2>6. QED  BY <1>11, <2>1, <2>4, <2>5, HeapQuiet DEF Enqueue, ShuttingDown
  <1>12. CASE NotifyQueued
    <2>1. engine = "notify" /\ engine' \in {"vm", "entry"} /\ UNCHANGED rootVars
      BY <1>12 DEF NotifyQueued, TypeOK, rootVars
    <2>2. QED  BY <1>12, <2>1, RootsQuiet, HeapQuiet DEF NotifyQueued, ShuttingDown
  <1>13. CASE LoadEntry
    BY <1>13, RootsQuiet, HeapQuiet DEF LoadEntry, rootVars, ShuttingDown
  <1>14. CASE Adopt
    BY <1>14, RootsQuiet, HeapQuiet DEF Adopt, rootVars, ShuttingDown
  <1>15. CASE Sweep
    <2>1. Roots' = Roots
      BY <1>15, RootsQuiet DEF Sweep, rootVars
    <2>2. QED  BY <1>15, <2>1 DEF Sweep, HeapInv, ShuttingDown
  <1>16. CASE NotifyHold
    BY <1>16, RootsQuiet, HeapQuiet DEF NotifyHold, NotifyWorker, rootVars, ShuttingDown
  <1>17. CASE NotifyStop
    BY <1>17, RootsQuiet, HeapQuiet DEF NotifyStop, NotifyWorker, rootVars, ShuttingDown
  <1>18. CASE Join
    BY <1>18, RootsQuiet, HeapQuiet DEF Join, NotifyIdle, rootVars, ShuttingDown
  <1>19. CASE LogCancelled
    BY <1>19, RootsQuiet, HeapQuiet DEF LogCancelled, rootVars, ShuttingDown
  <1>20. CASE RemoveRootMarker
    BY <1>20, RootsQuiet, HeapQuiet DEF RemoveRootMarker, rootVars, ShuttingDown
  <1>21. CASE Destroy
    BY <1>21 DEF Destroy, HeapInv, ShuttingDown
  <1>22. CASE WorkerStop
    BY <1>22, RootsQuiet, HeapQuiet DEF WorkerStop, rootVars, ShuttingDown
  <1>23. CASE WorkerTake
    <2>1. compiling = NoFunction /\ Head(queue) # NoFunction
      BY <1>23, RangeTail, ConstantsAssumption DEF WorkerTake, ThreadInv, BuildState, TypeOK
    <2>2. Range(queue) = {Head(queue)} \cup Range(Tail(queue))
      BY <1>23, RangeTail DEF WorkerTake, TypeOK
    <2>3. Roots' = Roots
      BY <1>23, <2>1, <2>2 DEF WorkerTake, Roots, Pending
    <2>4. QED  BY <1>23, <2>3, HeapQuiet DEF WorkerTake
  <1>24. CASE WorkerSleep
    BY <1>24, RootsQuiet, HeapQuiet DEF WorkerSleep, rootVars, ShuttingDown
  <1>25. CASE WorkerBuild
    BY <1>25, RootsQuiet, HeapQuiet DEF WorkerBuild, rootVars, ShuttingDown
  <1>26. CASE WorkerAbort
    BY <1>26, RootsQuiet, HeapQuiet DEF WorkerAbort, rootVars, ShuttingDown, ThreadInv, JoinedState
  <1>27. CASE WorkerFlush
    BY <1>27, RootsQuiet, HeapQuiet DEF WorkerFlush, rootVars, ShuttingDown
  <1>28. CASE WorkerPublish
    BY <1>28, RootsQuiet, HeapQuiet DEF WorkerPublish, rootVars, ShuttingDown
  <1>29. CASE WorkerRecord
    <2>1. Roots' \subseteq Roots
      BY <1>29 DEF WorkerRecord, Roots, Pending
    <2>2. QED  BY <1>29, <2>1, HeapQuiet DEF WorkerRecord
  <1>30. CASE WorkerWakes
    BY <1>30, RootsQuiet, HeapQuiet DEF WorkerWakes, rootVars, ShuttingDown
  <1>31. ASSUME NEW w \in Waiter, StartWait(w) PROVE HeapInv'
    BY <1>31, RootsQuiet, HeapQuiet DEF StartWait, rootVars, ShuttingDown
  <1>32. ASSUME NEW w \in Waiter, CheckIdle(w) PROVE HeapInv'
    BY <1>32, RootsQuiet, HeapQuiet DEF CheckIdle, rootVars, ShuttingDown
  <1>33. ASSUME NEW w \in Waiter, WaiterWakes(w) PROVE HeapInv'
    BY <1>33, RootsQuiet, HeapQuiet DEF WaiterWakes, rootVars, ShuttingDown
  <1>34. CASE UNCHANGED vars
    BY <1>34, RootsQuiet, HeapQuiet DEF rootVars
  <1>35. QED
    BY <1>1, <1>2, <1>3, <1>4, <1>5, <1>6, <1>7, <1>8, <1>9, <1>10, <1>11, <1>12, <1>13, <1>14, <1>15, <1>16, <1>17, <1>18, <1>19, <1>20, <1>21, <1>22, <1>23, <1>24, <1>25, <1>26, <1>27, <1>28, <1>29, <1>30, <1>31, <1>32, <1>33, <1>34
    DEF Next, Program, EngineStep, WorkerStep, Terminated

-----------------------------------------------------------------------------
(* The theorems.                                                           *)

\* The inductive invariant holds initially.
LEMMA IInvInit == Init => IInv
  BY TypeInit, ThreadInit, CountInit, StageInit, CodeInit, HeapInit DEF IInv

\* Every step keeps it.
LEMMA IInvStep == IInv /\ [Next]_vars => IInv'
  BY TypeStep, ThreadStep, CountStep, StageStep, CodeStep, HeapStep DEF IInv

\* The inductive invariant holds in every reachable state.
THEOREM Invariant == Spec => []IInv
  BY IInvInit, IInvStep, PTL DEF Spec

\* Once shutdown has joined the compiler thread, nothing is pending.
LEMMA JoinedIsOver ==
    ASSUME IInv, engine \in JoinedState
    PROVE  worker = "exited" /\ Pending = {}
  <1>1. worker = "exited" /\ queue = <<>> /\ compiling = NoFunction
    BY DEF IInv, ThreadInv, JoinedState, ShutdownState, BuildState, TypeOK
  <1>2. QED  BY <1>1, RangeEmpty DEF Pending

\* A function that is still counted has never been handed over.
LEMMA ColdHasNothing ==
    ASSUME IInv, NEW f \in Function, status[f] = "Cold"
    PROVE  f \notin published \cup rejected \cup dropped
  <1>1. f \notin Pending \cup compiled \cup rejected \cup dropped
    BY DEF IInv, StageInv
  <1>2. f \notin published
    BY <1>1, ConstantsAssumption DEF IInv, CodeInv, Pending
  <1>3. QED  BY <1>1, <1>2

\* Every variable keeps its type; in particular jit_count stops counting at
\* the threshold, whatever the threshold is.
THEOREM TypeCorrect == Spec => []TypeOK
  <1>1. IInv => TypeOK
    BY DEF IInv
  <1>2. QED  BY <1>1, Invariant, PTL

\* No thread follows a pointer to a function the collector freed.  The roots
\* are alive by HeapInv; when the engine is gone, nothing is pending.
THEOREM NeverUsedAfterFree == Spec => []NoUseAfterFree
  <1>1. IInv => NoUseAfterFree
    <2> SUFFICES ASSUME IInv PROVE NoUseAfterFree
      OBVIOUS
    <2> USE DEF IInv
    <2>1. engine = "done" => Pending = {}
      BY JoinedIsOver DEF JoinedState
    <2>2. Pending \subseteq alive
      BY <2>1 DEF HeapInv, Roots
    <2>3. QED  BY <2>2 DEF NoUseAfterFree, HeapInv, Roots
  <1>2. QED  BY <1>1, Invariant, PTL

\* A function is queued, compiled and published at most once, and nothing
\* that was queued is lost.
THEOREM AlwaysQueuedOnce == Spec => []QueuedOnce
  <1>1. IInv => QueuedOnce
    BY DEF IInv, StageInv, QueuedOnce
  <1>2. QED  BY <1>1, Invariant, PTL

\* The engine enters only complete machine code.
THEOREM AlwaysCodeReady == Spec => []CodeReady
  <1>1. IInv => CodeReady
    BY DEF IInv, CodeInv, CodeReady
  <1>2. QED  BY <1>1, Invariant, PTL

\* A finished shutdown leaves nothing pending and nobody compiling.
THEOREM AlwaysShutdownComplete == Spec => []ShutdownComplete
  <1>1. IInv => ShutdownComplete
    BY JoinedIsOver DEF IInv, StageInv, ShutdownComplete, JoinedState
  <1>2. QED  BY <1>1, Invariant, PTL

-----------------------------------------------------------------------------
(***************************************************************************)
(* The JIT with its compiler thread implements the handoff that            *)
(* CodeHandoff promises to the register VM.                                *)
(***************************************************************************)
\* The values of the abstract variables.
stageMap == [f \in Function |-> StageOf(f)]
runningMap == IF engine = "code" THEN TopFrame ELSE NoFunction

HandoffStep == [Handoff!Next]_Handoff!vars

-----------------------------------------------------------------------------
(* Which abstract step a concrete one is.                                  *)

\* A step that touches nothing the promise is about.
LEMMA Stutter ==
    ASSUME UNCHANGED <<status, published, rejected, dropped, alive>>,
           UNCHANGED <<engine, frames>> \/ (engine # "code" /\ engine' # "code")
    PROVE  HandoffStep
  <1>1. UNCHANGED stageMap
    BY DEF stageMap, StageOf
  <1>2. UNCHANGED runningMap
    BY DEF runningMap, TopFrame
  <1>3. QED  BY <1>1, <1>2 DEF HandoffStep, Handoff!vars, stageMap, runningMap

\* What the compiler thread has, or will take, has no outcome yet.
LEMMA StagePending ==
    ASSUME IInv, NEW f \in Pending, f \in Function, f \notin published
    PROVE  stageMap[f] = "pending"
  <1>1. f \notin rejected \cup dropped
    BY DEF IInv, StageInv
  <1>2. status[f] # "Cold"
    BY DEF IInv, StageInv
  <1>3. QED  BY <1>1, <1>2 DEF stageMap, StageOf

\* Conversely, what has no outcome is a root of the collector or about to
\* be queued, as long as the process lives.
LEMMA PendingStage ==
    ASSUME IInv, engine \notin {"enqueue", "aborted"}, NEW f \in Function, stageMap[f] = "pending"
    PROVE  f \in Pending
  <1>1. f \notin published \cup rejected \cup dropped /\ status[f] # "Cold"
    BY DEF stageMap, StageOf
  <1>2. status[f] = "Queued"
    BY <1>1 DEF IInv, CodeInv, TypeOK
  <1>3. QED  BY <1>1, <1>2 DEF IInv, StageInv, CodeInv

\* The engine's thread jumps to code.
LEMMA EnterRefines ==
    ASSUME IInv, engine # "code", engine' = "code", engine \notin {"done", "aborted"},
           TopFrame \in Function, TopFrame \in published, frames # <<>>,
           UNCHANGED <<TopFrame, alive, published, rejected, dropped>>,
           \A f \in Function \ {TopFrame} : status'[f] = status[f]
    PROVE  HandoffStep
  <1>1. runningMap = NoFunction /\ runningMap' = TopFrame
    BY DEF runningMap
  <1>2. stageMap[TopFrame] = "compiled" /\ stageMap' = stageMap
    BY DEF stageMap, StageOf
  <1>3. TopFrame \in alive
    BY TopFrameRuns DEF IInv, HeapInv, Roots
  <1>4. Handoff!Enter(TopFrame)
    BY <1>1, <1>2, <1>3 DEF Handoff!Enter, stageMap, runningMap
  <1>5. QED  BY <1>4 DEF HandoffStep, Handoff!Next

\* It returns from code, or the process dies while code runs.
LEMMA LeaveRefines ==
    ASSUME IInv, engine = "code", engine' # "code",
           UNCHANGED <<status, published, rejected, dropped, alive>>
    PROVE  HandoffStep
  <1>1. runningMap = TopFrame /\ TopFrame \in Function /\ runningMap' = NoFunction
    BY TopFrameRuns DEF runningMap, IInv, ThreadInv
  <1>2. UNCHANGED stageMap
    BY DEF stageMap, StageOf
  <1>3. Handoff!Leave
    BY <1>1, <1>2, ConstantsAssumption DEF Handoff!Leave, stageMap, runningMap
  <1>4. QED  BY <1>3 DEF HandoffStep, Handoff!Next

\* jit_count asks for a compilation, or has it at once, or does neither.
LEMMA CountRefines ==
    ASSUME IInv, NEW f \in Function, NEW then \in {"vm", "entry"},
           JitCount(f, then), engine = "vm", UNCHANGED alive
    PROVE  HandoffStep
  <1> USE DEF codeVars
  <1>1. CASE CountOnly(f, then)
    BY <1>1, Stutter DEF CountOnly, JitCount
  <1>2. CASE CountAndQueue(f, then)
    <2>1. f \notin published \cup rejected \cup dropped /\ status[f] = "Cold"
      BY <1>2, ColdHasNothing DEF CountAndQueue, Counts, IInv
    <2>2. \A g \in Function : status'[g] = IF g = f THEN "Queued" ELSE status[g]
      BY <1>2 DEF CountAndQueue, IInv, TypeOK
    <2>3. stageMap[f] = "interpreted" /\ stageMap' = [stageMap EXCEPT ![f] = "pending"]
      <3>1. UNCHANGED <<published, rejected, dropped>>
        BY <1>2 DEF CountAndQueue, JitCount
      <3>2. QED  BY <2>1, <2>2, <3>1 DEF stageMap, StageOf
    <2>4. UNCHANGED runningMap
      BY <1>2 DEF CountAndQueue, runningMap
    <2>5. Handoff!Request(f)
      BY <2>3, <2>4 DEF Handoff!Request, stageMap, runningMap
    <2>6. QED  BY <2>5 DEF HandoffStep, Handoff!Next
  <1>3. CASE CountAndCompile(f, then)
    <2>1. f \notin published \cup rejected \cup dropped /\ status[f] = "Cold"
      BY <1>3, ColdHasNothing DEF CountAndCompile, Counts, IInv
    <2>2. UNCHANGED runningMap
      BY <1>3 DEF CountAndCompile, runningMap
    <2>3. CASE f \in Compilable
      <3>1. /\ \A g \in Function : status'[g] = IF g = f THEN "Compiled" ELSE status[g]
            /\ published' = published \cup {f} /\ UNCHANGED <<rejected, dropped>>
        BY <1>3, <2>3 DEF CountAndCompile, JitCount, IInv, TypeOK
      <3>2. stageMap[f] = "interpreted" /\ stageMap' = [stageMap EXCEPT ![f] = "compiled"]
        BY <2>1, <3>1 DEF stageMap, StageOf
      <3>3. Handoff!CompileAtOnce(f, "compiled")
        BY <2>2, <3>2 DEF Handoff!CompileAtOnce, stageMap, runningMap
      <3>4. QED  BY <3>3 DEF HandoffStep, Handoff!Next
    <2>4. CASE f \notin Compilable
      <3>1. /\ \A g \in Function : status'[g] = IF g = f THEN "Rejected" ELSE status[g]
            /\ rejected' = rejected \cup {f} /\ UNCHANGED <<published, dropped>>
        BY <1>3, <2>4 DEF CountAndCompile, JitCount, IInv, TypeOK
      <3>2. stageMap[f] = "interpreted" /\ stageMap' = [stageMap EXCEPT ![f] = "refused"]
        BY <2>1, <3>1 DEF stageMap, StageOf
      <3>3. Handoff!CompileAtOnce(f, "refused")
        BY <2>2, <3>2 DEF Handoff!CompileAtOnce, stageMap, runningMap
      <3>4. QED  BY <3>3 DEF HandoffStep, Handoff!Next
    <2>5. QED  BY <2>3, <2>4
  <1>4. CASE CountAndAbort(f)
    BY <1>4, Stutter DEF CountAndAbort, JitCount
  <1>5. QED  BY <1>1, <1>2, <1>3, <1>4 DEF JitCount

-----------------------------------------------------------------------------
(* The refinement.                                                         *)

\* Nothing is pending, compiled or running at the start, on both sides.
LEMMA HandoffInit == Init => Handoff!Init
  BY DEF Init, Handoff!Init, StageOf

\* Every step of the JIT is a step of the promise, or none.
LEMMA StepRefines == ASSUME IInv, [Next]_vars PROVE HandoffStep
  <1> USE DEF vars, heapVars, functionVars, lockedVars, codeVars
  <1>1. ASSUME NEW f \in Function, Call(f) PROVE HandoffStep
    <2>1. JitCount(f, "entry") /\ engine = "vm" /\ UNCHANGED alive
      BY <1>1 DEF Call
    <2>2. QED  BY <2>1, CountRefines
  <1>2. ASSUME NEW f \in Function, MakeClosure(f) PROVE HandoffStep
    BY <1>2, Stutter DEF MakeClosure
  <1>3. ASSUME NEW f \in Function, Forget(f) PROVE HandoffStep
    BY <1>3, Stutter DEF Forget
  <1>4. CASE BackEdge
    <2>1. JitCount(TopFrame, "vm") /\ engine = "vm" /\ TopFrame \in Function /\ UNCHANGED alive
      BY <1>4, TopFrameRuns DEF BackEdge, IInv
    <2>2. QED  BY <2>1, CountRefines
  <1>5. CASE LeaveCode
    <2>1. engine = "code" /\ engine' # "code" /\ UNCHANGED <<alive, status, published, rejected, dropped>>
      BY <1>5 DEF LeaveCode
    <2>2. QED  BY <2>1, LeaveRefines
  <1>6. CASE Return
    BY <1>6, Stutter DEF Return
  <1>7. CASE TakeError
    BY <1>7, Stutter DEF TakeError
  <1>8. CASE Mark
    BY <1>8, Stutter DEF Mark
  <1>9. ASSUME NEW hold \in BOOLEAN, Hold(hold) PROVE HandoffStep
    BY <1>9, Stutter DEF Hold
  <1>10. CASE Shutdown
    <2>1. CASE background
      <3>1. /\ dropped = {} /\ dropped' = Range(queue) /\ engine = "vm" /\ engine' = "stopNotify"
            /\ UNCHANGED <<status, published, rejected, alive>>
        BY <1>10, <2>1 DEF Shutdown, IInv, ThreadInv, ShutdownState
      <3>2. Range(queue) \subseteq Function /\ \A f \in Range(queue) : stageMap[f] = "pending"
        BY StagePending, RangeType DEF IInv, StageInv, CodeInv, TypeOK, Pending
      <3>3. runningMap' = NoFunction /\ runningMap = NoFunction
        BY <3>1 DEF runningMap
      <3>4. stageMap' = [f \in Function |-> IF f \in Range(queue) THEN "refused" ELSE stageMap[f]]
        BY <3>1, <3>2 DEF stageMap, StageOf
      <3>5. Handoff!Refuse(Range(queue))
        BY <3>1, <3>2, <3>3, <3>4 DEF Handoff!Refuse, stageMap, runningMap
      <3>6. QED  BY <3>2, <3>5 DEF HandoffStep, Handoff!Next
    <2>2. CASE ~background
      BY <1>10, <2>2, Stutter DEF Shutdown
    <2>3. QED  BY <2>1, <2>2 DEF IInv, TypeOK
  <1>11. CASE Enqueue
    BY <1>11, Stutter DEF Enqueue, IInv, TypeOK
  <1>12. CASE NotifyQueued
    BY <1>12, Stutter DEF NotifyQueued, NotifyWorker, IInv, TypeOK
  <1>13. CASE LoadEntry
    <2>1. TopFrame \in Function /\ UNCHANGED <<TopFrame, alive, status, published, rejected, dropped>>
      BY <1>13, TopFrameRuns DEF LoadEntry, IInv, ThreadInv, TopFrame
    <2>2. CASE engine' = "code"
      <3>1. TopFrame \in published
        BY <1>13, <2>2 DEF LoadEntry
      <3>2. QED  BY <1>13, <2>1, <2>2, <3>1, EnterRefines DEF LoadEntry, IInv, ThreadInv
    <2>3. CASE engine' # "code"
      BY <1>13, <2>1, <2>3, Stutter DEF LoadEntry
    <2>4. QED  BY <2>2, <2>3
  <1>14. CASE Adopt
    <2>1. TopFrame \in Function /\ TopFrame \in published /\ UNCHANGED <<TopFrame, alive, published, rejected, dropped>>
      BY <1>14, TopFrameRuns DEF Adopt, IInv, ThreadInv, CodeInv, TopFrame
    <2>2. \A f \in Function \ {TopFrame} : status'[f] = status[f]
      BY <1>14 DEF Adopt, IInv, TypeOK
    <2>3. QED  BY <1>14, <2>1, <2>2, EnterRefines DEF Adopt, IInv, ThreadInv
  <1>15. CASE Sweep
    <2>1. \A f \in alive \ marked : stageMap[f] # "pending"
      BY <1>15, PendingStage DEF Sweep, IInv, HeapInv, Roots, TypeOK
    <2>2. UNCHANGED <<stageMap, runningMap>> /\ runningMap = NoFunction
      BY <1>15 DEF Sweep, stageMap, StageOf, runningMap
    <2>3. alive' = alive \ (alive \ marked) /\ alive \ marked \in SUBSET Function
      BY <1>15 DEF Sweep, IInv, TypeOK
    <2>4. Handoff!Free(alive \ marked)
      BY <2>1, <2>2, <2>3, ConstantsAssumption DEF Handoff!Free, stageMap, runningMap, IInv, TypeOK
    <2>5. QED  BY <2>3, <2>4 DEF HandoffStep, Handoff!Next
  <1>16. CASE NotifyHold
    BY <1>16, Stutter DEF NotifyHold, NotifyWorker
  <1>17. CASE NotifyStop
    BY <1>17, Stutter DEF NotifyStop, NotifyWorker
  <1>18. CASE Join
    BY <1>18, Stutter DEF Join, NotifyIdle
  <1>19. CASE LogCancelled
    BY <1>19, Stutter DEF LogCancelled
  <1>20. CASE RemoveRootMarker
    BY <1>20, Stutter DEF RemoveRootMarker
  <1>21. CASE Destroy
    <2>1. Pending = {} /\ engine = "unrooted" /\ engine' = "done"
      BY <1>21, JoinedIsOver DEF Destroy, JoinedState
    <2>2. \A f \in alive : stageMap[f] # "pending"
      BY <2>1, PendingStage DEF IInv, TypeOK
    <2>3. UNCHANGED <<stageMap, runningMap>> /\ runningMap = NoFunction /\ alive' = alive \ alive
      BY <1>21, <2>1 DEF Destroy, stageMap, StageOf, runningMap
    <2>4. Handoff!Free(alive)
      BY <2>2, <2>3, ConstantsAssumption DEF Handoff!Free, stageMap, runningMap, IInv, TypeOK
    <2>5. QED  BY <2>4 DEF HandoffStep, Handoff!Next, IInv, TypeOK
  <1>22. CASE WorkerStop
    BY <1>22, Stutter DEF WorkerStop
  <1>23. CASE WorkerTake
    BY <1>23, Stutter DEF WorkerTake
  <1>24. CASE WorkerSleep
    BY <1>24, Stutter DEF WorkerSleep
  <1>25. CASE WorkerBuild
    BY <1>25, Stutter DEF WorkerBuild
  <1>26. CASE WorkerAbort
    <2>1. engine' # "code" /\ UNCHANGED <<alive, status, published, rejected, dropped>>
      BY <1>26 DEF WorkerAbort
    <2>2. QED  BY <2>1, LeaveRefines, Stutter
  <1>27. CASE WorkerFlush
    BY <1>27, Stutter DEF WorkerFlush
  <1>28. CASE WorkerPublish
    <2>1. /\ compiling \in Function /\ compiling \in Pending
          /\ UNCHANGED <<status, rejected, dropped, alive, engine, frames>>
          /\ published' = published \cup {compiling} /\ compiling \notin published
      BY <1>28 DEF WorkerPublish, IInv, ThreadInv, CodeInv, BuildState, TypeOK, Pending
    <2>2. stageMap[compiling] = "pending"
      BY <2>1, StagePending
    <2>3. stageMap' = [stageMap EXCEPT ![compiling] = "compiled"]
      BY <2>1, <2>2 DEF stageMap, StageOf
    <2>4. UNCHANGED runningMap
      BY <2>1 DEF runningMap, TopFrame
    <2>5. Handoff!Publish(compiling)
      BY <2>1, <2>2, <2>3, <2>4 DEF Handoff!Publish, stageMap, runningMap
    <2>6. QED  BY <2>1, <2>5 DEF HandoffStep, Handoff!Next
  <1>29. CASE WorkerRecord
    <2>1. /\ compiling \in Function /\ compiling \in Pending
          /\ UNCHANGED <<status, published, dropped, alive, engine, frames>>
      BY <1>29 DEF WorkerRecord, IInv, ThreadInv, TypeOK, Pending
    <2>2. UNCHANGED runningMap
      BY <2>1 DEF runningMap, TopFrame
    <2>3. CASE compiling \in published
      BY <1>29, <2>1, <2>3, Stutter DEF WorkerRecord
    <2>4. CASE compiling \notin published
      <3>1. stageMap[compiling] = "pending" /\ rejected' = rejected \cup {compiling}
        BY <1>29, <2>1, <2>4, StagePending DEF WorkerRecord
      <3>2. stageMap' = [f \in Function |-> IF f \in {compiling} THEN "refused" ELSE stageMap[f]]
        BY <2>1, <2>4, <3>1 DEF stageMap, StageOf
      <3>3. Handoff!Refuse({compiling})
        BY <2>1, <2>2, <3>1, <3>2 DEF Handoff!Refuse, stageMap, runningMap
      <3>4. QED  BY <2>1, <3>3 DEF HandoffStep, Handoff!Next
    <2>5. QED  BY <2>3, <2>4
  <1>30. CASE WorkerWakes
    BY <1>30, Stutter DEF WorkerWakes
  <1>31. ASSUME NEW w \in Waiter, StartWait(w) PROVE HandoffStep
    BY <1>31, Stutter DEF StartWait
  <1>32. ASSUME NEW w \in Waiter, CheckIdle(w) PROVE HandoffStep
    BY <1>32, Stutter DEF CheckIdle
  <1>33. ASSUME NEW w \in Waiter, WaiterWakes(w) PROVE HandoffStep
    BY <1>33, Stutter DEF WaiterWakes
  <1>34. CASE UNCHANGED vars
    BY <1>34, Stutter
  <1>35. QED
    BY <1>1, <1>2, <1>3, <1>4, <1>5, <1>6, <1>7, <1>8, <1>9, <1>10, <1>11, <1>12, <1>13, <1>14, <1>15, <1>16, <1>17, <1>18, <1>19, <1>20, <1>21, <1>22, <1>23, <1>24, <1>25, <1>26, <1>27, <1>28, <1>29, <1>30, <1>31, <1>32, <1>33, <1>34
    DEF Next, Program, EngineStep, WorkerStep, Terminated

\* The background JIT keeps the promise of CodeHandoff: at most one
\* compilation per function, code entered only after it is published, and
\* nothing pending freed, for any number of functions and waiting threads.
THEOREM Implements == Spec => ImplementsHandoff
  <1>1. IInv /\ [Next]_vars => [Handoff!Next]_Handoff!vars
    BY StepRefines DEF HandoffStep
  <1>2. QED
    BY <1>1, HandoffInit, Invariant, PTL DEF Spec, ImplementsHandoff, Handoff!Spec

=============================================================================
