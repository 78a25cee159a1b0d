------------------------ MODULE RegisterMachineProofs ------------------------
(***************************************************************************)
(* What the register machine and its machine code keep to, for all code    *)
(* that fits together: cached cells never go stale, and the newest frames  *)
(* are those of the calls in machine code.  As long as no array or string  *)
(* is longer than an int can say, they stay inside the code of the         *)
(* function they run and inside its window of the registers.  Where        *)
(* moreover every call's window is above the captured variables, every     *)
(* step of machine code is a step of the interpreter: a run with a JIT is  *)
(* a run without one.                                                      *)
(***************************************************************************)
EXTENDS RegisterMachine, ValueTheorems

-----------------------------------------------------------------------------
(* What an instruction does to the frames.                                 *)

\* It goes on in the newest frame, ends in an error, or returns.
GoesOn == /\ \E pc : frames' = [frames EXCEPT ![Len(frames)].pc = pc]
          /\ status' = status
Fails == frames' = <<>> /\ status' = "failed"
PopsFrame == /\ frames' = Front(frames)
             /\ status' = IF Len(frames) = 1 THEN "finished" ELSE status

LEMMA FailAtFails == ASSUME NEW m, NEW w, NEW r, FailAt(m, w, r) PROVE Fails
  BY DEF FailAt, Fails

LEMMA FailFails == ASSUME NEW m, FAIL(m) PROVE Fails
  BY FailAtFails DEF FAIL

LEMMA ContinueGoesOn == ASSUME NEW w, Continue(w), status' = status PROVE GoesOn
  BY DEF Continue, GoesOn

LEMMA SetGoesOn == ASSUME NEW v, Set(v) PROVE GoesOn
  BY ContinueGoesOn DEF Set, run_vars

LEMMA TakeMoves == ASSUME NEW e, NEW w, Take(e, w) PROVE GoesOn \/ Fails
  BY ContinueGoesOn, FailAtFails DEF Take, run_vars

LEMMA ReturnPops == ASSUME NEW v, ReturnWith(v) PROVE PopsFrame
  BY DEF ReturnWith, PopsFrame

LEMMA BranchMoves == ASSUME Branch PROVE status = "running" /\ (GoesOn \/ Fails)
  <1>1. CASE Jump
    BY <1>1, TakeMoves DEF Jump, Dispatch
  <1>2. CASE Superinstruction
    BY <1>2, TakeMoves DEF Superinstruction, Dispatch
  <1>3. QED  BY <1>1, <1>2 DEF Branch

LEMMA StraightMoves ==
    ASSUME Straight PROVE status = "running" /\ (GoesOn \/ Fails \/ PopsFrame)
  <1>1. CASE Move \/ LoadK \/ LoadNil \/ LoadTrue \/ LoadFalse \/ GetUpvalue
    BY <1>1, SetGoesOn
       DEF Move, LoadK, LoadNil, LoadTrue, LoadFalse, GetUpvalue, Load, Dispatch
  <1>2. CASE GetGlobal
    BY <1>2, SetGoesOn DEF GetGlobal, Dispatch
  <1>3. CASE SetGlobal \/ DefineGlobal
    BY <1>3, ContinueGoesOn DEF SetGlobal, DefineGlobal, StoreGlobal, Dispatch, run_vars
  <1>4. CASE GlobalFails
    BY <1>4, FailFails DEF GlobalFails, Dispatch
  <1>5. CASE SetUpvalue
    BY <1>5, ContinueGoesOn DEF SetUpvalue, Dispatch, run_vars
  <1>6. CASE Operate
    BY <1>6, TakeMoves DEF Operate, Dispatch
  <1>7. CASE Array
    BY <1>7, SetGoesOn DEF Array, Dispatch
  <1>8. CASE ArrayAppend
    BY <1>8, ContinueGoesOn DEF ArrayAppend, Dispatch, run_vars
  <1>9. CASE PrintValue
    BY <1>9, ContinueGoesOn DEF PrintValue, Dispatch, run_vars
  <1>10. CASE Closure
    BY <1>10, ContinueGoesOn DEF Closure, Dispatch, run_vars
  <1>11. CASE Close
    BY <1>11, ContinueGoesOn DEF Close, Dispatch, run_vars
  <1>12. CASE CallNativeFunction
    BY <1>12, FailFails, SetGoesOn DEF CallNativeFunction, Dispatch
  <1>13. CASE CallFails
    BY <1>13, FailFails DEF CallFails, Dispatch
  <1>14. CASE Return \/ ReturnNil
    BY <1>14, ReturnPops DEF Return, ReturnNil, Dispatch
  <1>15. QED
    BY <1>1, <1>2, <1>3, <1>4, <1>5, <1>6, <1>7, <1>8, <1>9, <1>10, <1>11, <1>12, <1>13,
       <1>14 DEF Straight

-----------------------------------------------------------------------------
(* Cached cells.                                                           *)

CacheInv ==
    /\ WellFormed(functions)
    /\ \A f \in DOMAIN caches : f \in DOMAIN functions /\ DOMAIN caches[f] = DOMAIN functions[f].code
    /\ CacheNeverStale

\* A cell is filled by an access to a global that is there.
FillsCell == /\ Remember
             /\ insn.op \in {"GetGlobal", "SetGlobal"}
             /\ found

GlobalsKept == DOMAIN globals \subseteq DOMAIN globals'

\* No step changes the code or takes a global away, and only an access to a
\* global touches the cells.
CacheStep == /\ UNCHANGED program_vars
             /\ GlobalsKept
             /\ UNCHANGED caches \/ FillsCell

LEMMA StoreGlobalKeeps ==
    ASSUME NEW x, StoreGlobal(x) PROVE UNCHANGED program_vars /\ GlobalsKept
  BY DEF StoreGlobal, GlobalsKept

LEMMA SetKeepsGlobals ==
    ASSUME NEW v, Set(v) PROVE UNCHANGED program_vars /\ GlobalsKept
  BY DEF Set, GlobalsKept

LEMMA FailAtKeepsGlobals ==
    ASSUME NEW m, NEW w, NEW r, FailAt(m, w, r) PROVE UNCHANGED program_vars /\ GlobalsKept
  BY DEF FailAt, GlobalsKept

LEMMA FailKeepsCaches == ASSUME NEW m, FAIL(m) PROVE CacheStep
  BY FailAtKeepsGlobals DEF FAIL, CacheStep

LEMMA TakeKeepsCaches == ASSUME NEW e, NEW w, Take(e, w) PROVE CacheStep
  BY FailAtKeepsGlobals DEF Take, CacheStep, GlobalsKept

LEMMA ReturnKeepsCaches == ASSUME NEW v, ReturnWith(v) PROVE CacheStep
  BY DEF ReturnWith, CacheStep, GlobalsKept

LEMMA BranchKeepsCaches == ASSUME Branch PROVE CacheStep
  <1>1. CASE Jump
    BY <1>1, TakeKeepsCaches DEF Jump
  <1>2. CASE Superinstruction
    BY <1>2, TakeKeepsCaches DEF Superinstruction
  <1>3. QED  BY <1>1, <1>2 DEF Branch

LEMMA StraightKeepsCaches == ASSUME Straight PROVE CacheStep
  <1>1. CASE Move \/ LoadK \/ LoadNil \/ LoadTrue \/ LoadFalse \/ GetUpvalue
    BY <1>1, SetKeepsGlobals
       DEF Move, LoadK, LoadNil, LoadTrue, LoadFalse, GetUpvalue, Load, CacheStep
  <1>2. CASE GetGlobal
    BY <1>2, SetKeepsGlobals DEF GetGlobal, Dispatch, CacheStep, FillsCell
  <1>3. CASE SetGlobal
    BY <1>3, StoreGlobalKeeps DEF SetGlobal, Dispatch, CacheStep, FillsCell
  <1>4. CASE DefineGlobal
    BY <1>4, StoreGlobalKeeps DEF DefineGlobal, CacheStep
  <1>5. CASE GlobalFails
    BY <1>5, FailKeepsCaches DEF GlobalFails
  <1>6. CASE SetUpvalue
    BY <1>6 DEF SetUpvalue, CacheStep, GlobalsKept
  <1>7. CASE Operate
    BY <1>7, TakeKeepsCaches DEF Operate
  <1>8. CASE Array
    BY <1>8, SetKeepsGlobals DEF Array, CacheStep
  <1>9. CASE ArrayAppend
    BY <1>9 DEF ArrayAppend, CacheStep, GlobalsKept
  <1>10. CASE PrintValue
    BY <1>10 DEF PrintValue, CacheStep, GlobalsKept
  <1>11. CASE Closure
    BY <1>11 DEF Closure, CacheStep, GlobalsKept
  <1>12. CASE Close
    BY <1>12 DEF Close, CacheStep, GlobalsKept
  <1>13. CASE CallNativeFunction
    BY <1>13, FailKeepsCaches, SetKeepsGlobals DEF CallNativeFunction, CacheStep
  <1>14. CASE CallFails
    BY <1>14, FailKeepsCaches DEF CallFails
  <1>15. CASE Return \/ ReturnNil
    BY <1>15, ReturnKeepsCaches DEF Return, ReturnNil
  <1>16. QED
    BY <1>1, <1>2, <1>3, <1>4, <1>5, <1>6, <1>7, <1>8, <1>9, <1>10, <1>11, <1>12, <1>13,
       <1>14, <1>15 DEF Straight

LEMMA InterpretKeepsCaches == ASSUME Interpret PROVE CacheStep
  <1>1. CASE Straight
    BY <1>1, StraightKeepsCaches
  <1>2. CASE Branch
    BY <1>2, BranchKeepsCaches
  <1>3. CASE CallClosure
    BY <1>3 DEF CallClosure, CacheStep, GlobalsKept
  <1>4. QED  BY <1>1, <1>2, <1>3 DEF Interpret

LEMMA MachineKeepsCaches == ASSUME RunMachineCode PROVE CacheStep
  <1>1. machine_code_unchanged' = machine_code_unchanged => CacheStep
    BY DEF machine_code_unchanged, CacheStep, GlobalsKept
  <1>2. machine_code_unchanged' = machine_code_unchanged
    BY DEF RunMachineCode, MachineLoad, MachineArithmetic, MachineIndexSet, MachineJump, Store,
           SelfCall, ExitToInterpreter, ReturnToCaller, NestedBailout
  <1>3. QED  BY <1>1, <1>2

LEMMA StepKeepsCaches == ASSUME [MachineNext]_machine_vars PROVE CacheStep
  <1>1. CASE call_entry
    BY <1>1 DEF call_entry, call_global, CacheStep, GlobalsKept
  <1>2. CASE UNCHANGED machine_vars
    BY <1>2 DEF machine_vars, machine, program_vars, CacheStep, GlobalsKept
  <1>3. QED  BY <1>1, <1>2, InterpretKeepsCaches, MachineKeepsCaches DEF MachineNext

LEMMA CacheInit == MachineInit => CacheInv
  <1> SUFFICES ASSUME MachineInit PROVE CacheInv
    OBVIOUS
  <1>1. Nested(Len(functions), functions) \subseteq DOMAIN functions
    BY DEF Nested
  <1>2. caches = IF inline_cache THEN attach_global_caches(Len(functions), functions) ELSE <<>>
    BY DEF MachineInit, run
  <1>3. \A f \in DOMAIN caches :
            /\ f \in DOMAIN functions
            /\ caches[f] = [x \in DOMAIN functions[f].code |-> NoName]
    <2>1. CASE inline_cache
      BY <1>1, <1>2, <2>1 DEF attach_global_caches
    <2>2. CASE ~inline_cache
      BY <1>2, <2>2, Empty
    <2>3. QED  BY <2>1, <2>2
  <1>4. QED  BY <1>3 DEF MachineInit, CacheInv, CacheNeverStale

\* The name that an access finds is the one its word names.
LEMMA CellFilled ==
    ASSUME CacheInv, FillsCell, inline_cache, inline_cache \in BOOLEAN,
           NEW f, f = closure.function, f \in DOMAIN caches,
           NEW w, w = frame.pc + 1, w \in DOMAIN caches[f]
    PROVE  /\ functions[f].code[w].op \in {"GetGlobal", "SetGlobal"}
           /\ Str(GlobalName) = functions[f].constants[functions[f].code[w].b + 1]
           /\ GlobalName \in DOMAIN globals
  <1>1. insn = functions[f].code[w] /\ insn.op \in {"GetGlobal", "SetGlobal"}
    BY DEF insn, function, FillsCell
  <1>2. CASE cache_slot # NoName
    <2>1. GlobalName = caches[f][w] /\ caches[f][w] # NoName
      BY <1>2 DEF GlobalName, cache_slot
    <2>2. QED  BY <1>1, <2>1 DEF CacheInv, CacheNeverStale
  <1>3. CASE cache_slot = NoName
    <2>1. GlobalName = functions[f].constants[insn.b + 1][2] /\ GlobalName \in DOMAIN globals
      BY <1>3 DEF GlobalName, FillsCell, found, K, function
    <2>2. f \in DOMAIN functions /\ w \in DOMAIN functions[f].code
      BY DEF CacheInv
    <2>3. w \in Starts(functions[f])
      BY <1>1, <2>2 DEF Starts
    <2>4. OperandsFit(functions[f], w, functions)
      BY <2>2, <2>3 DEF CacheInv, WellFormed, FunctionFits
    <2>5. unfused(insn).op = insn.op /\ unfused(insn).b = insn.b
      <3>1. ~is_fused(insn.op)
        BY <1>1 DEF is_fused, FusedPairs
      <3>2. QED  BY <3>1, <1>1, <2>4 DEF unfused, unfused_op, OperandsFit
    <2>6. HasName(functions[f], insn.b)
      BY <1>1, <2>4, <2>5 DEF OperandsFit
    <2>7. QED  BY <1>1, <2>1, <2>6 DEF HasName
  <1>4. QED  BY <1>2, <1>3

LEMMA CacheNext == ASSUME CacheInv, inline_cache \in BOOLEAN, CacheStep PROVE CacheInv'
  <1>1. functions' = functions /\ inline_cache' = inline_cache
    BY DEF CacheStep, program_vars
  <1>2. CASE UNCHANGED caches
    BY <1>1, <1>2 DEF CacheInv, CacheStep, GlobalsKept, CacheNeverStale
  <1>3. CASE FillsCell /\ inline_cache
    <2> DEFINE g == closure.function
               w == frame.pc + 1
    <2>1. caches' = [caches EXCEPT ![g] = [caches[g] EXCEPT ![w] = GlobalName]]
      BY <1>3 DEF FillsCell, Remember
    <2>2. /\ DOMAIN caches' = DOMAIN caches
          /\ \A f \in DOMAIN caches : DOMAIN caches'[f] = DOMAIN caches[f]
      BY <2>1
    <2>3. ASSUME NEW f \in DOMAIN caches, NEW x \in DOMAIN caches[f], caches'[f][x] # NoName
          PROVE  /\ functions[f].code[x].op \in {"GetGlobal", "SetGlobal"}
                 /\ Str(caches'[f][x]) = functions[f].constants[functions[f].code[x].b + 1]
                 /\ caches'[f][x] \in DOMAIN globals
      <3>1. CASE f = g /\ x = w
        <4>1. caches'[f][x] = GlobalName
          BY <2>1, <3>1
        <4>2. QED  BY <1>3, <3>1, <4>1, CellFilled
      <3>2. CASE ~(f = g /\ x = w)
        <4>1. caches'[f][x] = caches[f][x]
          BY <2>1, <3>2
        <4>2. QED  BY <2>3, <4>1 DEF CacheInv, CacheNeverStale
      <3>3. QED  BY <3>1, <3>2
    <2>4. CacheNeverStale'
      BY <1>1, <2>2, <2>3 DEF CacheNeverStale, CacheStep, GlobalsKept
    <2>5. QED  BY <1>1, <2>2, <2>4 DEF CacheInv
  <1>4. CASE FillsCell /\ ~inline_cache
    BY <1>2, <1>4 DEF FillsCell, Remember
  <1>5. QED  BY <1>2, <1>3, <1>4 DEF CacheStep

\* A cached cell is that of the global its word names, and the global is there,
\* for all code that fits together and any number of calls from outside.
THEOREM NeverStale == MachineSpec => []CacheNeverStale
  <1> DEFINE I == CacheInv /\ inline_cache \in BOOLEAN
  <1>1. MachineInit => I
    BY CacheInit DEF MachineInit
  <1>2. I /\ [MachineNext]_machine_vars => I'
    <2> SUFFICES ASSUME I, [MachineNext]_machine_vars PROVE I'
      OBVIOUS
    <2>1. CacheStep
      BY StepKeepsCaches
    <2>2. QED  BY <2>1, CacheNext DEF CacheStep, program_vars
  <1>3. I => CacheNeverStale
    BY DEF CacheInv
  <1>4. QED  BY <1>1, <1>2, <1>3, PTL DEF MachineSpec

-----------------------------------------------------------------------------
(* The frames of the calls in machine code.                                *)

IsFrame(f) == f = [closure |-> f.closure, pc |-> f.pc, base |-> f.base]
IsActivation(a) == a = [base |-> a.base, at |-> a.at]

StackInv ==
    /\ IsSequence(frames) /\ \A i \in DOMAIN frames : IsFrame(frames[i])
    /\ status = "running" => frames # <<>>
    /\ IsSequence(activations) /\ \A i \in DOMAIN activations : IsActivation(activations[i])
    /\ activations # <<>> => status = "running"
    /\ Len(activations) <= Len(frames)

FramesInv == StackInv /\ ActivationsMatchFrames

LEMMA FramesInit == MachineInit => FramesInv
  <1> SUFFICES ASSUME MachineInit PROVE FramesInv
    OBVIOUS
  <1>1. /\ activations = <<>> /\ status = "running"
        /\ frames = <<[closure |-> 1, pc |-> 0, base |-> 1]>>
    BY DEF MachineInit, run, attach_jit
  <1>2. /\ IsSequence(frames) /\ frames # <<>> /\ Len(frames) = 1 /\ DOMAIN frames = {1}
        /\ frames[1] = [closure |-> 1, pc |-> 0, base |-> 1]
    BY <1>1, Single
  <1>3. QED  BY <1>1, <1>2, Empty DEF FramesInv, StackInv, IsFrame, ActivationsMatchFrames

\* Without a call in machine code there is nothing to match.
LEMMA NoActivations ==
    ASSUME activations = <<>>, IsSequence(frames),
           \A i \in DOMAIN frames : IsFrame(frames[i]),
           status = "running" => frames # <<>>
    PROVE  FramesInv
  <1>1. Len(frames) \in Nat
    BY DEF IsSequence
  <1>2. QED  BY <1>1, Empty DEF FramesInv, StackInv, ActivationsMatchFrames

\* The frames after an instruction are frames still.
LEMMA FramesAfter ==
    ASSUME StackInv, status = "running", GoesOn \/ Fails \/ PopsFrame
    PROVE  /\ IsSequence(frames') /\ \A i \in DOMAIN frames' : IsFrame(frames'[i])
           /\ status' = "running" => frames' # <<>>
  <1>1. CASE GoesOn
    <2>1. PICK pc : frames' = [frames EXCEPT ![Len(frames)].pc = pc]
      BY <1>1 DEF GoesOn
    <2>6. PICK v : v = [frames[Len(frames)] EXCEPT !.pc = pc]
      OBVIOUS
    <2>2. frames' = Replaced(frames, v)
      BY <2>1, <2>6 DEF Replaced
    <2>3. /\ IsSequence(frames') /\ frames' # <<>> /\ Len(frames) \in Nat \ {0}
          /\ DOMAIN frames = 1 .. Len(frames) /\ DOMAIN frames' = 1 .. Len(frames)
          /\ frames'[Len(frames)] = v
          /\ \A i \in 1 .. Len(frames) - 1 : frames'[i] = frames[i]
      <3>1. IsSequence(frames) /\ frames # <<>>
        BY DEF StackInv
      <3>2. QED  BY ONLY <2>2, <3>1, AtTop
    <2>4. IsFrame(v)
      BY <2>3, <2>6 DEF StackInv, IsFrame
    <2>5. QED  BY <2>3, <2>4 DEF StackInv
  <1>2. CASE Fails
    BY <1>2, Empty DEF Fails
  <1>3. CASE PopsFrame
    <2>1. /\ IsSequence(frames') /\ Len(frames') = Len(frames) - 1 /\ Len(frames) \in Nat \ {0}
          /\ DOMAIN frames = 1 .. Len(frames) /\ DOMAIN frames' = 1 .. Len(frames) - 1
          /\ \A i \in 1 .. Len(frames) - 1 : frames'[i] = frames[i]
      BY <1>3, Popped DEF PopsFrame, StackInv
    <2>2. status' = "running" => Len(frames') # 0
      BY <1>3, <2>1 DEF PopsFrame
    <2>3. QED  BY <2>1, <2>2, Empty DEF StackInv
  <1>4. QED  BY <1>1, <1>2, <1>3

\* A new frame of f has just been pushed; machine code may start in it.
LEMMA EntryMatches ==
    ASSUME NEW f, NEW base, jit_frame_entry(f, base),
           IsSequence(frames'), frames' # <<>>, \A i \in DOMAIN frames' : IsFrame(frames'[i]),
           status' = "running",
           Last(frames').base = base, closures'[Last(frames').closure].function = f
    PROVE  FramesInv'
  <1>1. CASE jit_status'[f] = "compiled"
    <2>1. activations' = <<[base |-> base, at |-> 0]>>
      BY <1>1 DEF jit_frame_entry, Activation
    <2>2. /\ IsSequence(activations') /\ activations' # <<>> /\ Len(activations') = 1
          /\ DOMAIN activations' = {1} /\ activations'[1] = [base |-> base, at |-> 0]
      BY <2>1, Single
    <2>3. Len(frames') \in Nat \ {0}
      BY DEF IsSequence
    <2>4. StackInv'
      BY <2>2, <2>3 DEF StackInv, IsActivation
    <2>5. Last(frames') = frames'[Len(frames')] /\ frame' = Last(frames')
      BY DEF Last, frame
    <2>6. closure'.function = f
      BY <2>5 DEF closure
    <2>7. ActivationsMatchFrames'
      BY <1>1, <2>2, <2>3, <2>5, <2>6 DEF ActivationsMatchFrames
    <2>8. QED  BY <2>4, <2>7 DEF FramesInv
  <1>2. CASE jit_status'[f] # "compiled"
    <2>1. activations' = <<>>
      BY <1>2 DEF jit_frame_entry
    <2>2. Len(frames') \in Nat
      BY DEF IsSequence
    <2>3. QED  BY <2>1, <2>2, Empty DEF FramesInv, StackInv, ActivationsMatchFrames
  <1>3. QED  BY <1>1, <1>2

WithPc(pc) == [frames EXCEPT ![Len(frames)].pc = pc]

\* The frames after a call: the caller past it, and the new frame.
LEMMA FramePushed ==
    ASSUME StackInv, frames # <<>>, NEW pc, NEW callee, NEW base,
           frames' = Pushed(WithPc(pc), NewFrame(callee, base))
    PROVE  /\ IsSequence(frames') /\ frames' # <<>> /\ Len(frames) \in Nat \ {0}
           /\ Len(frames') = Len(frames) + 1
           /\ DOMAIN frames = 1 .. Len(frames) /\ DOMAIN frames' = 1 .. Len(frames) + 1
           /\ frames'[Len(frames')] = [closure |-> callee[2], pc |-> 0, base |-> base]
           /\ frames'[Len(frames)] = [frames[Len(frames)] EXCEPT !.pc = pc]
           /\ frames'[Len(frames)].pc = pc
           /\ \A i \in 1 .. Len(frames) - 1 : frames'[i] = frames[i]
           /\ \A i \in DOMAIN frames' : IsFrame(frames'[i])
  <1>1. PICK v : v = [frames[Len(frames)] EXCEPT !.pc = pc]
    OBVIOUS
  <1>2. PICK s : s = Replaced(frames, v)
    OBVIOUS
  <1>3. PICK e : e = [closure |-> callee[2], pc |-> 0, base |-> base]
    OBVIOUS
  <1>4. frames' = Pushed(s, e)
    BY <1>1, <1>2, <1>3 DEF NewFrame, WithPc, Replaced
  <1>5. /\ IsSequence(s) /\ s # <<>> /\ Len(s) = Len(frames) /\ Len(frames) \in Nat \ {0}
        /\ DOMAIN frames = 1 .. Len(frames) /\ s[Len(frames)] = v
        /\ \A i \in 1 .. Len(frames) - 1 : s[i] = frames[i]
    <2>1. IsSequence(frames)
      BY DEF StackInv
    <2>2. QED  BY ONLY <1>2, <2>1, frames # <<>>, AtTop
  <1>6. /\ IsSequence(frames') /\ Len(frames') = Len(frames) + 1
        /\ DOMAIN frames' = 1 .. Len(frames) + 1 /\ frames'[Len(frames')] = e
        /\ \A i \in 1 .. Len(frames) : frames'[i] = s[i]
    BY ONLY <1>4, <1>5, Appended
  <1>7. IsFrame(v) /\ v.pc = pc
    <2>1. IsFrame(frames[Len(frames)])
      BY <1>5 DEF StackInv
    <2>2. QED  BY ONLY <1>1, <2>1 DEF IsFrame
  <1>8. IsFrame(e)
    BY <1>3 DEF IsFrame
  <1>9. \A i \in DOMAIN frames' : IsFrame(frames'[i])
    <2>1. \A i \in 1 .. Len(frames) - 1 : IsFrame(frames'[i])
      BY <1>5, <1>6 DEF StackInv
    <2>2. frames'[Len(frames)] = v /\ frames'[Len(frames) + 1] = e
      BY <1>5, <1>6
    <2>3. QED  BY <1>5, <1>6, <1>7, <1>8, <2>1, <2>2
  <1>10. frames' # <<>>
    BY <1>5, <1>6, Empty
  <1>11. frames'[Len(frames)] = v /\ \A i \in 1 .. Len(frames) - 1 : frames'[i] = frames[i]
    BY <1>5, <1>6
  <1>12. QED  BY ONLY <1>1, <1>3, <1>5, <1>6, <1>7, <1>9, <1>10, <1>11

LEMMA InterpretMatches == ASSUME FramesInv, Interpret PROVE FramesInv'
  <1>1. activations = <<>> /\ StackInv
    BY DEF Interpret, InMachineCode, FramesInv
  <1>2. CASE (Straight \/ Branch) /\ UNCHANGED activations
    <2>1. status = "running" /\ (GoesOn \/ Fails \/ PopsFrame)
      BY <1>2, StraightMoves, BranchMoves
    <2>2. /\ IsSequence(frames') /\ \A i \in DOMAIN frames' : IsFrame(frames'[i])
          /\ status' = "running" => frames' # <<>>
      BY <1>1, <2>1, FramesAfter
    <2>3. Len(frames') \in Nat
      BY <2>2 DEF IsSequence
    <2>4. QED  BY <1>1, <1>2, <2>2, <2>3, Empty DEF FramesInv, StackInv, ActivationsMatchFrames
  <1>3. CASE CallClosure /\ jit_frame_entry(closures[callee_value[2]].function, callee_base)
    <2>1. closures' = closures /\ status' = "running" /\ frames # <<>>
      BY <1>1, <1>3 DEF CallClosure, Dispatch, run_vars, StackInv
    <2>2. PICK pc : frames' = Pushed(WithPc(pc), NewFrame(callee_value, callee_base))
      BY <1>3 DEF CallClosure, Pushed, WithPc
    <2>3. /\ IsSequence(frames') /\ frames' # <<>>
          /\ frames'[Len(frames')] = [closure |-> callee_value[2], pc |-> 0, base |-> callee_base]
          /\ \A i \in DOMAIN frames' : IsFrame(frames'[i])
      <3>1. StackInv /\ frames # <<>>
        BY <1>1, <2>1
      <3>2. /\ IsSequence(frames') /\ frames' # <<>> /\ Len(frames) \in Nat \ {0}
            /\ Len(frames') = Len(frames) + 1
            /\ DOMAIN frames = 1 .. Len(frames) /\ DOMAIN frames' = 1 .. Len(frames) + 1
            /\ frames'[Len(frames')] = [closure |-> callee_value[2], pc |-> 0, base |-> callee_base]
            /\ frames'[Len(frames)] = [frames[Len(frames)] EXCEPT !.pc = pc]
            /\ frames'[Len(frames)].pc = pc
            /\ \A i \in 1 .. Len(frames) - 1 : frames'[i] = frames[i]
            /\ \A i \in DOMAIN frames' : IsFrame(frames'[i])
        BY ONLY <2>2, <3>1, FramePushed
      <3>3. QED  BY <3>2
    <2>4. Last(frames').base = callee_base /\ Last(frames').closure = callee_value[2]
      BY <2>3 DEF Last
    <2>5. QED  BY <1>3, <2>1, <2>3, <2>4, EntryMatches
  <1>4. QED  BY <1>2, <1>3 DEF Interpret, jit_back_edge, jit_vars

\* What machine code leaves alone.
LEMMA MachineKeeps ==
    ASSUME machine_code_unchanged' = machine_code_unchanged
    PROVE  /\ closures' = closures /\ functions' = functions /\ jit_status' = jit_status
           /\ status' = status
  BY DEF machine_code_unchanged, program_vars, run_vars

\* In machine code there is a newest frame, that of the newest activation.
LEMMA InCode ==
    ASSUME FramesInv, InMachineCode
    PROVE  /\ Len(activations) \in Nat \ {0} /\ Len(frames) \in Nat \ {0}
           /\ Len(activations) <= Len(frames)
           /\ DOMAIN activations = 1 .. Len(activations) /\ DOMAIN frames = 1 .. Len(frames)
           /\ frames # <<>> /\ status = "running"
           /\ frame = frames[Len(frames)] /\ activation = activations[Len(activations)]
           /\ frame.base = activation.base
           /\ jit_status[closure.function] = "compiled"
  <1>1. /\ Len(activations) \in Nat \ {0} /\ Len(frames) \in Nat
        /\ Len(activations) <= Len(frames)
        /\ DOMAIN activations = 1 .. Len(activations) /\ DOMAIN frames = 1 .. Len(frames)
        /\ status = "running"
    BY DEF FramesInv, StackInv, InMachineCode, IsSequence
  <1>2. frame = frames[Len(frames)] /\ activation = activations[Len(activations)]
    BY DEF frame, activation, Last
  <1>3. Len(activations) \in DOMAIN activations
    BY <1>1
  <1>4. frames[Len(frames) - Len(activations) + Len(activations)] = frames[Len(frames)]
    BY <1>1
  <1>5. frame.base = activation.base /\ jit_status[closure.function] = "compiled"
    BY <1>2, <1>3, <1>4 DEF FramesInv, ActivationsMatchFrames
  <1>6. QED  BY <1>1, <1>2, <1>5, Empty

\* A word or several further, in the same call.
LEMMA ProceedMatches ==
    ASSUME FramesInv, InMachineCode, NEW words, Proceed(words), UNCHANGED frames,
           machine_code_unchanged' = machine_code_unchanged
    PROVE  FramesInv'
  <1> DEFINE n == Len(activations)
  <1>1. PICK v : v = [activations[n] EXCEPT !.at = @ + words]
    OBVIOUS
  <1>2. activations' = Replaced(activations, v)
    BY <1>1 DEF Proceed, Replaced
  <1>3. /\ IsSequence(activations') /\ activations' # <<>> /\ Len(activations') = n
        /\ n \in Nat \ {0} /\ DOMAIN activations = 1 .. n /\ DOMAIN activations' = 1 .. n
        /\ activations'[n] = v
        /\ \A i \in 1 .. n - 1 : activations'[i] = activations[i]
    <2>1. IsSequence(activations) /\ activations # <<>>
      BY DEF FramesInv, StackInv, InMachineCode
    <2>2. QED  BY ONLY <1>2, <2>1, AtTop
  <1>4. IsActivation(v) /\ v.base = activations[n].base
    <2>1. IsActivation(activations[n])
      BY <1>3 DEF FramesInv, StackInv
    <2>2. QED  BY ONLY <1>1, <2>1 DEF IsActivation
  <1>5. \A i \in 1 .. n : /\ IsActivation(activations'[i])
                          /\ activations'[i].base = activations[i].base
    BY <1>3, <1>4 DEF FramesInv, StackInv
  <1>6. /\ closures' = closures /\ functions' = functions /\ jit_status' = jit_status
        /\ status' = status
    BY MachineKeeps
  <1>7. StackInv'
    BY <1>3, <1>5, <1>6, InCode DEF FramesInv, StackInv
  <1>8. closure' = closure /\ function' = function
    BY <1>6 DEF closure, function, frame
  <1>9. ActivationsMatchFrames'
    BY <1>3, <1>5, <1>6, <1>8 DEF FramesInv, ActivationsMatchFrames
  <1>10. QED  BY <1>7, <1>9 DEF FramesInv

\* Leaving machine code: the newest frame goes on at another word.
LEMMA ExitMatches ==
    ASSUME FramesInv, InMachineCode, activations' = <<>>,
           frames' = [frames EXCEPT ![Len(frames)].pc = activation.at],
           machine_code_unchanged' = machine_code_unchanged
    PROVE  FramesInv'
  <1>1. status = "running" /\ status' = status /\ StackInv
    BY InCode, MachineKeeps DEF FramesInv
  <1>2. GoesOn
    BY <1>1 DEF GoesOn
  <1>3. /\ IsSequence(frames') /\ \A i \in DOMAIN frames' : IsFrame(frames'[i])
        /\ status' = "running" => frames' # <<>>
    BY <1>1, <1>2, FramesAfter
  <1>4. Len(frames') \in Nat
    BY <1>3 DEF IsSequence
  <1>5. QED  BY <1>3, <1>4, Empty DEF FramesInv, StackInv, ActivationsMatchFrames

\* A word that is a call before it is fused is one afterwards.
LEMMA CallIsPlain == ASSUME NEW w, unfused_op(w) = "Call" PROVE w.op = "Call"
  <1>1. CASE is_fused(w.op)
    <2>1. PICK pair \in FusedPairs : pair[1] = w.op
      BY <1>1 DEF is_fused
    <2>2. (CHOOSE p \in FusedPairs : p[1] = w.op) \in FusedPairs
      BY <2>1
    <2>3. \A p \in FusedPairs : p[2] # "Call"
      BY DEF FusedPairs
    <2>4. QED  BY <1>1, <2>2, <2>3 DEF unfused_op
  <1>2. QED  BY <1>1 DEF unfused_op

LEMMA SelfCallMatches == ASSUME FramesInv, SelfCall PROVE FramesInv'
  <1> DEFINE n == Len(activations)
             m == Len(frames)
  <1>1. InMachineCode /\ word_op = "Call" /\ SelfCallPasses
    BY DEF SelfCall, Machine, Exits
  <1>2. machine_code_unchanged' = machine_code_unchanged
    BY DEF SelfCall
  <1>3. /\ closures' = closures /\ functions' = functions /\ jit_status' = jit_status
        /\ status' = status
    BY <1>2, MachineKeeps
  <1>4. /\ n \in Nat \ {0} /\ m \in Nat \ {0} /\ n <= m /\ frames # <<>> /\ status = "running"
        /\ frame = frames[m] /\ activation = activations[n] /\ frame.base = activation.base
        /\ DOMAIN activations = 1 .. n
        /\ jit_status[closure.function] = "compiled"
    BY <1>1, InCode
  <1>5. frames' = Append([frames EXCEPT ![m].pc = activation.at + 1], NewFrame(M(word.a), NewBase))
    BY DEF SelfCall
  <1>6. /\ IsSequence(frames') /\ frames' # <<>> /\ Len(frames') = m + 1
        /\ DOMAIN frames = 1 .. m /\ DOMAIN frames' = 1 .. m + 1
        /\ frames'[m + 1] = [closure |-> M(word.a)[2], pc |-> 0, base |-> NewBase]
        /\ frames'[m] = [frames[m] EXCEPT !.pc = activation.at + 1]
        /\ frames'[m].pc = activation.at + 1
        /\ \A i \in 1 .. m - 1 : frames'[i] = frames[i]
        /\ \A i \in DOMAIN frames' : IsFrame(frames'[i])
    <2>1. StackInv
      BY DEF FramesInv
    <2>2. PICK pc : pc = activation.at + 1
      OBVIOUS
    <2>3. frames' = Pushed(WithPc(pc), NewFrame(M(word.a), NewBase))
      BY <1>5, <2>2 DEF Pushed, WithPc
    <2>4. /\ IsSequence(frames') /\ frames' # <<>> /\ Len(frames') = Len(frames) + 1
          /\ DOMAIN frames = 1 .. Len(frames) /\ DOMAIN frames' = 1 .. Len(frames) + 1
          /\ frames'[Len(frames')] = [closure |-> M(word.a)[2], pc |-> 0, base |-> NewBase]
          /\ frames'[Len(frames)] = [frames[Len(frames)] EXCEPT !.pc = pc]
          /\ frames'[Len(frames)].pc = pc
          /\ \A i \in 1 .. Len(frames) - 1 : frames'[i] = frames[i]
          /\ \A i \in DOMAIN frames' : IsFrame(frames'[i])
      BY <1>4, <2>1, <2>3, FramePushed
    <2>5. QED  BY <2>2, <2>4
  <1>7. frames'[m].base = frames[m].base /\ frames'[m].closure = frames[m].closure
    <2>1. IsFrame(frames[m])
      BY <1>4, <1>6 DEF FramesInv, StackInv
    <2>2. QED  BY ONLY <1>6, <2>1 DEF IsFrame
  <1>8. PICK e : e = [base |-> NewBase, at |-> 0]
    OBVIOUS
  <1>9. activations' = Pushed(activations, e)
    BY <1>8 DEF SelfCall, Activation, Pushed
  <1>10. /\ IsSequence(activations') /\ Len(activations') = n + 1
         /\ DOMAIN activations' = 1 .. n + 1 /\ activations'[n + 1] = e
         /\ \A i \in 1 .. n : activations'[i] = activations[i]
    <2>1. IsSequence(activations)
      BY DEF FramesInv, StackInv
    <2>2. QED  BY ONLY <1>9, <2>1, Appended
  <1>11. \A i \in 1 .. n + 1 : IsActivation(activations'[i])
    BY <1>4, <1>8, <1>10 DEF FramesInv, StackInv, IsActivation
  <1>12. StackInv'
    BY <1>3, <1>4, <1>6, <1>10, <1>11 DEF StackInv
  <1>13. closure'.function = closure.function /\ function' = function
    <2>1. frame' = frames'[m + 1]
      BY <1>6 DEF frame, Last
    <2>2. closure' = closures[M(word.a)[2]]
      BY <1>3, <1>6, <2>1 DEF closure
    <2>3. closures[M(word.a)[2]].function = closure.function
      BY <1>1 DEF SelfCallPasses, IsSelf
    <2>4. QED  BY <1>3, <2>2, <2>3 DEF function
  <1>14. function.code[activation.at + 1].op = "Call"
    BY <1>1, CallIsPlain DEF word_op, word
  <1>15. ASSUME NEW i \in 1 .. n + 1
         PROVE  LET f == frames'[(m + 1) - (n + 1) + i]
                IN /\ f.base = activations'[i].base
                   /\ closures[f.closure].function = closure.function
                   /\ i < n + 1 => /\ f.pc = activations'[i].at + 1
                                   /\ function.code[f.pc].op = "Call"
    <2>1. CASE i = n + 1
      <3>1. (m + 1) - (n + 1) + i = m + 1
        BY <1>4, <2>1
      <3>2. QED
        BY <1>1, <1>6, <1>8, <1>10, <2>1, <3>1 DEF SelfCallPasses, IsSelf
    <2>2. CASE i = n
      <3>1. (m + 1) - (n + 1) + i = m
        BY <1>4, <2>2
      <3>2. activations'[i] = activation
        BY <1>4, <1>10, <2>2
      <3>3. closures[frames[m].closure].function = closure.function
        BY <1>4 DEF closure
      <3>4. QED  BY <1>4, <1>6, <1>7, <1>14, <2>2, <3>1, <3>2, <3>3
    <2>3. CASE i < n
      <3>1. i \in 1 .. n /\ m - n + i \in 1 .. m - 1 /\ (m + 1) - (n + 1) + i = m - n + i
        BY <1>4, <2>3
      <3>2. frames'[m - n + i] = frames[m - n + i] /\ activations'[i] = activations[i]
        BY <1>6, <1>10, <3>1
      <3>3. QED
        BY <1>4, <2>3, <3>1, <3>2 DEF FramesInv, ActivationsMatchFrames
    <2>4. i = n + 1 \/ i = n \/ i < n
      <3>1. n \in Nat /\ i \in 1 .. n + 1
        BY <1>4
      <3>2. QED  BY ONLY <3>1
    <2>5. QED  BY ONLY <2>1, <2>2, <2>3, <2>4
  <1>16. ActivationsMatchFrames'
    BY <1>3, <1>4, <1>6, <1>10, <1>13, <1>15 DEF ActivationsMatchFrames
  <1>17. QED  BY <1>12, <1>16 DEF FramesInv

\* A self-call is over: its frame and its activation go, and its caller is past
\* the CALL.
LEMMA ReturnMatches == ASSUME FramesInv, ReturnToCaller PROVE FramesInv'
  <1> DEFINE n == Len(activations)
             m == Len(frames)
  <1>1. InMachineCode /\ n > 1 /\ frames' = Front(frames)
    BY DEF ReturnToCaller, Leaving
  <1>2. machine_code_unchanged' = machine_code_unchanged
    BY DEF ReturnToCaller
  <1>3. /\ closures' = closures /\ functions' = functions /\ jit_status' = jit_status
        /\ status' = status
    BY <1>2, MachineKeeps
  <1>4. /\ n \in Nat \ {0} /\ m \in Nat \ {0} /\ n <= m /\ frames # <<>> /\ status = "running"
        /\ frame = frames[m] /\ DOMAIN activations = 1 .. n
        /\ jit_status[closure.function] = "compiled"
    BY <1>1, InCode
  <1>5. /\ IsSequence(frames') /\ Len(frames') = m - 1 /\ DOMAIN frames = 1 .. m
        /\ DOMAIN frames' = 1 .. m - 1 /\ \A i \in 1 .. m - 1 : frames'[i] = frames[i]
    <2>1. IsSequence(frames)
      BY DEF FramesInv, StackInv
    <2>2. QED  BY ONLY <1>1, <1>4, <2>1, Popped
  <1>6. PICK older : older = Front(activations)
    OBVIOUS
  <1>7. /\ IsSequence(older) /\ Len(older) = n - 1 /\ DOMAIN older = 1 .. n - 1
        /\ \A i \in 1 .. n - 1 : older[i] = activations[i]
    <2>1. IsSequence(activations) /\ activations # <<>>
      BY <1>1 DEF FramesInv, StackInv, InMachineCode
    <2>2. QED  BY ONLY <1>6, <2>1, Popped
  <1>8. PICK oldest : oldest = Front(older)
    OBVIOUS
  <1>9. /\ IsSequence(oldest) /\ Len(oldest) = n - 2 /\ DOMAIN oldest = 1 .. n - 2
        /\ \A i \in 1 .. n - 2 : oldest[i] = activations[i]
    <2>1. older # <<>>
      BY <1>1, <1>4, <1>7, Empty
    <2>2. /\ IsSequence(oldest) /\ Len(oldest) = Len(older) - 1
          /\ DOMAIN oldest = 1 .. Len(older) - 1
          /\ \A i \in 1 .. Len(older) - 1 : oldest[i] = older[i]
      BY ONLY <1>7, <1>8, <2>1, Popped
    <2>3. QED  BY <1>1, <1>4, <1>7, <2>2
  <1>10. PICK e : e = [activations[n - 1] EXCEPT !.at = @ + 1]
    OBVIOUS
  <1>11. activations' = Pushed(oldest, e)
    BY <1>6, <1>8, <1>10 DEF ReturnToCaller, Pushed
  <1>12. /\ IsSequence(activations') /\ Len(activations') = n - 1
         /\ DOMAIN activations' = 1 .. n - 1 /\ activations'[n - 1] = e
         /\ \A i \in 1 .. n - 2 : activations'[i] = activations[i]
    <2>1. /\ IsSequence(activations') /\ Len(activations') = Len(oldest) + 1
          /\ DOMAIN oldest = 1 .. Len(oldest) /\ DOMAIN activations' = 1 .. Len(oldest) + 1
          /\ activations'[Len(activations')] = e
          /\ \A i \in 1 .. Len(oldest) : activations'[i] = oldest[i]
      BY ONLY <1>9, <1>11, Appended
    <2>2. Len(oldest) + 1 = n - 1
      BY <1>4, <1>9
    <2>3. QED  BY <1>9, <2>1, <2>2
  <1>13. IsActivation(e) /\ e.base = activations[n - 1].base
    <2>1. IsActivation(activations[n - 1])
      BY <1>1, <1>4 DEF FramesInv, StackInv
    <2>2. QED  BY ONLY <1>10, <2>1 DEF IsActivation
  <1>14. \A i \in 1 .. n - 1 : /\ IsActivation(activations'[i])
                               /\ activations'[i].base = activations[i].base
    <2>1. ASSUME NEW i \in 1 .. n - 1
          PROVE  IsActivation(activations'[i]) /\ activations'[i].base = activations[i].base
      <3>1. CASE i = n - 1
        BY <1>12, <1>13, <3>1
      <3>2. CASE i # n - 1
        <4>1. i \in 1 .. n - 2 /\ i \in DOMAIN activations
          BY <1>4, <3>2, Below
        <4>2. QED  BY <1>12, <4>1 DEF FramesInv, StackInv
      <3>3. QED  BY <3>1, <3>2
    <2>2. QED  BY <2>1
  <1>15. StackInv'
    <2>1. frames' # <<>>
      BY <1>1, <1>4, <1>5, Empty
    <2>2. \A i \in DOMAIN frames' : IsFrame(frames'[i])
      BY <1>4, <1>5 DEF FramesInv, StackInv
    <2>3. Len(activations') <= Len(frames')
      BY <1>4, <1>5, <1>12
    <2>4. QED  BY <1>3, <1>4, <1>5, <1>12, <1>14, <2>1, <2>2, <2>3 DEF StackInv
  <1>16. /\ frame' = frames[m - 1] /\ closures[frames[m - 1].closure].function = closure.function
         /\ closure'.function = closure.function /\ function' = function
    <2>1. frame' = frames[m - 1]
      BY <1>1, <1>4, <1>5 DEF frame, Last
    <2>2. n - 1 \in DOMAIN activations /\ m - n + (n - 1) = m - 1
      BY <1>1, <1>4
    <2>3. closures[frames[m - 1].closure].function = closure.function
      BY <2>2 DEF FramesInv, ActivationsMatchFrames
    <2>4. QED  BY <1>3, <2>1, <2>3 DEF closure, function
  <1>17. ASSUME NEW i \in 1 .. n - 1
         PROVE  LET f == frames'[(m - 1) - (n - 1) + i]
                IN /\ f.base = activations'[i].base
                   /\ closures[f.closure].function = closure.function
                   /\ i < n - 1 => /\ f.pc = activations'[i].at + 1
                                   /\ function.code[f.pc].op = "Call"
    <2>1. /\ i \in DOMAIN activations /\ m - n + i \in 1 .. m - 1 /\ i < n
          /\ (m - 1) - (n - 1) + i = m - n + i
      BY <1>4
    <2>2. frames'[m - n + i] = frames[m - n + i]
      BY <1>5, <2>1
    <2>3. /\ frames[m - n + i].base = activations[i].base
          /\ closures[frames[m - n + i].closure].function = closure.function
          /\ frames[m - n + i].pc = activations[i].at + 1
          /\ function.code[frames[m - n + i].pc].op = "Call"
      BY <2>1 DEF FramesInv, ActivationsMatchFrames
    <2>4. i < n - 1 => activations'[i] = activations[i]
      BY <1>4, <1>12
    <2>5. QED  BY <1>14, <2>1, <2>2, <2>3, <2>4
  <1>18. ActivationsMatchFrames'
    BY <1>3, <1>4, <1>5, <1>12, <1>16, <1>17 DEF ActivationsMatchFrames
  <1>19. QED  BY <1>15, <1>18 DEF FramesInv

LEMMA MachineMatches == ASSUME FramesInv, RunMachineCode PROVE FramesInv'
  <1>1. ASSUME NEW ops, NEW v, Store(ops, v) PROVE FramesInv'
    BY <1>1, ProceedMatches DEF Store, Machine
  <1>2. CASE MachineLoad
    BY <1>1, <1>2 DEF MachineLoad
  <1>3. CASE MachineArithmetic
    BY <1>1, <1>3 DEF MachineArithmetic
  <1>4. CASE MachineIndexSet
    BY <1>4, ProceedMatches DEF MachineIndexSet, Machine
  <1>5. CASE MachineJump
    BY <1>5, ProceedMatches DEF MachineJump, Machine
  <1>6. CASE ExitToInterpreter
    BY <1>6, ExitMatches DEF ExitToInterpreter, Leaving
  <1>7. CASE NestedBailout
    BY <1>7, ExitMatches DEF NestedBailout, Leaving
  <1>8. QED
    BY <1>2, <1>3, <1>4, <1>5, <1>6, <1>7, SelfCallMatches, ReturnMatches DEF RunMachineCode

LEMMA CallEntryMatches == ASSUME FramesInv, call_entry PROVE FramesInv'
  <1>1. status # "running" /\ activations = <<>> /\ call_global
    BY DEF call_entry, call_global, FramesInv, StackInv
  <1>2. CASE status' = "running"
    <2>1. /\ frames' = <<NewFrame(globals[Entry], 1)>> /\ closures' = closures
          /\ jit_frame_entry(closures[globals[Entry][2]].function, 1)
      BY <1>1, <1>2 DEF call_entry, call_global
    <2> DEFINE e == NewFrame(globals[Entry], 1)
    <2>2. /\ IsSequence(frames') /\ frames' # <<>> /\ Len(frames') = 1 /\ DOMAIN frames' = {1}
          /\ frames'[1] = e
      BY <2>1, Single
    <2>3. IsFrame(e) /\ e.base = 1 /\ e.closure = globals[Entry][2]
      BY DEF IsFrame, NewFrame
    <2>4. Last(frames') = e
      BY <2>2 DEF Last
    <2>5. QED  BY <1>2, <2>1, <2>2, <2>3, <2>4, EntryMatches
  <1>3. CASE status' # "running"
    <2>1. UNCHANGED <<frames, activations>>
      BY <1>1, <1>3 DEF call_entry, call_global, jit_vars
    <2>2. QED  BY <1>1, <1>3, <2>1, Empty DEF FramesInv, StackInv, ActivationsMatchFrames
  <1>4. QED  BY <1>2, <1>3

LEMMA FramesNext == FramesInv /\ [MachineNext]_machine_vars => FramesInv'
  <1> SUFFICES ASSUME FramesInv, [MachineNext]_machine_vars PROVE FramesInv'
    OBVIOUS
  <1>1. CASE UNCHANGED machine_vars
    BY <1>1 DEF machine_vars, machine, jit_vars, FramesInv, StackInv, ActivationsMatchFrames,
                frame, closure, function
  <1>2. QED  BY <1>1, InterpretMatches, MachineMatches, CallEntryMatches DEF MachineNext

\* The newest frames are those of the calls in machine code, for all code and
\* any depth of self-calls: what leaving machine code in a nested call relies on.
THEOREM AlwaysMatch == MachineSpec => []ActivationsMatchFrames
  <1>1. FramesInv => ActivationsMatchFrames
    BY DEF FramesInv
  <1>2. QED  BY <1>1, FramesInit, FramesNext, PTL DEF MachineSpec

-----------------------------------------------------------------------------
(* Numbers.                                                                *)

\* An int below the length of an array, as unsigned numbers, is an index of it.
LEMMA UnsignedBelow ==
    ASSUME NEW n \in Ints, NEW k \in Nat, k <= 4 * Half * Half - Half, Unsigned(n) < k
    PROVE  n \in 0 .. k - 1
  <1> DEFINE m == 4 * Half * Half
  <1>1. m \in Nat \ {0} /\ Half <= m
    BY HalfType
  <1>2. n \in Int /\ -Half <= n /\ n < Half
    BY HalfType DEF Ints
  <1> HIDE DEF m
  <1>3. CASE n < 0
    <2>1. n % m = n + m
      BY <1>1, <1>2, <1>3, HalfType
    <2>2. QED  BY <1>1, <1>2, <1>3, <2>1, HalfType DEF Unsigned, m
  <1>4. CASE n >= 0 /\ n < m
    <2>1. n % m = n
      BY <1>1, <1>2, <1>4
    <2>2. QED  BY <1>2, <1>4, <2>1 DEF Unsigned, m
  <1>5. QED  BY <1>1, <1>2, <1>3, <1>4, HalfType

-----------------------------------------------------------------------------
(* The words of code that fits.                                            *)

\* Undoing a superinstruction changes the operation alone.
LEMMA Unfused ==
    ASSUME NEW w \in Word
    PROVE  /\ unfused(w).op = unfused_op(w) /\ unfused(w).a = w.a
           /\ unfused(w).b = w.b /\ unfused(w).c = w.c
           /\ unfused(w).b_const = w.b_const /\ unfused(w).c_const = w.c_const
  BY DEF unfused, Word

\* What the operands of a word name, by what it was before it was fused.
LEMMA OperandsOf ==
    ASSUME NEW fs, NEW f, FunctionFits(f, fs), NEW i \in Starts(f),
           NEW w, w = f.code[i], NEW op, op = unfused_op(w)
    PROVE  /\ w \in Word
           /\ op \notin {"Print", "Jump", "Return", "ReturnNil"} => w.a \in Windows(f)
           /\ op = "Move" => w.b \in Windows(f)
           /\ op \in Arithmetic \cup Unaries \cup {"IndexGet", "IndexSet", "Print", "Return"}
              /\ ~w.b_const => w.b \in Windows(f)
           /\ op \in Arithmetic \cup {"IndexGet", "IndexSet"} /\ ~w.c_const
              => w.c \in Windows(f)
           /\ op = "Call" => \A j \in 0 .. w.b : w.a + j \in Windows(f)
           /\ op \in {"Array", "ArrayAppend"} => \A j \in 0 .. w.c - 1 : w.b + j \in Windows(f)
           /\ w.b_const \/ op = "LoadK" => HasScalar(f, w.b)
           /\ w.c_const => HasScalar(f, w.c)
           /\ op \in {"GetGlobal", "SetGlobal", "DefineGlobal"} => HasName(f, w.b)
           /\ op \in {"GetUpvalue", "SetUpvalue"} => HasUpvalue(f, w.b)
           /\ op = "Closure" => /\ HasCode(f, w.b, fs)
                                /\ \A j \in Captures(f, i, fs) : /\ j \in DOMAIN f.code
                                                                 /\ CaptureFits(f, f.code[j])
  <1>1. OperandsFit(f, i, fs)
    BY DEF FunctionFits
  <1>2. w \in Word /\ Used(unfused(w)) \subseteq Windows(f)
    BY <1>1 DEF OperandsFit
  <1>3. /\ unfused(w).op = op /\ unfused(w).a = w.a
        /\ unfused(w).b = w.b /\ unfused(w).c = w.c
        /\ unfused(w).b_const = w.b_const /\ unfused(w).c_const = w.c_const
    BY <1>2, Unfused
  <1>4. op \notin {"Print", "Jump", "Return", "ReturnNil"} => w.a \in Windows(f)
    BY <1>2, <1>3 DEF Used, UsesA
  <1>5. op = "Move" => w.b \in Windows(f)
    BY <1>2, <1>3 DEF Used
  <1>6. op \in Arithmetic \cup Unaries \cup {"IndexGet", "IndexSet", "Print", "Return"}
        /\ ~w.b_const => w.b \in Windows(f)
    BY <1>2, <1>3 DEF Used
  <1>7. op \in Arithmetic \cup {"IndexGet", "IndexSet"} /\ ~w.c_const => w.c \in Windows(f)
    BY <1>2, <1>3 DEF Used, Arithmetic, Unaries
  <1>8. op = "Call" => \A j \in 0 .. w.b : w.a + j \in Windows(f)
    BY <1>2, <1>3 DEF Used
  <1>9. op \in {"Array", "ArrayAppend"} => \A j \in 0 .. w.c - 1 : w.b + j \in Windows(f)
    BY <1>2, <1>3 DEF Used
  <1>10. QED
    BY <1>1, <1>2, <1>3, <1>4, <1>5, <1>6, <1>7, <1>8, <1>9 DEF OperandsFit

\* A fused word stands for the first of a pair, and the second follows it.
LEMMA PairOf ==
    ASSUME NEW fs, NEW f, FunctionFits(f, fs), NEW i \in Starts(f),
           NEW pair \in FusedPairs, f.code[i].op = pair[1]
    PROVE  /\ unfused_op(f.code[i]) = pair[2]
           /\ i + 1 \in Starts(f) /\ f.code[i + 1].op = pair[3]
           /\ unfused_op(f.code[i + 1]) = pair[3]
  <1>1. i + 1 \in DOMAIN f.code /\ f.code[i + 1].op = pair[3]
    BY DEF FunctionFits, PairFits
  <1>2. /\ pair[3] \in {"JumpIfFalse", "Jump", "Add"} /\ is_fused(pair[1])
        /\ \A other \in FusedPairs : other[1] = pair[1] => other[2] = pair[2]
    BY DEF FusedPairs, is_fused
  <1>3. unfused_op(f.code[i]) = pair[2]
    <2>1. PICK other \in FusedPairs : /\ other[1] = pair[1]
                                      /\ unfused_op(f.code[i]) = other[2]
      BY <1>2 DEF unfused_op
    <2>2. QED  BY <1>2, <2>1
  <1>4. ~is_fused(pair[3])
    BY <1>2 DEF is_fused, FusedPairs
  <1>5. QED  BY <1>1, <1>2, <1>3, <1>4 DEF Starts, unfused_op

\* A plain word is what it was.
LEMMA PlainOf ==
    ASSUME NEW w, w.op \notin {pair[1] : pair \in FusedPairs} PROVE unfused_op(w) = w.op
  BY DEF unfused_op, is_fused

\* The first words of instructions are words of the code.
LEMMA PositionType ==
    ASSUME NEW fs, NEW f, FunctionFits(f, fs), NEW i \in Starts(f)
    PROVE  i \in Nat \ {0} /\ i <= Len(f.code) /\ Len(f.code) \in Nat /\ i \in DOMAIN f.code
           /\ f.frame_size \in Nat /\ f.arity \in Nat /\ f.arity <= f.frame_size
  <1>1. IsSequence(f.code)
    BY DEF FunctionFits, IsSequence
  <1>2. QED  BY <1>1, SequenceIsRow DEF Starts, FunctionFits

\* Where a run may be after a word.
LEMMA NextOf ==
    ASSUME NEW fs, NEW f, FunctionFits(f, fs), NEW i \in Starts(f),
           NEW w, w = f.code[i], NEW op, op = unfused_op(w)
    PROVE  /\ op \notin {"Return", "ReturnNil", "Jump", "Closure"} => i + 1 \in Starts(f)
           /\ op \in Jumps => i + 1 + w.b \in Starts(f)
           /\ op = "Closure" => i + 1 + Cardinality(Captures(f, i, fs)) \in Starts(f)
  <1>1. Follows(f, i, fs) \subseteq Starts(f) /\ w \in Word
    BY OperandsOf DEF FunctionFits
  <1>2. unfused(w).op = op /\ unfused(w).b = w.b
    BY <1>1, Unfused
  <1>3. op = "Jump" => i + 1 + w.b \in Starts(f)
    BY <1>1, <1>2 DEF Follows
  <1>4. op \in {"JumpIfFalse", "JumpIfTrue"} => i + 1 \in Starts(f) /\ i + 1 + w.b \in Starts(f)
    BY <1>1, <1>2 DEF Follows
  <1>5. op = "Closure" => i + 1 + Cardinality(Captures(f, i, fs)) \in Starts(f)
    BY <1>1, <1>2 DEF Follows
  <1>6. op \notin {"Return", "ReturnNil", "Jump", "JumpIfFalse", "JumpIfTrue", "Closure"}
        => i + 1 \in Starts(f)
    BY <1>1, <1>2 DEF Follows
  <1>7. QED  BY <1>3, <1>4, <1>5, <1>6 DEF Jumps

-----------------------------------------------------------------------------
(* What the machine holds, and where it is.                                *)

\* Registers that hold values.
RegistersFit(regs, arrs, clos) ==
    /\ regs = [s \in Slot |-> regs[s]]
    /\ \A s \in Slot : IsValue(regs[s], arrs, clos)

\* Globals that hold values.
GlobalsFit(globs, arrs, clos) == \A x \in DOMAIN globs : IsValue(globs[x], arrs, clos)

\* An upvalue refers to a register, or holds a value once it is closed.
UpvalueFits(u, arrs, clos) ==
    /\ u = [location |-> u.location, closed |-> u.closed]
    /\ u.location \in Slot \cup {ClosedUpvalue}
    /\ IsValue(u.closed, arrs, clos)

\* All upvalues, and the list of those that are open.
UpvaluesFit(ups, open, arrs, clos) ==
    /\ IsSequence(ups) /\ \A u \in DOMAIN ups : UpvalueFits(ups[u], arrs, clos)
    /\ IsSequence(open) /\ \A i \in DOMAIN open : open[i] \in DOMAIN ups

\* A closure has an upvalue for each name its function captures.
ClosureFits(c, ups) ==
    /\ c.function \in DOMAIN functions
    /\ \A i \in DOMAIN functions[c.function].upvalues :
          i \in DOMAIN c.upvalues /\ c.upvalues[i] \in DOMAIN ups

\* All functions.
ClosuresFit(clos, ups) == IsSequence(clos) /\ \A c \in DOMAIN clos : ClosureFits(clos[c], ups)

\* Every value that the machine holds is one.
ValuesInv ==
    /\ RegistersFit(registers, arrays, closures)
    /\ GlobalsFit(globals, arrays, closures)
    /\ ArraysFit(arrays, closures)
    /\ UpvaluesFit(upvalues, open_upvalues, arrays, closures)
    /\ ClosuresFit(closures, upvalues)

\* A frame is at a word of its function, and its window is in the register file.
FrameFits(f, clos) ==
    LET g == functions[clos[f.closure].function]
    IN /\ f.closure \in DOMAIN clos
       /\ f.pc \in Nat /\ f.pc + 1 \in Starts(g)
       /\ f.base \in Nat \ {0} /\ f.base + g.frame_size <= RegisterSlots

\* All frames.
FramesFit(frs, clos) == \A i \in DOMAIN frs : FrameFits(frs[i], clos)

\* The calls in machine code are of one function g. Each is at a word of it, and
\* the window of a call starts above the register of its caller that has the callee.
ActivationsFit(calls_of, g) ==
    \A i \in DOMAIN calls_of :
        /\ calls_of[i].at \in Nat /\ calls_of[i].at + 1 \in Starts(g)
        /\ i + 1 \in DOMAIN calls_of =>
              calls_of[i + 1].base = calls_of[i].base + g.code[calls_of[i].at + 1].a + 1

\* The interpreter and machine code are at the starts of instructions, in windows that
\* fit the register file.
PlacesInv == /\ FramesFit(frames, closures)
             /\ activations # <<>> => ActivationsFit(activations, function)

\* What was compiled can be, and knows itself as a global only if it is one.
StatusFits(statuses, self, names) ==
    /\ DOMAIN statuses = DOMAIN functions
    /\ \A f \in DOMAIN functions :
          /\ f \in self => functions[f].name \in names
          /\ statuses[f] = "compiled" => check_whitelist(f, functions[f].name \in names)

\* Compiled functions could be compiled with the globals there are.
CompiledInv == StatusFits(jit_status, jit_self_global, DOMAIN globals)

\* With the inline cache, every function that may run has its cells.
CellsInv ==
    /\ \A c \in DOMAIN closures : closures[c].function \in DOMAIN caches
    /\ \A f \in DOMAIN caches : \A v \in Range(functions[f].constants) :
          Is("code", v) /\ v[2] \in DOMAIN functions => v[2] \in DOMAIN caches

\* The machine as it has to be for the step of an instruction to be safe.
Safe == /\ WellFormed(functions) /\ CacheInv /\ (inline_cache => CellsInv)
        /\ ValuesInv /\ FramesInv /\ PlacesInv

\* The function that runs, the word it is at and its window.
LEMMA Here ==
    ASSUME Safe, frames # <<>>
    PROVE  /\ Len(frames) \in Nat \ {0} /\ DOMAIN frames = 1 .. Len(frames)
           /\ frame = frames[Len(frames)] /\ IsFrame(frame) /\ FrameFits(frame, closures)
           /\ frame.closure \in DOMAIN closures /\ ClosureFits(closure, upvalues)
           /\ closure.function \in DOMAIN functions
           /\ FunctionFits(function, functions)
           /\ frame.pc \in Nat /\ frame.pc + 1 \in Starts(function)
           /\ frame.base \in Nat \ {0} /\ frame.base + function.frame_size <= RegisterSlots
           /\ \A index \in Windows(function) : frame.base + index \in Slot
  <1>1. Len(frames) \in Nat \ {0} /\ DOMAIN frames = 1 .. Len(frames)
    BY DEF Safe, FramesInv, StackInv, IsSequence
  <1>2. frame = frames[Len(frames)] /\ IsFrame(frame) /\ FrameFits(frame, closures)
    BY <1>1 DEF frame, Last, Safe, FramesInv, StackInv, PlacesInv, FramesFit
  <1>3. /\ frame.closure \in DOMAIN closures
        /\ frame.pc \in Nat /\ frame.pc + 1 \in Starts(function)
        /\ frame.base \in Nat \ {0} /\ frame.base + function.frame_size <= RegisterSlots
    BY <1>2 DEF FrameFits, closure, function
  <1>4. ClosureFits(closure, upvalues) /\ closure.function \in DOMAIN functions
    BY <1>3 DEF Safe, ValuesInv, ClosuresFit, closure, ClosureFits
  <1>5. FunctionFits(function, functions)
    BY <1>4 DEF Safe, WellFormed, function
  <1>6. function.frame_size \in Nat
    BY <1>5 DEF FunctionFits
  <1>7. ASSUME NEW index \in Windows(function) PROVE frame.base + index \in Slot
    <2>1. index \in Nat /\ index < function.frame_size
      BY <1>6 DEF Windows
    <2>2. QED  BY ONLY <1>3, <1>6, <2>1, RegisterSlotsAssumption DEF Slot
  <1>8. QED  BY <1>1, <1>2, <1>3, <1>4, <1>5, <1>7

\* The operands of the word i of the function that runs.
LEMMA Operands ==
    ASSUME Safe, frames # <<>>, NEW i \in Starts(function),
           NEW w, w = function.code[i], NEW op, op = unfused_op(w),
           NEW regs, NEW arrs, RegistersFit(regs, arrs, closures)
    PROVE  /\ w \in Word
           /\ op \notin {"Print", "Jump", "Return", "ReturnNil"} => frame.base + w.a \in Slot
           /\ op = "Move" => frame.base + w.b \in Slot
           /\ op \in Arithmetic \cup Unaries \cup {"IndexGet", "IndexSet", "Print", "Return"}
              => IsValue(RK(w.b_const, w.b, regs), arrs, closures)
           /\ op \in Arithmetic \cup {"IndexGet", "IndexSet"}
              => IsValue(RK(w.c_const, w.c, regs), arrs, closures)
           /\ op = "Call" => \A j \in 0 .. w.b : frame.base + (w.a + j) \in Slot
           /\ op \in {"Array", "ArrayAppend"}
              => \A j \in 0 .. w.c - 1 : frame.base + (w.b + j) \in Slot
           /\ op = "LoadK" => IsValue(K(w.b), arrs, closures)
           /\ w.b_const => IsScalar(K(w.b))
           /\ w.c_const => IsScalar(K(w.c))
  <1>1. /\ FunctionFits(function, functions)
        /\ \A index \in Windows(function) : frame.base + index \in Slot
    BY Here
  <1>2. /\ w \in Word
        /\ op \notin {"Print", "Jump", "Return", "ReturnNil"} => w.a \in Windows(function)
        /\ op = "Move" => w.b \in Windows(function)
        /\ op \in Arithmetic \cup Unaries \cup {"IndexGet", "IndexSet", "Print", "Return"}
           /\ ~w.b_const => w.b \in Windows(function)
        /\ op \in Arithmetic \cup {"IndexGet", "IndexSet"} /\ ~w.c_const
           => w.c \in Windows(function)
        /\ op = "Call" => \A j \in 0 .. w.b : w.a + j \in Windows(function)
        /\ op \in {"Array", "ArrayAppend"}
           => \A j \in 0 .. w.c - 1 : w.b + j \in Windows(function)
        /\ w.b_const \/ op = "LoadK" => HasScalar(function, w.b)
        /\ w.c_const => HasScalar(function, w.c)
    BY <1>1, OperandsOf
  <1>3. \A s \in Slot : IsValue(regs[s], arrs, closures)
    BY DEF RegistersFit
  <1>4. \A index : HasScalar(function, index) => /\ IsScalar(K(index))
                                                 /\ IsValue(K(index), arrs, closures)
    BY ScalarIsValue DEF HasScalar, K
  <1>5. \A index : RK(TRUE, index, regs) = K(index)
                   /\ RK(FALSE, index, regs) = regs[frame.base + index]
    BY DEF RK
  <1>6. w.b_const \in BOOLEAN /\ w.c_const \in BOOLEAN
    BY <1>2 DEF Word
  <1>7. op \in Arithmetic \cup Unaries \cup {"IndexGet", "IndexSet", "Print", "Return"}
        => IsValue(RK(w.b_const, w.b, regs), arrs, closures)
    <2>1. CASE w.b_const = TRUE
      BY <1>2, <1>4, <1>5, <2>1
    <2>2. CASE w.b_const = FALSE
      BY <1>1, <1>2, <1>3, <1>5, <2>2
    <2>3. QED  BY <1>6, <2>1, <2>2
  <1>8. op \in Arithmetic \cup {"IndexGet", "IndexSet"}
        => IsValue(RK(w.c_const, w.c, regs), arrs, closures)
    <2>1. CASE w.c_const = TRUE
      BY <1>2, <1>4, <1>5, <2>1
    <2>2. CASE w.c_const = FALSE
      BY <1>1, <1>2, <1>3, <1>5, <2>2
    <2>3. QED  BY <1>6, <2>1, <2>2
  <1>9. QED  BY <1>1, <1>2, <1>4, <1>7, <1>8

-----------------------------------------------------------------------------
(* Operations.                                                             *)

\* A value written into a register.
LEMMA PutRegister ==
    ASSUME NEW regs, NEW arrs, NEW clos, RegistersFit(regs, arrs, clos),
           NEW s \in Slot, NEW v, IsValue(v, arrs, clos)
    PROVE  RegistersFit(Put(regs, s, v), arrs, clos)
  <1>1. DOMAIN regs = Slot
    BY DEF RegistersFit
  <1>2. /\ Put(regs, s, v) = [x \in Slot |-> Put(regs, s, v)[x]]
        /\ \A x \in Slot : Put(regs, s, v)[x] = IF x = s THEN v ELSE regs[x]
    BY <1>1 DEF Put
  <1>3. QED  BY <1>2 DEF RegistersFit

\* An effect of an instruction leaves values behind.
EffectFits(e) ==
    /\ e = [registers |-> e.registers, arrays |-> e.arrays, skip |-> e.skip, error |-> e.error]
    /\ RegistersFit(e.registers, e.arrays, closures)
    /\ ArraysFit(e.arrays, closures)
    /\ DOMAIN e.arrays = DOMAIN arrays

\* An effect put together.
Effect(regs, arrs, skip, wrong) ==
    [registers |-> regs, arrays |-> arrs, skip |-> skip, error |-> wrong]

\* The result of an operation written into a register, unless it failed.
LEMMA CheckedFits ==
    ASSUME NEW e, EffectFits(e), NEW w, frame.base + w.a \in Slot,
           NEW operation, IsValue(operation.value, e.arrays, closures),
           NEW d, d = Checked(w, operation, e)
    PROVE  EffectFits(d) /\ d.skip = e.skip
  <1>1. CASE operation.error # NoError
    <2>1. d = Effect(e.registers, e.arrays, e.skip, operation.error)
      BY <1>1 DEF Checked, EffectFits, Effect
    <2>2. QED  BY <2>1 DEF EffectFits, Effect
  <1>2. CASE operation.error = NoError
    <2>1. d = Effect(Put(e.registers, frame.base + w.a, operation.value), e.arrays, e.skip, e.error)
      BY <1>2 DEF Checked, EffectFits, Effect, Put
    <2>2. RegistersFit(Put(e.registers, frame.base + w.a, operation.value), e.arrays, closures)
      BY PutRegister DEF EffectFits
    <2>3. QED  BY <2>1, <2>2 DEF EffectFits, Effect
  <1>3. QED  BY <1>1, <1>2

\* Registers keep values when there are more arrays and functions.
LEMMA ArraysGrow ==
    ASSUME NEW regs, NEW arrs, NEW clos, RegistersFit(regs, arrs, clos),
           NEW arrs2, NEW clos2,
           DOMAIN arrs \subseteq DOMAIN arrs2, DOMAIN clos \subseteq DOMAIN clos2
    PROVE  RegistersFit(regs, arrs2, clos2)
  BY StillValue DEF RegistersFit

\* A value stored into an array.
LEMMA IndexSetFits ==
    ASSUME NEW e, EffectFits(e),
           NEW array, IsValue(array, e.arrays, closures), NEW index,
           NEW v, IsValue(v, e.arrays, closures),
           NEW d, d = BodyIndexSet(array, index, v, e)
    PROVE  EffectFits(d) /\ d.skip = e.skip
  <1> DEFINE wrong == resolve_index(e.arrays, array, index)
  <1>1. CASE wrong # NoError
    <2>1. d = Effect(e.registers, e.arrays, e.skip, wrong)
      BY <1>1 DEF BodyIndexSet, EffectFits, Effect
    <2>2. QED  BY <2>1 DEF EffectFits, Effect
  <1>2. CASE wrong = NoError
    <2> DEFINE arrs == Stored(e.arrays, array[2], index[2], v)
    <2>1. d = Effect(e.registers, arrs, e.skip, e.error)
      BY <1>2 DEF BodyIndexSet, EffectFits, Effect, array_set, Stored
    <2>2. array[2] \in DOMAIN e.arrays /\ index[2] \in 0 .. Len(e.arrays[array[2]]) - 1
      BY <1>2, Resolved DEF EffectFits
    <2>3. ArraysFit(arrs, closures) /\ DOMAIN arrs = DOMAIN e.arrays
      BY <2>2, StoredFits DEF EffectFits
    <2>4. RegistersFit(e.registers, arrs, closures)
      BY <2>3, ArraysGrow DEF EffectFits
    <2>5. QED  BY <2>1, <2>3, <2>4 DEF EffectFits, Effect
  <1>3. QED  BY <1>1, <1>2

\* The operations that a superinstruction may hold.
Worked == Arithmetic \cup Unaries \cup {"IndexGet", "IndexSet"} \cup Jumps

\* The work of an instruction that a superinstruction may hold leaves values in
\* registers and arrays, and skips the words that its operand says or none.
LEMMA BodyFits ==
    ASSUME Safe, frames # <<>>, NEW i \in Starts(function),
           NEW w, w = function.code[i], NEW op, op = unfused_op(w), op \in Worked,
           NEW e, EffectFits(e), NEW d, d = Body(op, w, e)
    PROVE  /\ EffectFits(d)
           /\ op \notin Jumps => d.skip = e.skip
           /\ op = "Jump" => d.skip = w.b
           /\ op \in Jumps => d.skip = w.b \/ d.skip = 0
  <1> DEFINE a == e.registers[frame.base + w.a]
             b == RK(w.b_const, w.b, e.registers)
             c == RK(w.c_const, w.c, e.registers)
  <1>1. /\ w \in Word
        /\ op # "Jump" => frame.base + w.a \in Slot
        /\ op \notin Jumps => IsValue(b, e.arrays, closures)
        /\ op \in Arithmetic \cup {"IndexGet", "IndexSet"} => IsValue(c, e.arrays, closures)
    <2>1. op \notin {"Print", "Return", "ReturnNil"}
      BY DEF Worked, Arithmetic, Unaries, Jumps
    <2>2. QED  BY <2>1, Operands DEF Worked, EffectFits
  <1>2. CASE op \in Arithmetic
    <2>1. d = Checked(w, BinaryOperation(op, b, c), e)
      BY <1>2 DEF Body, Arithmetic, Unaries
    <2>3. op \notin Jumps
      BY <1>2 DEF Arithmetic, Jumps
    <2>2. IsValue(BinaryOperation(op, b, c).value, e.arrays, closures)
      <3>1. IsScalar(BinaryOperation(op, b, c).value)
        BY <1>1, <1>2, <2>3, BinaryScalar, SMTT(30)
      <3>2. QED  BY ONLY <3>1, ScalarIsValue
    <2>4. QED  BY <1>1, <2>1, <2>2, <2>3, CheckedFits DEF Jumps
  <1>3. CASE op \in Unaries
    <2>1. d = Checked(w, UnaryOperation(op, b), e)
      BY <1>3 DEF Body, Arithmetic, Unaries
    <2>3. op \notin Jumps
      BY <1>3 DEF Unaries, Jumps
    <2>2. IsValue(UnaryOperation(op, b).value, e.arrays, closures)
      <3>1. IsScalar(UnaryOperation(op, b).value)
        BY <1>1, <1>3, <2>3, UnaryScalar
      <3>2. QED  BY ONLY <3>1, ScalarIsValue
    <2>4. QED  BY <1>1, <2>1, <2>2, <2>3, CheckedFits DEF Jumps
  <1>4. CASE op = "IndexGet"
    <2>1. d = Checked(w, array_get(e.arrays, b, c), e)
      BY <1>4 DEF Body, Arithmetic, Unaries
    <2>2. IsValue(array_get(e.arrays, b, c).value, e.arrays, closures)
      BY <1>1, <1>4, ElementIsValue DEF EffectFits, Jumps
    <2>3. QED  BY <1>1, <1>4, <2>1, <2>2, CheckedFits DEF Jumps
  <1>5. CASE op = "IndexSet"
    <2>1. d = BodyIndexSet(a, b, c, e)
      BY <1>5 DEF Body, Arithmetic, Unaries
    <2>2. IsValue(a, e.arrays, closures)
      BY <1>1, <1>5 DEF EffectFits, RegistersFit
    <2>3. QED  BY <1>1, <1>5, <2>1, <2>2, IndexSetFits DEF Jumps
  <1>6. CASE op \in Jumps
    <2>1. PICK skip : /\ d = Effect(e.registers, e.arrays, skip, e.error)
                      /\ skip = w.b \/ skip = 0
                      /\ op = "Jump" => skip = w.b
      <3>1. CASE op = "Jump"
        BY <3>1 DEF Body, Arithmetic, Unaries, EffectFits, Effect
      <3>2. CASE op = "JumpIfFalse"
        BY <3>2 DEF Body, Arithmetic, Unaries, EffectFits, Effect
      <3>3. CASE op = "JumpIfTrue"
        BY <3>3 DEF Body, Arithmetic, Unaries, EffectFits, Effect
      <3>4. QED  BY <1>6, <3>1, <3>2, <3>3 DEF Jumps
    <2>2. QED  BY <1>6, <2>1 DEF EffectFits, Effect
  <1>7. QED  BY <1>2, <1>3, <1>4, <1>5, <1>6 DEF Worked

-----------------------------------------------------------------------------
(* The list of open upvalues.                                              *)

\* Closing upvalues leaves as many, all of them fit.
LEMMA ClosingFits ==
    ASSUME NEW regs, NEW arrs, NEW clos, RegistersFit(regs, arrs, clos),
           UpvaluesFit(upvalues, open_upvalues, arrs, clos),
           NEW last \in Nat, close_upvalues(last, regs)
    PROVE  UpvaluesFit(upvalues', open_upvalues', arrs, clos) /\ DOMAIN upvalues' = DOMAIN upvalues
  <1> DEFINE k == Walked(open_upvalues, upvalues, last)
  <1>1. IsSequence(upvalues) /\ IsSequence(open_upvalues)
    BY DEF UpvaluesFit
  <1>2. k \in 0 .. Len(open_upvalues)
    BY <1>1, WalkEnds
  <1>3. open_upvalues' = SubSeq(open_upvalues, k + 1, Len(open_upvalues))
    BY DEF close_upvalues
  <1>4. DOMAIN upvalues' = DOMAIN upvalues
    BY DEF close_upvalues
  <1>5. IsSequence(open_upvalues') /\ \A i \in DOMAIN open_upvalues' : open_upvalues'[i] \in DOMAIN upvalues'
    <2>1. /\ IsSequence(open_upvalues')
          /\ \A i \in DOMAIN open_upvalues' : /\ i + k \in DOMAIN open_upvalues
                                              /\ open_upvalues'[i] = open_upvalues[i + k]
      BY ONLY <1>1, <1>2, <1>3, RestOf
    <2>2. QED  BY <2>1, <1>4 DEF UpvaluesFit
  <1>6. IsSequence(upvalues')
    <2>1. Len(upvalues) \in Nat /\ DOMAIN upvalues = 1 .. Len(upvalues)
      BY <1>1, SequenceIsRow
    <2>2. upvalues' = [u \in 1 .. Len(upvalues) |-> upvalues'[u]]
      BY <2>1 DEF close_upvalues
    <2>3. QED  BY ONLY <2>1, <2>2, RowIsSequence
  <1>7. ASSUME NEW u \in DOMAIN upvalues PROVE UpvalueFits(upvalues'[u], arrs, clos)
    <2>1. CASE u \in Closing(last)
      <3>1. upvalues'[u] = [location |-> ClosedUpvalue, closed |-> regs[location(u)]]
        BY <2>1 DEF close_upvalues
      <3>2. PICK i \in DOMAIN open_upvalues : u = open_upvalues[i] /\ location(open_upvalues[i]) >= last
        <4>1. PICK i \in Leading(open_upvalues, upvalues, last) : u = open_upvalues[i]
          BY <2>1 DEF Closing
        <4>2. i \in DOMAIN open_upvalues /\ \A j \in 1 .. i : location(open_upvalues[j]) >= last
          BY <4>1 DEF Leading, location
        <4>3. i \in 1 .. i
          BY <1>1, <4>2, SequenceIsRow
        <4>4. QED  BY <4>1, <4>2, <4>3
      <3>3. location(u) \in Slot \cup {ClosedUpvalue}
        BY DEF UpvaluesFit, UpvalueFits, location
      <3>4. location(u) \in Slot
        BY <3>2, <3>3 DEF ClosedUpvalue
      <3>5. IsValue(regs[location(u)], arrs, clos)
        BY <3>4 DEF RegistersFit
      <3>6. QED  BY <3>1, <3>5 DEF UpvalueFits
    <2>2. CASE u \notin Closing(last)
      BY <2>2 DEF close_upvalues, UpvaluesFit
    <2>3. QED  BY <2>1, <2>2
  <1>8. QED  BY <1>4, <1>5, <1>6, <1>7 DEF UpvaluesFit

-----------------------------------------------------------------------------
(* What a step leaves.                                                     *)

\* Registers, globals and upvalues keep values when there are more arrays and functions.
LEMMA Grown ==
    ASSUME NEW arrs, NEW clos, NEW arrs2, NEW clos2,
           DOMAIN arrs \subseteq DOMAIN arrs2, DOMAIN clos \subseteq DOMAIN clos2
    PROVE  /\ \A regs : RegistersFit(regs, arrs, clos) => RegistersFit(regs, arrs2, clos2)
           /\ \A globs : GlobalsFit(globs, arrs, clos) => GlobalsFit(globs, arrs2, clos2)
           /\ \A ups, open : UpvaluesFit(ups, open, arrs, clos)
                             => UpvaluesFit(ups, open, arrs2, clos2)
  <1>1. \A v : IsValue(v, arrs, clos) => IsValue(v, arrs2, clos2)
    BY StillValue
  <1>2. \A regs : RegistersFit(regs, arrs, clos) => RegistersFit(regs, arrs2, clos2)
    BY <1>1 DEF RegistersFit
  <1>3. \A globs : GlobalsFit(globs, arrs, clos) => GlobalsFit(globs, arrs2, clos2)
    BY <1>1 DEF GlobalsFit
  <1>4. \A u : UpvalueFits(u, arrs, clos) => UpvalueFits(u, arrs2, clos2)
    BY <1>1 DEF UpvalueFits
  <1>5. \A ups, open : UpvaluesFit(ups, open, arrs, clos) => UpvaluesFit(ups, open, arrs2, clos2)
    BY <1>4 DEF UpvaluesFit
  <1>6. QED  BY <1>2, <1>3, <1>5

\* Functions keep their upvalues when there are more.
LEMMA ClosuresKept ==
    ASSUME NEW clos, NEW ups, ClosuresFit(clos, ups), NEW ups2, DOMAIN ups \subseteq DOMAIN ups2
    PROVE  ClosuresFit(clos, ups2)
  BY DEF ClosuresFit, ClosureFits

\* Every value is one after the step.
ValuesAfter ==
    /\ RegistersFit(registers', arrays', closures')
    /\ GlobalsFit(globals', arrays', closures')
    /\ ArraysFit(arrays', closures')
    /\ UpvaluesFit(upvalues', open_upvalues', arrays', closures')
    /\ ClosuresFit(closures', upvalues')

\* What a step has to show for the values.
LEMMA ValuesNext == ASSUME functions' = functions, ValuesAfter PROVE ValuesInv'
  BY DEF ValuesAfter, ValuesInv, ClosuresFit, ClosureFits

-----------------------------------------------------------------------------
(* The ways an instruction of the interpreter ends.                        *)

\* What a step has to leave: values, and frames at the starts of instructions.
After == /\ functions' = functions
         /\ ValuesAfter
         /\ FramesFit(frames', closures')

\* The newest frame at the start of another instruction.
LEMMA WithPcFits ==
    ASSUME Safe, frames # <<>>, NEW pc \in Nat, pc + 1 \in Starts(function)
    PROVE  FramesFit(WithPc(pc), closures)
  <1>1. /\ Len(frames) \in Nat \ {0} /\ DOMAIN frames = 1 .. Len(frames)
        /\ frame = frames[Len(frames)] /\ IsFrame(frame) /\ FrameFits(frame, closures)
    BY Here
  <1>2. /\ DOMAIN WithPc(pc) = DOMAIN frames
        /\ WithPc(pc)[Len(frames)] = [frame EXCEPT !.pc = pc]
        /\ \A i \in DOMAIN frames : i # Len(frames) => WithPc(pc)[i] = frames[i]
    BY <1>1 DEF WithPc
  <1>3. PICK f : f = [frame EXCEPT !.pc = pc]
    OBVIOUS
  <1>4. f.closure = frame.closure /\ f.base = frame.base /\ f.pc = pc
    BY <1>1, <1>3 DEF IsFrame
  <1>5. FrameFits(f, closures)
    BY <1>1, <1>4 DEF FrameFits, function, closure
  <1>6. QED  BY <1>2, <1>3, <1>5 DEF Safe, PlacesInv, FramesFit

\* The newest frame some words further on, at the start of an instruction.
LEMMA ContinueFits ==
    ASSUME Safe, frames # <<>>, NEW words, Continue(words),
           frame.pc + words \in Nat, frame.pc + words + 1 \in Starts(function)
    PROVE  FramesFit(frames', closures)
  <1>1. frame = frames[Len(frames)]
    BY Here
  <1>2. PICK pc \in Nat : pc = frame.pc + words
    OBVIOUS
  <1>3. frames' = WithPc(pc)
    BY <1>1, <1>2 DEF Continue, WithPc
  <1>4. pc + 1 \in Starts(function)
    BY <1>2
  <1>5. QED  BY <1>3, <1>4, WithPcFits

\* Most words are followed by the next.
LEMMA NextFits ==
    ASSUME Safe, frames # <<>>, Continue(1),
           unfused_op(insn) \notin {"Return", "ReturnNil", "Jump", "Closure"}
    PROVE  FramesFit(frames', closures)
  <1>1. /\ FunctionFits(function, functions) /\ frame.pc \in Nat
        /\ frame.pc + 1 \in Starts(function)
    BY Here
  <1>2. frame.pc + 1 + 1 \in Starts(function)
    BY <1>1, NextOf DEF insn
  <1>3. QED  BY <1>1, <1>2, ContinueFits

\* Frames keep their functions when there are more.
LEMMA FramesGrown ==
    ASSUME NEW frs, NEW clos, FramesFit(frs, clos),
           NEW clos2, \A c \in DOMAIN clos : c \in DOMAIN clos2 /\ clos2[c] = clos[c]
    PROVE  FramesFit(frs, clos2)
  BY DEF FramesFit, FrameFits

\* The values when only the registers and the arrays change.
LEMMA WorkFits ==
    ASSUME Safe, UNCHANGED <<program_vars, globals, closures, upvalue_vars>>,
           RegistersFit(registers', arrays', closures), ArraysFit(arrays', closures),
           DOMAIN arrays \subseteq DOMAIN arrays', FramesFit(frames', closures)
    PROVE  After
  <1>1. /\ functions' = functions /\ globals' = globals /\ closures' = closures
        /\ upvalues' = upvalues /\ open_upvalues' = open_upvalues
    BY DEF program_vars, upvalue_vars
  <1>2. /\ GlobalsFit(globals, arrays', closures)
        /\ UpvaluesFit(upvalues, open_upvalues, arrays', closures)
    BY Grown DEF Safe, ValuesInv
  <1>3. ClosuresFit(closures, upvalues)
    BY DEF Safe, ValuesInv
  <1>4. QED  BY <1>1, <1>2, <1>3 DEF After, ValuesAfter

\* An instruction that writes a value into its register and goes on to the next.
LEMMA SetFits ==
    ASSUME Safe, frames # <<>>, NEW v, Set(v),
           ArraysFit(arrays', closures), DOMAIN arrays \subseteq DOMAIN arrays',
           IsValue(v, arrays', closures),
           unfused_op(insn) \notin {"Return", "ReturnNil", "Jump", "Closure", "Print"}
    PROVE  After
  <1>1. frame.pc + 1 \in Starts(function)
    BY Here
  <1>2. RegistersFit(registers, arrays', closures)
    BY Grown DEF Safe, ValuesInv
  <1>3. frame.base + insn.a \in Slot
    BY <1>1, <1>2, Operands DEF insn
  <1>4. registers' = Put(registers, frame.base + insn.a, v)
    BY DEF Set, Put
  <1>5. RegistersFit(registers', arrays', closures)
    BY <1>2, <1>3, <1>4, PutRegister
  <1>6. FramesFit(frames', closures)
    BY NextFits DEF Set
  <1>7. QED  BY <1>5, <1>6, WorkFits DEF Set

\* No frames at all.
LEMMA EmptyFits == ASSUME NEW clos PROVE FramesFit(<<>>, clos)
  BY Empty DEF FramesFit

\* The script ends with an error: frames and calls are given up.
LEMMA FailAtFits ==
    ASSUME Safe, NEW m, NEW words, NEW regs, FailAt(m, words, regs),
           RegistersFit(regs, arrays', closures), ArraysFit(arrays', closures),
           DOMAIN arrays \subseteq DOMAIN arrays'
    PROVE  After
  <1>1. /\ functions' = functions /\ globals' = globals /\ closures' = closures
        /\ frames' = <<>> /\ close_upvalues(0, regs) /\ registers' = Put(regs, 0, Nil)
    BY DEF FailAt, program_vars, Put
  <1>2. /\ GlobalsFit(globals, arrays', closures)
        /\ UpvaluesFit(upvalues, open_upvalues, arrays', closures)
    BY Grown DEF Safe, ValuesInv
  <1>3. /\ UpvaluesFit(upvalues', open_upvalues', arrays', closures)
        /\ DOMAIN upvalues' = DOMAIN upvalues
    BY <1>1, <1>2, ClosingFits
  <1>4. RegistersFit(registers', arrays', closures)
    <2>1. 0 \in Slot
      BY RegisterSlotsAssumption DEF Slot
    <2>2. IsValue(Nil, arrays', closures)
      BY Scalars, ScalarIsValue
    <2>3. QED  BY <1>1, <2>1, <2>2, PutRegister
  <1>5. ClosuresFit(closures, upvalues')
    BY <1>3, ClosuresKept DEF Safe, ValuesInv
  <1>6. QED  BY <1>1, <1>2, <1>3, <1>4, <1>5, EmptyFits DEF After, ValuesAfter

\* The same, when nothing was written before.
LEMMA FailFits == ASSUME Safe, NEW m, FAIL(m) PROVE After
  BY FailAtFits DEF FAIL, Safe, ValuesInv

\* An instruction with an effect goes on to the word that its effect names.
LEMMA TakeFits ==
    ASSUME Safe, frames # <<>>, NEW e, EffectFits(e), NEW words, Take(e, words),
           frame.pc + (words + e.skip) \in Nat, frame.pc + (words + e.skip) + 1 \in Starts(function)
    PROVE  After
  <1>1. /\ RegistersFit(e.registers, e.arrays, closures) /\ ArraysFit(e.arrays, closures)
        /\ DOMAIN e.arrays = DOMAIN arrays /\ arrays' = e.arrays
    BY DEF EffectFits, Take
  <1>2. CASE e.error # NoError
    <2>1. FailAt(e.error, words, e.registers)
      BY <1>2 DEF Take
    <2>2. QED  BY <1>1, <2>1, FailAtFits
  <1>3. CASE e.error = NoError
    <2>1. /\ registers' = e.registers /\ Continue(words + e.skip)
          /\ UNCHANGED <<program_vars, globals, closures, upvalue_vars>>
      BY <1>3 DEF Take
    <2>2. FramesFit(frames', closures)
      BY <2>1, ContinueFits
    <2>3. QED  BY <1>1, <2>1, <2>2, WorkFits
  <1>4. QED  BY <1>2, <1>3

\* A return writes a value into the caller's window, or ends the script.
LEMMA ReturnFits ==
    ASSUME Safe, frames # <<>>, NEW v, IsValue(v, arrays, closures), ReturnWith(v)
    PROVE  After
  <1>1. /\ frame.base \in Nat \ {0} /\ frame.base + function.frame_size <= RegisterSlots
        /\ FunctionFits(function, functions)
    BY Here
  <1>2. frame.base - 1 \in Slot /\ 0 \in Slot
    BY <1>1, RegisterSlotsAssumption DEF Slot, FunctionFits
  <1>3. /\ functions' = functions /\ globals' = globals /\ closures' = closures
        /\ arrays' = arrays /\ frames' = Front(frames) /\ close_upvalues(frame.base, registers)
        /\ registers' = Put(registers, 0, Nil) \/ registers' = Put(registers, frame.base - 1, v)
    BY DEF ReturnWith, program_vars, Put
  <1>4. RegistersFit(registers', arrays', closures)
    <2>1. IsValue(Nil, arrays, closures)
      BY Scalars, ScalarIsValue
    <2>2. RegistersFit(registers, arrays, closures)
      BY DEF Safe, ValuesInv
    <2>3. /\ RegistersFit(Put(registers, 0, Nil), arrays, closures)
          /\ RegistersFit(Put(registers, frame.base - 1, v), arrays, closures)
      BY <1>2, <2>1, <2>2, PutRegister
    <2>4. QED  BY <1>3, <2>3
  <1>5. /\ UpvaluesFit(upvalues', open_upvalues', arrays', closures)
        /\ DOMAIN upvalues' = DOMAIN upvalues
    BY <1>1, <1>3, ClosingFits DEF Safe, ValuesInv
  <1>6. ClosuresFit(closures, upvalues')
    BY <1>5, ClosuresKept DEF Safe, ValuesInv
  <1>7. FramesFit(Front(frames), closures)
    <2>1. /\ IsSequence(frames) /\ frames # <<>> /\ FramesFit(frames, closures)
      BY DEF Safe, FramesInv, StackInv, PlacesInv
    <2>2. PICK t : t = Front(frames)
      OBVIOUS
    <2>3. /\ Len(frames) \in Nat \ {0} /\ DOMAIN frames = 1 .. Len(frames)
          /\ DOMAIN t = 1 .. Len(frames) - 1
          /\ \A i \in 1 .. Len(frames) - 1 : t[i] = frames[i]
      BY <2>1, <2>2, Popped
    <2>4. QED  BY <2>1, <2>2, <2>3 DEF FramesFit
  <1>8. QED  BY <1>3, <1>4, <1>5, <1>6, <1>7 DEF After, ValuesAfter, Safe, ValuesInv

-----------------------------------------------------------------------------
(* The instructions.                                                       *)

\* The word of a running machine, which is not fused.
LEMMA Plain ==
    ASSUME Safe, NEW op, Dispatch(op), op \notin {pair[1] : pair \in FusedPairs}
    PROVE  frames # <<>> /\ insn.op = op /\ unfused_op(insn) = op
  BY PlainOf DEF Dispatch, Safe, FramesInv, StackInv

\* The superinstructions by name.
FusedNames == {"LtJumpIfFalse", "LeJumpIfFalse", "AddJump", "ModAdd", "DivAdd", "IndexSetAdd"}

\* The names of the superinstructions.
LEMMA FusedNamesAre == {pair[1] : pair \in FusedPairs} = FusedNames
  BY DEF FusedPairs, FusedNames

\* An instruction that loads a value.
LEMMA LoadFits ==
    ASSUME Safe, NEW op, NEW v, Load(op, v), op \notin FusedNames,
           op \notin {"Return", "ReturnNil", "Jump", "Closure", "Print"},
           IsValue(v, arrays, closures)
    PROVE  After
  BY Plain, FusedNamesAre, SetFits DEF Load, Safe, ValuesInv

\* The operands of the word the machine is at.
LEMMA OperandsHere ==
    ASSUME Safe, frames # <<>>, NEW op, op = unfused_op(insn)
    PROVE  /\ insn \in Word
           /\ op \notin {"Print", "Jump", "Return", "ReturnNil"}
              => frame.base + insn.a \in Slot /\ IsValue(R(insn.a), arrays, closures)
           /\ op = "Move" => IsValue(R(insn.b), arrays, closures)
           /\ op \in Arithmetic \cup Unaries \cup {"IndexGet", "IndexSet", "Print", "Return"}
              => IsValue(RK(insn.b_const, insn.b, registers), arrays, closures)
           /\ op = "Call" => \A j \in 0 .. insn.b : IsValue(R(insn.a + j), arrays, closures)
           /\ op \in {"Array", "ArrayAppend"}
              => \A j \in 0 .. insn.c - 1 : IsValue(R(insn.b + j), arrays, closures)
           /\ op = "LoadK" => IsValue(K(insn.b), arrays, closures)
  <1>1. frame.pc + 1 \in Starts(function) /\ insn = function.code[frame.pc + 1]
    BY Here DEF insn
  <1>2. /\ RegistersFit(registers, arrays, closures)
        /\ \A s \in Slot : IsValue(registers[s], arrays, closures)
    BY DEF Safe, ValuesInv, RegistersFit
  <1>3. /\ insn \in Word
        /\ op \notin {"Print", "Jump", "Return", "ReturnNil"} => frame.base + insn.a \in Slot
        /\ op = "Move" => frame.base + insn.b \in Slot
        /\ op \in Arithmetic \cup Unaries \cup {"IndexGet", "IndexSet", "Print", "Return"}
           => IsValue(RK(insn.b_const, insn.b, registers), arrays, closures)
        /\ op = "Call" => \A j \in 0 .. insn.b : frame.base + (insn.a + j) \in Slot
        /\ op \in {"Array", "ArrayAppend"}
           => \A j \in 0 .. insn.c - 1 : frame.base + (insn.b + j) \in Slot
        /\ op = "LoadK" => IsValue(K(insn.b), arrays, closures)
    BY <1>1, <1>2, Operands
  <1>4. QED  BY <1>2, <1>3 DEF R

\* Moves and constants.
LEMMA LoadsFit ==
    ASSUME Safe, Move \/ LoadK \/ LoadNil \/ LoadTrue \/ LoadFalse PROVE After
  <1>1. IsValue(Nil, arrays, closures) /\ IsValue(True, arrays, closures)
        /\ IsValue(False, arrays, closures)
    BY Scalars, ScalarIsValue
  <1>2. CASE Move
    <2>1. frames # <<>> /\ unfused_op(insn) = "Move"
      BY <1>2, Plain, FusedNamesAre DEF Move, Load, FusedNames
    <2>2. IsValue(R(insn.b), arrays, closures)
      BY <2>1, OperandsHere
    <2>3. QED  BY <1>2, <2>2, LoadFits DEF Move, FusedNames
  <1>3. CASE LoadK
    <2>1. frames # <<>> /\ unfused_op(insn) = "LoadK"
      BY <1>3, Plain, FusedNamesAre DEF LoadK, Load, FusedNames
    <2>2. IsValue(K(insn.b), arrays, closures)
      BY <2>1, OperandsHere
    <2>3. QED  BY <1>3, <2>2, LoadFits DEF LoadK, FusedNames
  <1>4. CASE LoadNil
    BY <1>1, <1>4, LoadFits DEF LoadNil, FusedNames
  <1>5. CASE LoadTrue
    BY <1>1, <1>5, LoadFits DEF LoadTrue, FusedNames
  <1>6. CASE LoadFalse
    BY <1>1, <1>6, LoadFits DEF LoadFalse, FusedNames
  <1>7. QED  BY <1>2, <1>3, <1>4, <1>5, <1>6

\* The global that an access finds is there, cached or not.
LEMMA FoundThere ==
    ASSUME Safe, frames # <<>>, found, inline_cache \in BOOLEAN PROVE GlobalName \in DOMAIN globals
  <1>1. CASE inline_cache /\ cache_slot # NoName
    <2>1. /\ frame.closure \in DOMAIN closures /\ frame.pc + 1 \in Starts(function)
      BY Here
    <2>2. closure.function \in DOMAIN caches
      BY <1>1, <2>1 DEF Safe, CellsInv, closure
    <2>3. frame.pc + 1 \in DOMAIN caches[closure.function]
      BY <2>1, <2>2 DEF Safe, CacheInv, Starts, function
    <2>4. GlobalName = cache_slot
      BY <1>1 DEF GlobalName
    <2>5. QED  BY <1>1, <2>2, <2>3, <2>4 DEF cache_slot, Safe, CacheInv, CacheNeverStale
  <1>2. CASE ~(inline_cache /\ cache_slot # NoName)
    BY <1>2 DEF found
  <1>3. QED  BY <1>1, <1>2

\* A global set or defined.
LEMMA StoreGlobalFits ==
    ASSUME Safe, frames # <<>>, NEW x, StoreGlobal(x),
           unfused_op(insn) \in {"SetGlobal", "DefineGlobal"}
    PROVE  After
  <1>1. IsValue(R(insn.a), arrays, closures)
    BY OperandsHere
  <1>2. /\ functions' = functions /\ arrays' = arrays /\ closures' = closures
        /\ upvalues' = upvalues /\ open_upvalues' = open_upvalues /\ registers' = registers
        /\ Continue(1)
    BY DEF StoreGlobal, program_vars, upvalue_vars
  <1>3. FramesFit(frames', closures)
    BY <1>2, NextFits
  <1>4. GlobalsFit(globals', arrays, closures)
    <2>1. GlobalsFit(globals, arrays, closures)
      BY DEF Safe, ValuesInv
    <2>2. QED  BY <1>1, <2>1 DEF StoreGlobal, GlobalsFit
  <1>5. QED  BY <1>2, <1>3, <1>4 DEF After, ValuesAfter, Safe, ValuesInv

\* Globals, through the cache or without it.
LEMMA GlobalAccessFits ==
    ASSUME Safe, inline_cache \in BOOLEAN, GetGlobal \/ SetGlobal \/ DefineGlobal \/ GlobalFails
    PROVE  After
  <1>1. CASE GetGlobal
    <2>1. frames # <<>> /\ unfused_op(insn) = "GetGlobal"
      BY <1>1, Plain, FusedNamesAre DEF GetGlobal, FusedNames
    <2>2. GlobalName \in DOMAIN globals
      BY <1>1, <2>1, FoundThere DEF GetGlobal
    <2>3. IsValue(globals[GlobalName], arrays, closures)
      BY <2>2 DEF Safe, ValuesInv, GlobalsFit
    <2>4. QED  BY <1>1, <2>1, <2>3, SetFits DEF GetGlobal, Safe, ValuesInv
  <1>2. CASE SetGlobal
    <2>1. frames # <<>> /\ unfused_op(insn) = "SetGlobal"
      BY <1>2, Plain, FusedNamesAre DEF SetGlobal, FusedNames
    <2>2. QED  BY <1>2, <2>1, StoreGlobalFits DEF SetGlobal
  <1>3. CASE DefineGlobal
    <2>1. frames # <<>> /\ unfused_op(insn) = "DefineGlobal"
      BY <1>3, Plain, FusedNamesAre DEF DefineGlobal, FusedNames
    <2>2. QED  BY <1>3, <2>1, StoreGlobalFits DEF DefineGlobal
  <1>4. CASE GlobalFails
    BY <1>4, FailFits DEF GlobalFails
  <1>5. QED  BY <1>1, <1>2, <1>3, <1>4

\* An upvalue of the running function exists and holds a value.
LEMMA UpvaluesHere ==
    ASSUME Safe, frames # <<>>, unfused_op(insn) \in {"GetUpvalue", "SetUpvalue"},
           NEW u, u = closure.upvalues[insn.b + 1]
    PROVE  /\ u \in DOMAIN upvalues /\ UpvalueFits(upvalues[u], arrays, closures)
           /\ IsValue(UpvalueContents(u), arrays, closures)
  <1>1. /\ FunctionFits(function, functions) /\ frame.pc + 1 \in Starts(function)
        /\ ClosureFits(closure, upvalues)
    BY Here
  <1>2. insn.b + 1 \in DOMAIN function.upvalues
    BY <1>1, OperandsOf DEF insn, HasUpvalue
  <1>3. u \in DOMAIN upvalues
    BY <1>1, <1>2 DEF ClosureFits, function
  <1>4. UpvalueFits(upvalues[u], arrays, closures)
    BY <1>3 DEF Safe, ValuesInv, UpvaluesFit
  <1>5. location(u) # ClosedUpvalue => IsValue(registers[location(u)], arrays, closures)
    BY <1>4 DEF UpvalueFits, location, Safe, ValuesInv, RegistersFit
  <1>6. QED  BY <1>3, <1>4, <1>5 DEF UpvalueContents, UpvalueFits

\* An upvalue set: its register while it is open, its own value once it is closed.
LEMMA SetUpvalueFits == ASSUME Safe, SetUpvalue PROVE After
  <1>1. frames # <<>> /\ unfused_op(insn) = "SetUpvalue"
    BY Plain, FusedNamesAre DEF SetUpvalue, FusedNames
  <1>2. PICK u : u = closure.upvalues[insn.b + 1]
    OBVIOUS
  <1>3. u \in DOMAIN upvalues /\ UpvalueFits(upvalues[u], arrays, closures)
    BY <1>1, <1>2, UpvaluesHere
  <1>4. IsValue(R(insn.a), arrays, closures)
    BY <1>1, OperandsHere
  <1>5. FramesFit(frames', closures)
    BY <1>1, NextFits DEF SetUpvalue
  <1>6. /\ functions' = functions /\ arrays' = arrays /\ closures' = closures
        /\ globals' = globals /\ open_upvalues' = open_upvalues
    BY DEF SetUpvalue, program_vars
  <1>7. CASE location(u) = ClosedUpvalue
    <2>1. registers' = registers /\ upvalues' = [upvalues EXCEPT ![u].closed = R(insn.a)]
      BY <1>2, <1>7 DEF SetUpvalue
    <2>2. PICK v : v = [upvalues[u] EXCEPT !.closed = R(insn.a)]
      OBVIOUS
    <2>3. upvalues' = Put(upvalues, u, v)
      BY <2>1, <2>2 DEF Put
    <2>4. UpvalueFits(v, arrays, closures)
      <3>1. v = [location |-> upvalues[u].location, closed |-> R(insn.a)]
        BY <1>3, <2>2 DEF UpvalueFits
      <3>2. QED  BY <1>3, <1>4, <3>1 DEF UpvalueFits
    <2>5. IsSequence(upvalues)
      BY DEF Safe, ValuesInv, UpvaluesFit
    <2>6. /\ IsSequence(upvalues') /\ DOMAIN upvalues' = DOMAIN upvalues
          /\ upvalues'[u] = v
          /\ \A x \in DOMAIN upvalues : x # u => upvalues'[x] = upvalues[x]
      BY <1>3, <2>3, <2>5, Exchanged
    <2>7. UpvaluesFit(upvalues', open_upvalues, arrays, closures)
      BY <2>4, <2>6 DEF Safe, ValuesInv, UpvaluesFit
    <2>8. ClosuresFit(closures, upvalues')
      BY <2>6, ClosuresKept DEF Safe, ValuesInv
    <2>9. QED  BY <1>5, <1>6, <2>1, <2>7, <2>8 DEF After, ValuesAfter, Safe, ValuesInv
  <1>8. CASE location(u) # ClosedUpvalue
    <2>1. upvalues' = upvalues /\ registers' = Put(registers, location(u), R(insn.a))
      BY <1>2, <1>8 DEF SetUpvalue, Put
    <2>2. location(u) \in Slot
      BY <1>3, <1>8 DEF UpvalueFits, location
    <2>3. RegistersFit(registers', arrays, closures)
      BY <1>4, <2>1, <2>2, PutRegister DEF Safe, ValuesInv
    <2>4. QED  BY <1>5, <1>6, <2>1, <2>3 DEF After, ValuesAfter, Safe, ValuesInv
  <1>9. QED  BY <1>7, <1>8

\* Before an instruction had any effect.
LEMMA NoEffectFits == ASSUME Safe PROVE EffectFits(NoEffect) /\ NoEffect.skip = 0
  BY DEF Safe, ValuesInv, EffectFits, NoEffect

\* An operation is no jump.
LEMMA JumpsAre == Arithmetic \cap Jumps = {} /\ Unaries \cap Jumps = {}
  BY DEF Arithmetic, Unaries, Jumps

\* Operations and accesses to arrays.
LEMMA OperateFits == ASSUME Safe, Operate PROVE After
  <1>1. PICK op \in Arithmetic \cup Unaries \cup {"IndexGet", "IndexSet"} :
            Dispatch(op) /\ Take(Body(insn.op, insn, NoEffect), 1)
    BY DEF Operate
  <1>2. op \notin FusedNames
    BY DEF Arithmetic, Unaries, FusedNames
  <1>3. frames # <<>> /\ unfused_op(insn) = op /\ insn.op = op
    BY <1>1, <1>2, Plain, FusedNamesAre
  <1>4. /\ FunctionFits(function, functions) /\ frame.pc \in Nat
        /\ frame.pc + 1 \in Starts(function)
    BY <1>3, Here
  <1>5. op \in Worked /\ op \notin Jumps
    BY JumpsAre DEF Worked, Jumps
  <1>6. PICK e : e = Body(op, insn, NoEffect)
    OBVIOUS
  <1>7. EffectFits(e) /\ e.skip = 0
    BY <1>3, <1>4, <1>5, <1>6, NoEffectFits, BodyFits DEF insn
  <1>8. frame.pc + 1 + 1 \in Starts(function)
    <2>1. op \notin {"Return", "ReturnNil", "Jump", "Closure"}
      BY DEF Arithmetic, Unaries
    <2>2. QED  BY <1>3, <1>4, <2>1, NextOf DEF insn
  <1>9. frame.pc + (1 + e.skip) = frame.pc + 1 /\ frame.pc + 1 \in Nat
    BY <1>4, <1>7
  <1>10. QED
    <2>1. Take(e, 1)
      BY <1>1, <1>3, <1>6
    <2>2. frame.pc + (1 + e.skip) \in Nat /\ frame.pc + (1 + e.skip) + 1 \in Starts(function)
      BY <1>8, <1>9
    <2>3. QED  BY <1>3, <1>7, <2>1, <2>2, TakeFits

\* A jump, taken or not.
LEMMA JumpFits == ASSUME Safe, Jump PROVE After
  <1>1. PICK op \in Jumps : Dispatch(op) /\ Take(Body(insn.op, insn, NoEffect), 1)
    BY DEF Jump
  <1>2. op \notin FusedNames
    BY DEF Jumps, FusedNames
  <1>3. frames # <<>> /\ unfused_op(insn) = op /\ insn.op = op
    BY <1>1, <1>2, Plain, FusedNamesAre
  <1>4. /\ FunctionFits(function, functions) /\ frame.pc \in Nat
        /\ frame.pc + 1 \in Starts(function)
    BY <1>3, Here
  <1>5. op \in Worked
    BY DEF Worked
  <1>6. PICK e : e = Body(op, insn, NoEffect)
    OBVIOUS
  <1>7. /\ EffectFits(e) /\ (e.skip = insn.b \/ e.skip = 0)
        /\ op = "Jump" => e.skip = insn.b
    BY <1>3, <1>4, <1>5, <1>6, NoEffectFits, BodyFits DEF insn
  <1>8. /\ frame.pc + 1 + 1 + insn.b \in Starts(function) /\ insn.b \in Int
        /\ op # "Jump" => frame.pc + 1 + 1 \in Starts(function)
    <2>1. insn \in Word
      BY <1>3, OperandsHere
    <2>2. op \notin {"Return", "ReturnNil", "Closure"}
      BY DEF Jumps
    <2>3. /\ frame.pc + 1 + 1 + insn.b \in Starts(function)
          /\ op # "Jump" => frame.pc + 1 + 1 \in Starts(function)
      BY <1>3, <1>4, <2>2, NextOf DEF insn
    <2>4. QED  BY <2>1, <2>3 DEF Word
  <1>9. /\ frame.pc + (1 + e.skip) + 1 \in Starts(function) /\ frame.pc + (1 + e.skip) \in Int
    <2>1. CASE e.skip = insn.b
      <3>1. frame.pc + (1 + e.skip) + 1 = frame.pc + 1 + 1 + insn.b
        BY <1>4, <1>8, <2>1
      <3>2. QED  BY <1>4, <1>8, <2>1, <3>1
    <2>2. CASE e.skip = 0 /\ op # "Jump"
      <3>1. frame.pc + (1 + e.skip) + 1 = frame.pc + 1 + 1
        BY <1>4, <2>2
      <3>2. QED  BY <1>4, <1>8, <2>2, <3>1
    <2>3. QED  BY <1>7, <2>1, <2>2
  <1>10. frame.pc + (1 + e.skip) \in Nat
    <2>1. frame.pc + (1 + e.skip) + 1 \in Nat \ {0}
      BY <1>4, <1>9, PositionType
    <2>2. QED  BY ONLY <1>9, <2>1
  <1>11. QED
    <2>1. Take(e, 1)
      BY <1>1, <1>3, <1>6
    <2>2. QED  BY <1>3, <1>7, <1>9, <1>10, <2>1, TakeFits

\* A superinstruction: the work of two or three instructions in one step.
LEMMA SuperinstructionFits == ASSUME Safe, Superinstruction PROVE After
  <1>1. PICK pair \in FusedPairs :
            /\ Dispatch(pair[1])
            /\ IF Body(pair[2], insn, NoEffect).error # NoError
               THEN Take(Body(pair[2], insn, NoEffect), 1)
               ELSE Take(Body(pair[3], function.code[frame.pc + 2],
                              Body(pair[2], insn, NoEffect)), 2)
    BY DEF Superinstruction
  <1>2. frames # <<>> /\ insn.op = pair[1]
    BY <1>1 DEF Dispatch, Safe, FramesInv, StackInv
  <1>3. /\ FunctionFits(function, functions) /\ frame.pc \in Nat
        /\ frame.pc + 1 \in Starts(function)
    BY <1>2, Here
  <1>4. PICK next : next = function.code[frame.pc + 2]
    OBVIOUS
  <1>5. /\ unfused_op(insn) = pair[2]
        /\ frame.pc + 2 \in Starts(function) /\ unfused_op(next) = pair[3]
    <2>1. frame.pc + 1 + 1 = frame.pc + 2
      BY <1>3
    <2>2. QED  BY <1>2, <1>3, <1>4, <2>1, PairOf DEF insn
  <1>6. /\ pair[2] \in Worked /\ pair[2] \notin Jumps
        /\ pair[3] \in {"JumpIfFalse", "Jump", "Add"} /\ pair[3] \in Worked
    BY DEF FusedPairs, Worked, Arithmetic, Unaries, Jumps
  <1>7. PICK first : first = Body(pair[2], insn, NoEffect)
    OBVIOUS
  <1>8. EffectFits(first) /\ first.skip = 0
    BY <1>2, <1>3, <1>5, <1>6, <1>7, NoEffectFits, BodyFits DEF insn
  <1>9. CASE first.error # NoError
    <2>1. Take(first, 1)
      BY <1>1, <1>7, <1>9
    <2>2. frame.pc + (1 + first.skip) = frame.pc + 1 /\ frame.pc + (1 + first.skip) + 1 = frame.pc + 2
      BY <1>3, <1>8
    <2>3. frame.pc + 1 \in Nat
      BY <1>3
    <2>4. QED  BY <1>2, <1>5, <1>8, <2>1, <2>2, <2>3, TakeFits
  <1>10. CASE first.error = NoError
    <2>1. PICK e : e = Body(pair[3], next, first)
      OBVIOUS
    <2>2. Take(e, 2)
      BY <1>1, <1>4, <1>7, <1>10, <2>1
    <2>3. /\ EffectFits(e)
          /\ pair[3] \notin Jumps => e.skip = first.skip
          /\ pair[3] = "Jump" => e.skip = next.b
          /\ pair[3] \in Jumps => e.skip = next.b \/ e.skip = 0
      BY <1>2, <1>4, <1>5, <1>6, <1>8, <2>1, BodyFits
    <2>4. /\ next \in Word
          /\ pair[3] # "Jump" => frame.pc + 2 + 1 \in Starts(function)
          /\ pair[3] \in Jumps => frame.pc + 2 + 1 + next.b \in Starts(function)
      <3>1. next \in Word
        BY <1>3, <1>4, <1>5, OperandsOf
      <3>2. pair[3] \notin {"Return", "ReturnNil", "Closure"}
        BY <1>6
      <3>3. QED  BY <1>3, <1>4, <1>5, <3>1, <3>2, NextOf
    <2>5. next.b \in Int
      BY <2>4 DEF Word
    <2>6. \/ e.skip = 0 /\ frame.pc + 2 + 1 \in Starts(function)
          \/ e.skip = next.b /\ frame.pc + 2 + 1 + next.b \in Starts(function)
      <3>1. CASE pair[3] = "Jump"
        BY <2>3, <2>4, <3>1 DEF Jumps
      <3>2. CASE pair[3] = "JumpIfFalse"
        BY <2>3, <2>4, <3>2 DEF Jumps
      <3>3. CASE pair[3] = "Add"
        BY <1>8, <2>3, <2>4, <3>3 DEF Jumps
      <3>4. QED  BY <1>6, <3>1, <3>2, <3>3
    <2>7. frame.pc + (2 + e.skip) \in Int /\ frame.pc + (2 + e.skip) + 1 \in Starts(function)
      <3>1. CASE e.skip = 0 /\ frame.pc + 2 + 1 \in Starts(function)
        <4>1. frame.pc + (2 + e.skip) + 1 = frame.pc + 2 + 1
          BY <1>3, <3>1
        <4>2. QED  BY <1>3, <3>1, <4>1
      <3>2. CASE e.skip = next.b /\ frame.pc + 2 + 1 + next.b \in Starts(function)
        <4>1. frame.pc + (2 + e.skip) + 1 = frame.pc + 2 + 1 + next.b
          BY <1>3, <2>5, <3>2
        <4>2. QED  BY <1>3, <2>5, <3>2, <4>1
      <3>3. QED  BY <2>6, <3>1, <3>2
    <2>8. frame.pc + (2 + e.skip) \in Nat
      <3>1. frame.pc + (2 + e.skip) + 1 \in Nat \ {0}
        BY <1>3, <2>7, PositionType
      <3>2. QED  BY ONLY <2>7, <3>1
    <2>9. QED  BY <1>2, <2>2, <2>3, <2>7, <2>8, TakeFits
  <1>11. QED  BY <1>9, <1>10

\* A row of registers that are in the window.
LEMMA WindowFits ==
    ASSUME NEW first \in Int, NEW count \in Nat,
           \A j \in 0 .. count - 1 : IsValue(R(first + j), arrays, closures)
    PROVE  /\ IsSequence(Window(first, count)) /\ Len(Window(first, count)) = count
           /\ DOMAIN Window(first, count) = 1 .. count
           /\ \A i \in 1 .. count : /\ Window(first, count)[i] = R(first + i - 1)
                                    /\ IsValue(Window(first, count)[i], arrays, closures)
  <1>1. PICK row : row = Window(first, count)
    OBVIOUS
  <1>2. row = [i \in 1 .. count |-> row[i]]
    BY <1>1 DEF Window
  <1>3. IsSequence(row) /\ Len(row) = count /\ DOMAIN row = 1 .. count
    BY ONLY <1>2, RowIsSequence
  <1>4. ASSUME NEW i \in 1 .. count
        PROVE  row[i] = R(first + i - 1) /\ IsValue(row[i], arrays, closures)
    <2>1. row[i] = R(first + i - 1)
      BY <1>1 DEF Window
    <2>2. i - 1 \in 0 .. count - 1 /\ first + (i - 1) = first + i - 1
      OBVIOUS
    <2>3. QED  BY <2>1, <2>2
  <1>5. QED  BY <1>1, <1>3, <1>4

\* The registers that an array is made of hold values.
LEMMA WindowHere ==
    ASSUME Safe, frames # <<>>, unfused_op(insn) \in {"Array", "ArrayAppend"},
           NEW row, row = Window(insn.b, insn.c)
    PROVE  IsSequence(row) /\ \A i \in DOMAIN row : IsValue(row[i], arrays, closures)
  <1>1. /\ insn.b \in Int /\ insn.c \in Nat
        /\ \A j \in 0 .. insn.c - 1 : IsValue(R(insn.b + j), arrays, closures)
    BY OperandsHere DEF Word
  <1>2. QED  BY <1>1, WindowFits

\* An array made.
LEMMA ArrayFits == ASSUME Safe, Array PROVE After
  <1>1. frames # <<>> /\ unfused_op(insn) = "Array"
    BY Plain, FusedNamesAre DEF Array, FusedNames
  <1>2. PICK row : row = Window(insn.b, insn.c)
    OBVIOUS
  <1>3. IsSequence(row) /\ \A i \in DOMAIN row : IsValue(row[i], arrays, closures)
    BY <1>1, <1>2, WindowHere
  <1>4. arrays' = Append(arrays, row) /\ Set(ArrayRef(Len(arrays) + 1))
    BY <1>2 DEF Array
  <1>5. /\ ArraysFit(arrays', closures) /\ DOMAIN arrays \subseteq DOMAIN arrays'
        /\ IsValue(ArrayRef(Len(arrays) + 1), arrays', closures)
    BY <1>3, <1>4, ArrayMade DEF Safe, ValuesInv
  <1>6. QED  BY <1>1, <1>4, <1>5, SetFits

\* Values appended to an array.
LEMMA ArrayAppendFits == ASSUME Safe, ArrayAppend PROVE After
  <1>1. frames # <<>> /\ unfused_op(insn) = "ArrayAppend"
    BY Plain, FusedNamesAre DEF ArrayAppend, FusedNames
  <1>2. PICK row, id : row = Window(insn.b, insn.c) /\ id = R(insn.a)[2]
    OBVIOUS
  <1>3. IsSequence(row) /\ \A i \in DOMAIN row : IsValue(row[i], arrays, closures)
    BY <1>1, <1>2, WindowHere
  <1>4. PICK t : t = arrays[id] \o row
    OBVIOUS
  <1>5. arrays' = Put(arrays, id, t)
    BY <1>2, <1>4 DEF ArrayAppend, Put
  <1>6. ArraysFit(arrays, closures)
    BY DEF Safe, ValuesInv
  <1>7. ArraysFit(arrays', closures) /\ DOMAIN arrays' = DOMAIN arrays
    <2>1. CASE id \in DOMAIN arrays
      <3>1. /\ IsSequence(arrays[id])
            /\ \A i \in DOMAIN arrays[id] : IsValue(arrays[id][i], arrays, closures)
        BY <1>6, <2>1 DEF ArraysFit
      <3>2. IsSequence(t) /\ \A i \in DOMAIN t : IsValue(t[i], arrays, closures)
        <4>1. PICK s, arrs, clos : s = arrays[id] /\ arrs = arrays /\ clos = closures
          OBVIOUS
        <4>2. /\ IsSequence(s) /\ IsSequence(row) /\ t = s \o row
              /\ \A i \in DOMAIN s : IsValue(s[i], arrs, clos)
              /\ \A i \in DOMAIN row : IsValue(row[i], arrs, clos)
          BY <1>3, <1>4, <3>1, <4>1
        <4>3. IsSequence(t) /\ \A i \in DOMAIN t : IsValue(t[i], arrs, clos)
          BY ONLY <4>2, ConcatenatedValues
        <4>4. QED  BY <4>1, <4>3
      <3>3. /\ IsSequence(arrays') /\ DOMAIN arrays' = DOMAIN arrays /\ arrays'[id] = t
            /\ \A x \in DOMAIN arrays : x # id => arrays'[x] = arrays[x]
        BY <1>5, <1>6, <2>1, Exchanged DEF ArraysFit
      <3>4. \A v : IsValue(v, arrays, closures) => IsValue(v, arrays', closures)
        BY <3>3, StillValue
      <3>5. QED  BY <1>6, <3>2, <3>3, <3>4 DEF ArraysFit
    <2>2. CASE id \notin DOMAIN arrays
      <3>1. arrays' = arrays
        <4>1. arrays = [x \in 1 .. Len(arrays) |-> arrays[x]] /\ DOMAIN arrays = 1 .. Len(arrays)
          BY <1>6, SequenceIsRow DEF ArraysFit
        <4>2. QED  BY <1>5, <2>2, <4>1 DEF Put
      <3>2. QED  BY <1>6, <3>1
    <2>3. QED  BY <2>1, <2>2
  <1>8. RegistersFit(registers', arrays', closures)
    <2>1. registers' = registers /\ RegistersFit(registers, arrays, closures)
      BY DEF ArrayAppend, Safe, ValuesInv
    <2>2. DOMAIN arrays \subseteq DOMAIN arrays'
      BY <1>7
    <2>3. RegistersFit(registers, arrays', closures)
      BY ONLY <2>1, <2>2, ArraysGrow
    <2>4. QED  BY <2>1, <2>3
  <1>9. FramesFit(frames', closures)
    BY <1>1, NextFits DEF ArrayAppend
  <1>10. QED  BY <1>7, <1>8, <1>9, WorkFits DEF ArrayAppend

\* A value printed.
LEMMA PrintFits == ASSUME Safe, PrintValue PROVE After
  <1>1. frames # <<>> /\ unfused_op(insn) = "Print"
    BY Plain, FusedNamesAre DEF PrintValue, FusedNames
  <1>2. FramesFit(frames', closures)
    BY <1>1, NextFits DEF PrintValue
  <1>3. QED  BY <1>2, WorkFits DEF PrintValue, Safe, ValuesInv

\* The open upvalues above a register closed.
LEMMA CloseFits == ASSUME Safe, Close PROVE After
  <1>1. frames # <<>> /\ unfused_op(insn) = "Close"
    BY Plain, FusedNamesAre DEF Close, FusedNames
  <1>2. frame.base + insn.a \in Nat
    BY <1>1, OperandsHere, RegisterSlotsAssumption DEF Slot
  <1>3. FramesFit(frames', closures)
    BY <1>1, NextFits DEF Close
  <1>4. /\ functions' = functions /\ globals' = globals /\ closures' = closures
        /\ arrays' = arrays /\ registers' = registers
        /\ close_upvalues(frame.base + insn.a, registers)
    BY DEF Close, program_vars
  <1>5. /\ UpvaluesFit(upvalues', open_upvalues', arrays, closures)
        /\ DOMAIN upvalues' = DOMAIN upvalues
    BY <1>2, <1>4, ClosingFits DEF Safe, ValuesInv
  <1>6. ClosuresFit(closures, upvalues')
    BY <1>5, ClosuresKept DEF Safe, ValuesInv
  <1>7. QED  BY <1>3, <1>4, <1>5, <1>6 DEF After, ValuesAfter, Safe, ValuesInv

\* Both forms of return.
LEMMA ReturnsFit == ASSUME Safe, Return \/ ReturnNil PROVE After
  <1>1. CASE Return
    <2>1. frames # <<>> /\ unfused_op(insn) = "Return"
      BY <1>1, Plain, FusedNamesAre DEF Return, FusedNames
    <2>2. IsValue(RK(insn.b_const, insn.b, registers), arrays, closures)
      BY <2>1, OperandsHere
    <2>3. QED  BY <1>1, <2>1, <2>2, ReturnFits DEF Return
  <1>2. CASE ReturnNil
    <2>1. frames # <<>>
      BY <1>2, Plain, FusedNamesAre DEF ReturnNil, FusedNames
    <2>2. IsValue(Nil, arrays, closures)
      BY Scalars, ScalarIsValue
    <2>3. QED  BY <1>2, <2>1, <2>2, ReturnFits DEF ReturnNil
  <1>3. QED  BY <1>1, <1>2

\* An upvalue read.
LEMMA GetUpvalueFits == ASSUME Safe, GetUpvalue PROVE After
  <1>1. frames # <<>> /\ unfused_op(insn) = "GetUpvalue"
    BY Plain, FusedNamesAre DEF GetUpvalue, Load, FusedNames
  <1>2. IsValue(UpvalueContents(closure.upvalues[insn.b + 1]), arrays, closures)
    BY <1>1, UpvaluesHere
  <1>3. QED  BY <1>2, LoadFits DEF GetUpvalue, FusedNames

\* The callee and the arguments of a call.
LEMMA CallHere ==
    ASSUME Safe, NEW rest, Dispatch("Call") /\ rest
    PROVE  /\ frames # <<>> /\ unfused_op(insn) = "Call" /\ insn \in Word
           /\ IsValue(callee_value, arrays, closures)
           /\ frame.base + insn.a \in Slot
           /\ \A j \in 0 .. insn.b : /\ frame.base + (insn.a + j) \in Slot
                                     /\ IsValue(R(insn.a + j), arrays, closures)
  <1>1. frames # <<>> /\ unfused_op(insn) = "Call"
    BY Plain, FusedNamesAre DEF FusedNames
  <1>2. /\ insn \in Word /\ frame.base + insn.a \in Slot /\ IsValue(R(insn.a), arrays, closures)
        /\ \A j \in 0 .. insn.b : IsValue(R(insn.a + j), arrays, closures)
    BY <1>1, OperandsHere
  <1>3. /\ frame.pc + 1 \in Starts(function) /\ RegistersFit(registers, arrays, closures)
        /\ insn = function.code[frame.pc + 1]
    BY <1>1, Here DEF Safe, ValuesInv, insn
  <1>4. \A j \in 0 .. insn.b : frame.base + (insn.a + j) \in Slot
    BY <1>1, <1>3, Operands
  <1>5. QED  BY <1>1, <1>2, <1>4 DEF callee_value

\* The length of a string or an array is a value: this is where lengths matter.
LEMMA NativeLength ==
    ASSUME Safe, LengthsFit, NEW s \in Slot, NEW x, x = registers[s]
    PROVE  IsScalar(native_len(x, arrays).value)
  <1>1. IsValue(x, arrays, closures) /\ ArraysFit(arrays, closures)
    BY DEF Safe, ValuesInv, RegistersFit
  <1>2. Is("array", x) => Len(arrays[x[2]]) \in Nat
    BY <1>1, Contents, SequenceIsRow DEF ArraysFit
  <1>3. Is("str", x) => Len(x[2]) \in Nat
    BY DEF LengthsFit
  <1>4. \A n \in Nat : IsScalar(make_int(Wrap(n)))
    BY WrappedScalar
  <1>5. QED  BY <1>2, <1>3, <1>4, Scalars DEF native_len, Ok, Error

\* A call of a native function.
LEMMA NativeFits == ASSUME Safe, LengthsFit, CallNativeFunction PROVE After
  <1>1. /\ frames # <<>> /\ unfused_op(insn) = "Call" /\ insn \in Word
        /\ IsValue(callee_value, arrays, closures)
        /\ \A j \in 0 .. insn.b : /\ frame.base + (insn.a + j) \in Slot
                                  /\ IsValue(R(insn.a + j), arrays, closures)
    BY CallHere DEF CallNativeFunction
  <1>2. PICK args, name, n : args = Window(insn.a + 1, insn.b) /\ name = callee_value[2] /\ n = insn.b
    OBVIOUS
  <1>3. Is("native", callee_value) /\ call_error = NoError
    BY DEF CallNativeFunction
  <1>4. name \in {"len", "array"} /\ (name = "len" => n = 1) /\ (name = "array" => n = 2)
    <2>1. name \in DOMAIN Natives
      BY <1>1, <1>2, <1>3, Contents
    <2>2. Natives[name] = n
      BY <1>2, <1>3 DEF call_error, CallError, arity_error, NoError
    <2>3. QED  BY <2>1, <2>2 DEF Natives
  <1>5. insn.a \in Nat /\ n \in Nat /\ n >= 1
    BY <1>1, <1>2, <1>4 DEF Word
  <1>6. \A j \in 0 .. n - 1 : IsValue(R(insn.a + 1 + j), arrays, closures)
    <2>1. ASSUME NEW j \in 0 .. n - 1 PROVE IsValue(R(insn.a + 1 + j), arrays, closures)
      <3>1. j + 1 \in 0 .. insn.b /\ insn.a + (j + 1) = insn.a + 1 + j
        BY <1>2, <1>5
      <3>2. IsValue(R(insn.a + (j + 1)), arrays, closures)
        BY <1>1, <3>1
      <3>3. QED  BY <3>1, <3>2
    <2>2. QED  BY <2>1
  <1>7. \A i \in 1 .. n : args[i] = R(insn.a + 1 + i - 1) /\ IsValue(args[i], arrays, closures)
    <2>1. PICK first \in Int : first = insn.a + 1
      BY <1>5
    <2>2. \A j \in 0 .. n - 1 : IsValue(R(first + j), arrays, closures)
      BY <1>6, <2>1
    <2>3. \A i \in 1 .. n : /\ Window(first, n)[i] = R(first + i - 1)
                            /\ IsValue(Window(first, n)[i], arrays, closures)
      BY <1>5, <2>2, WindowFits
    <2>4. QED  BY <1>2, <2>1, <2>3
  <1>8. args[1] = registers[frame.base + (insn.a + 1)] /\ frame.base + (insn.a + 1) \in Slot
    <2>1. insn.a + 1 + 1 - 1 = insn.a + 1 /\ 1 \in 1 .. n /\ 1 \in 0 .. insn.b
      BY <1>2, <1>5
    <2>2. QED  BY <1>1, <1>7, <2>1 DEF R
  <1>9. PICK called : called = CallNative(name, args, arrays)
    OBVIOUS
  <1>10. IF called.result.error # NoError THEN FAIL(called.result.error)
         ELSE arrays' = called.arrays /\ Set(called.result.value)
    BY <1>2, <1>9 DEF CallNativeFunction
  <1>11. ArraysFit(arrays, closures)
    BY DEF Safe, ValuesInv
  <1>12. CASE called.result.error # NoError
    BY <1>10, <1>12, FailFits
  <1>13. CASE called.result.error = NoError
    <2>1. arrays' = called.arrays /\ Set(called.result.value)
      BY <1>10, <1>13
    <2>2. /\ ArraysFit(arrays', closures) /\ DOMAIN arrays \subseteq DOMAIN arrays'
          /\ IsValue(called.result.value, arrays', closures)
      <3>1. CASE name = "len"
        <4>1. called.result = native_len(args[1], arrays) /\ called.arrays = arrays
          BY <1>9, <3>1 DEF CallNative
        <4>2. IsScalar(called.result.value)
          BY <1>8, <4>1, NativeLength
        <4>3. QED  BY <1>11, <2>1, <4>1, <4>2, ScalarIsValue
      <3>2. CASE name = "array"
        <4>0. \/ ~(Is("int", args[1]) /\ args[1][2] >= 0) /\ \E m : called.result = Error(<<m>>)
              \/ /\ Is("int", args[1]) /\ args[1][2] >= 0
                 /\ called.result = Ok(ArrayRef(Len(arrays) + 1))
                 /\ called.arrays = Append(arrays, Filled(args[1][2], args[2]))
          BY <1>9, <3>2, Zenon DEF CallNative
        <4>1. Is("int", args[1]) /\ args[1][2] >= 0
          <5>1. \A m : Error(<<m>>).error # NoError
            BY DEF Error, NoError
          <5>2. QED  BY <1>13, <4>0, <5>1
        <4>2. PICK row : row = Filled(args[1][2], args[2])
          OBVIOUS
        <4>3. /\ called.result.value = ArrayRef(Len(arrays) + 1)
              /\ called.arrays = Append(arrays, row)
          BY <4>0, <4>1, <4>2 DEF Ok
        <4>4. IsValue(args[1], arrays, closures) /\ IsValue(args[2], arrays, closures)
          BY <1>4, <1>7, <3>2
        <4>5. args[1][2] \in Nat
          BY <4>1, <4>4, Contents, IntIsInt
        <4>6. IsSequence(row) /\ \A i \in DOMAIN row : IsValue(row[i], arrays, closures)
          BY <4>2, <4>4, <4>5, FilledFits
        <4>7. QED  BY <1>11, <2>1, <4>3, <4>6, ArrayMade
      <3>3. QED  BY <1>4, <3>1, <3>2
    <2>3. QED  BY <1>1, <2>1, <2>2, SetFits
  <1>14. QED  BY <1>12, <1>13

\* A frame more, with its window in the register file.
LEMMA PushFits ==
    ASSUME Safe, frames # <<>>, NEW pc \in Nat, pc + 1 \in Starts(function),
           NEW callee, callee[2] \in DOMAIN closures,
           NEW base \in Nat \ {0}, base + CodeOf(callee).frame_size <= RegisterSlots,
           frames' = Pushed(WithPc(pc), NewFrame(callee, base))
    PROVE  FramesFit(frames', closures)
  <1> DEFINE m == Len(frames)
  <1>1. /\ IsSequence(frames') /\ frames' # <<>> /\ m \in Nat \ {0} /\ Len(frames') = m + 1
        /\ DOMAIN frames = 1 .. m /\ DOMAIN frames' = 1 .. m + 1
        /\ frames'[m + 1] = [closure |-> callee[2], pc |-> 0, base |-> base]
        /\ frames'[m] = [frames[m] EXCEPT !.pc = pc]
        /\ frames'[m].pc = pc
        /\ \A i \in 1 .. m - 1 : frames'[i] = frames[i]
    <2>1. StackInv
      BY DEF Safe, FramesInv
    <2>2. /\ IsSequence(frames') /\ frames' # <<>> /\ m \in Nat \ {0}
          /\ Len(frames') = m + 1
          /\ DOMAIN frames = 1 .. m /\ DOMAIN frames' = 1 .. m + 1
          /\ frames'[Len(frames')] = [closure |-> callee[2], pc |-> 0, base |-> base]
          /\ frames'[m] = [frames[m] EXCEPT !.pc = pc]
          /\ frames'[m].pc = pc
          /\ \A i \in 1 .. m - 1 : frames'[i] = frames[i]
          /\ \A i \in DOMAIN frames' : IsFrame(frames'[i])
      BY <2>1, FramePushed
    <2>3. QED  BY <2>2
  <1>2. /\ frame = frames[m] /\ IsFrame(frame) /\ FrameFits(frame, closures)
        /\ FramesFit(frames, closures)
    BY Here DEF Safe, PlacesInv
  <1>3. frames'[m].closure = frame.closure /\ frames'[m].base = frame.base
    BY ONLY <1>1, <1>2 DEF IsFrame
  <1>4. FrameFits(frames'[m], closures)
    BY <1>1, <1>2, <1>3 DEF FrameFits, function, closure
  <1>5. FrameFits(frames'[m + 1], closures)
    <2>1. closures[callee[2]].function \in DOMAIN functions
      BY DEF Safe, ValuesInv, ClosuresFit, ClosureFits
    <2>2. 1 \in Starts(CodeOf(callee))
      BY <2>1 DEF CodeOf, Safe, WellFormed, FunctionFits
    <2>3. 0 \in Nat /\ 0 + 1 = 1
      OBVIOUS
    <2>4. QED  BY <1>1, <2>2, <2>3 DEF FrameFits, CodeOf
  <1>6. ASSUME NEW i \in 1 .. m + 1 PROVE FrameFits(frames'[i], closures)
    <2>1. CASE i \in 1 .. m - 1
      BY <1>1, <1>2, <2>1 DEF FramesFit
    <2>2. i \in 1 .. m - 1 \/ i = m \/ i = m + 1
      BY <1>1
    <2>3. QED  BY <1>4, <1>5, <2>1, <2>2
  <1>7. QED  BY <1>1, <1>6 DEF FramesFit

\* The registers moved for a call leave values behind.
LEMMA SlideFits ==
    ASSUME NEW regs, NEW arrs, NEW clos, RegistersFit(regs, arrs, clos), NEW callee, NEW base
    PROVE  RegistersFit(Slide(callee, base, regs), arrs, clos)
  <1>1. IsValue(Nil, arrs, clos)
    BY Scalars, ScalarIsValue
  <1>2. QED  BY <1>1 DEF RegistersFit, Slide

\* A call of a function: a new frame, with a window that fits the register file.
LEMMA CallClosureFits == ASSUME Safe, CallClosure PROVE After
  <1>1. /\ frames # <<>> /\ unfused_op(insn) = "Call" /\ insn \in Word
        /\ IsValue(callee_value, arrays, closures) /\ frame.base + insn.a \in Slot
    BY CallHere DEF CallClosure
  <1>2. /\ FunctionFits(function, functions) /\ frame.pc \in Nat
        /\ frame.pc + 1 \in Starts(function) /\ frame.base \in Nat \ {0}
        /\ frame = frames[Len(frames)]
    BY <1>1, Here
  <1>3. PICK pc \in Nat : pc = frame.pc + 1
    BY <1>2
  <1>4. pc + 1 \in Starts(function)
    BY <1>1, <1>2, <1>3, NextOf DEF insn
  <1>5. callee_value[2] \in DOMAIN closures
    BY <1>1, Contents DEF CallClosure
  <1>6. callee_base \in Nat \ {0}
    BY <1>1, <1>2 DEF callee_base, Word
  <1>7. callee_base + CodeOf(callee_value).frame_size <= RegisterSlots
    <2>1. ~(CodeOf(callee_value).frame_size > RegisterSlots - callee_base)
      BY DEF CallClosure, call_error, CallError, Is, NoError, StackOverflow, arity_error
    <2>2. closures[callee_value[2]].function \in DOMAIN functions
      BY <1>5 DEF Safe, ValuesInv, ClosuresFit, ClosureFits
    <2>3. CodeOf(callee_value).frame_size \in Nat
      BY <2>2 DEF CodeOf, Safe, WellFormed, FunctionFits
    <2>4. QED  BY <1>6, <2>1, <2>3, RegisterSlotsAssumption
  <1>8. frames' = Pushed(WithPc(pc), NewFrame(callee_value, callee_base))
    BY <1>2, <1>3 DEF CallClosure, Pushed, WithPc
  <1>9. FramesFit(frames', closures)
    BY <1>1, <1>4, <1>5, <1>6, <1>7, <1>8, PushFits
  <1>10. RegistersFit(registers', arrays, closures)
    BY SlideFits DEF CallClosure, Safe, ValuesInv
  <1>11. QED  BY <1>9, <1>10, WorkFits DEF CallClosure, Safe, ValuesInv

-----------------------------------------------------------------------------
(* What a closure captures.                                                *)

\* The upvalues, the open list and those captured, word after word.
IsCapturing(after, words, n) ==
    after = [k \in 0 .. n |-> IF k = 0 THEN NothingCaptured ELSE capture(words[k], after[k - 1])]

\* What was captured after each of the words.
Capturing(words) ==
    CHOOSE after : after = [k \in 0 .. Len(words) |->
                               IF k = 0 THEN NothingCaptured ELSE capture(words[k], after[k - 1])]

\* What a Closure instruction captured is what it has after its last word.
LEMMA CapturedIs == ASSUME NEW words PROVE Captured(words) = Capturing(words)[Len(words)]
  BY DEF Captured, Capturing

\* There is a function that says what was captured after each word. The words are
\* finitely many, so it is found by counting up to their number.
LEMMA CapturingExists ==
    ASSUME NEW words, NEW N \in Nat PROVE \E after : IsCapturing(after, words, N)
  <1> DEFINE T == {n \in 0 .. N : \E after : IsCapturing(after, words, n)}
  <1>1. 0 \in T
    <2>1. PICK after : after = [k \in 0 .. 0 |-> NothingCaptured]
      OBVIOUS
    <2>2. IsCapturing(after, words, 0)
      BY <2>1 DEF IsCapturing
    <2>3. QED  BY <2>2
  <1>2. ASSUME NEW n \in 0 .. N - 1, n \in T PROVE n + 1 \in T
    <2>1. PICK before : IsCapturing(before, words, n)
      BY <1>2
    <2>2. PICK after : after = [k \in 0 .. n + 1 |-> IF k = n + 1 THEN capture(words[n + 1], before[n])
                                                     ELSE before[k]]
      OBVIOUS
    <2>3. \A k \in 0 .. n : after[k] = before[k]
      BY <2>2
    <2>4. ASSUME NEW k \in 0 .. n + 1
          PROVE  after[k] = IF k = 0 THEN NothingCaptured ELSE capture(words[k], after[k - 1])
      <3>1. CASE k = n + 1
        <4>1. k # 0 /\ k - 1 = n /\ n \in 0 .. n
          BY <3>1
        <4>2. after[k] = capture(words[k], before[n])
          BY <2>2, <3>1
        <4>3. QED  BY <2>3, <4>1, <4>2
      <3>2. CASE k # n + 1 /\ k # 0
        <4>1. k \in 0 .. n /\ k - 1 \in 0 .. n
          BY <3>2
        <4>2. before[k] = capture(words[k], before[k - 1])
          BY <2>1, <3>2, <4>1 DEF IsCapturing
        <4>3. QED  BY <2>3, <3>2, <4>1, <4>2
      <3>3. CASE k = 0
        <4>1. before[0] = NothingCaptured
          BY <2>1 DEF IsCapturing
        <4>2. QED  BY <2>3, <3>3, <4>1
      <3>4. QED  BY <3>1, <3>2, <3>3
    <2>5. IsCapturing(after, words, n + 1)
      <3>1. after = [k \in 0 .. n + 1 |-> after[k]]
        BY <2>2
      <3>2. QED  BY <2>4, <3>1 DEF IsCapturing
    <2>6. QED  BY <2>5
  <1>3. N \in T
    <2> HIDE DEF T
    <2>1. \A n \in 0 .. N : n \in T
      BY ONLY <1>1, <1>2, N \in Nat, CountUp
    <2>2. QED  BY <2>1
  <1>4. QED  BY <1>3

\* So it is what the definition of capturing says.
LEMMA CapturingSteps ==
    ASSUME NEW words, Len(words) \in Nat PROVE IsCapturing(Capturing(words), words, Len(words))
  <1>1. PICK after : IsCapturing(after, words, Len(words))
    BY CapturingExists
  <1>2. QED  BY <1>1 DEF IsCapturing, Capturing

\* After n words: as many upvalues, each of them known, in lists that fit.
CapturedFit(s, n) ==
    /\ s = CaptureState(s.upvalues, s.open, s.captured)
    /\ UpvaluesFit(s.upvalues, s.open, arrays, closures)
    /\ DOMAIN upvalues \subseteq DOMAIN s.upvalues
    /\ IsSequence(s.captured) /\ Len(s.captured) = n
    /\ \A i \in DOMAIN s.captured : s.captured[i] \in DOMAIN s.upvalues

\* One captured more, of the upvalues there are.
LEMMA OneMore ==
    ASSUME NEW n, NEW s, CapturedFit(s, n), NEW x \in DOMAIN s.upvalues,
           NEW t, t = CaptureState(s.upvalues, s.open, Pushed(s.captured, x))
    PROVE  CapturedFit(t, n + 1)
  <1>1. PICK all : all = Pushed(s.captured, x)
    OBVIOUS
  <1>2. IsSequence(s.captured)
    BY DEF CapturedFit
  <1>3. /\ IsSequence(all) /\ Len(all) = Len(s.captured) + 1 /\ Len(s.captured) \in Nat
        /\ DOMAIN s.captured = 1 .. Len(s.captured) /\ DOMAIN all = 1 .. Len(s.captured) + 1
        /\ all[Len(all)] = x
        /\ \A i \in 1 .. Len(s.captured) : all[i] = s.captured[i]
    BY ONLY <1>1, <1>2, Appended
  <1>4. /\ t.upvalues = s.upvalues /\ t.open = s.open /\ t.captured = all
        /\ t = CaptureState(t.upvalues, t.open, t.captured)
    BY <1>1 DEF CaptureState
  <1>5. \A i \in DOMAIN all : all[i] \in DOMAIN s.upvalues
    <2>1. ASSUME NEW i \in 1 .. Len(s.captured) + 1 PROVE all[i] \in DOMAIN s.upvalues
      <3>1. CASE i = Len(s.captured) + 1
        BY <1>3, <3>1
      <3>2. CASE i # Len(s.captured) + 1
        <4>1. i \in 1 .. Len(s.captured)
          BY <1>3, <3>2
        <4>2. QED  BY <1>3, <4>1 DEF CapturedFit
      <3>3. QED  BY <3>1, <3>2
    <2>2. QED  BY <1>3, <2>1
  <1>6. QED  BY <1>3, <1>4, <1>5 DEF CapturedFit

\* A register is captured by the upvalue that is open on it, or by a new one.
LEMMA RegisterCaptured ==
    ASSUME NEW n, NEW s, CapturedFit(s, n), NEW slot \in Slot,
           NEW t, t = capture_upvalue(slot, s)
    PROVE  CapturedFit(t, n + 1)
  <1>1. PICK above, m : above = Walked(s.open, s.upvalues, slot + 1) /\ m = Len(s.open)
    OBVIOUS
  <1>2. /\ UpvaluesFit(s.upvalues, s.open, arrays, closures)
        /\ IsSequence(s.open) /\ IsSequence(s.upvalues)
    BY DEF CapturedFit, UpvaluesFit
  <1>3. m \in Nat /\ above \in 0 .. m /\ DOMAIN s.open = 1 .. m
    BY <1>1, <1>2, WalkEnds, SequenceIsRow
  <1>4. CASE above + 1 <= m /\ s.upvalues[s.open[above + 1]].location = slot
    <2>1. above + 1 \in DOMAIN s.open
      BY <1>3, <1>4
    <2>2. s.open[above + 1] \in DOMAIN s.upvalues
      BY <1>2, <2>1 DEF UpvaluesFit
    <2>3. t = CaptureState(s.upvalues, s.open, Pushed(s.captured, s.open[above + 1]))
      BY <1>1, <1>4 DEF capture_upvalue, CapturedFit, CaptureState, Pushed
    <2>4. QED  BY <2>2, <2>3, OneMore
  <1>5. CASE ~(above + 1 <= m /\ s.upvalues[s.open[above + 1]].location = slot)
    <2>1. PICK u, created : u = [location |-> slot, closed |-> Nil] /\ created = Len(s.upvalues) + 1
      OBVIOUS
    <2>2. PICK ups, open : ups = Pushed(s.upvalues, u) /\ open = Inserted(s.open, above, created)
      OBVIOUS
    <2>3. t = CaptureState(ups, open, Pushed(s.captured, created))
      <3>1. InsertAt(s.open, above + 1, created) = open
        <4>1. PICK k : k = above + 1
          OBVIOUS
        <4>2. k - 1 = above /\ k = above + 1
          BY ONLY <1>3, <4>1
        <4>3. QED  BY ONLY <2>2, <4>2, InsertedAfter
      <3>2. QED  BY <1>1, <1>5, <2>1, <2>2, <3>1 DEF capture_upvalue, CaptureState, Pushed
    <2>4. /\ IsSequence(ups) /\ DOMAIN s.upvalues = 1 .. Len(s.upvalues)
          /\ DOMAIN ups = 1 .. Len(s.upvalues) + 1 /\ Len(s.upvalues) \in Nat
          /\ Len(ups) = Len(s.upvalues) + 1 /\ ups[Len(ups)] = u
          /\ \A i \in 1 .. Len(s.upvalues) : ups[i] = s.upvalues[i]
      BY ONLY <1>2, <2>2, Appended
    <2>5. created \in DOMAIN ups /\ DOMAIN s.upvalues \subseteq DOMAIN ups
      BY <2>1, <2>4
    <2>6. UpvalueFits(u, arrays, closures)
      <3>1. IsValue(Nil, arrays, closures)
        BY Scalars, ScalarIsValue
      <3>2. QED  BY <2>1, <3>1 DEF UpvalueFits
    <2>7. ASSUME NEW i \in DOMAIN ups PROVE UpvalueFits(ups[i], arrays, closures)
      <3>1. CASE i = Len(s.upvalues) + 1
        BY <2>4, <2>6, <3>1
      <3>2. CASE i # Len(s.upvalues) + 1
        <4>1. i \in 1 .. Len(s.upvalues)
          BY <2>4, <3>2
        <4>2. QED  BY <1>2, <2>4, <4>1 DEF UpvaluesFit
      <3>3. QED  BY <3>1, <3>2
    <2>8. IsSequence(open) /\ \A i \in DOMAIN open : open[i] \in DOMAIN ups
      <3>1. PICK S, list : S = DOMAIN ups /\ list = s.open
        OBVIOUS
      <3>2. list \in Seq(S)
        <4>1. \A i \in 1 .. m : list[i] \in S
          BY <1>2, <1>3, <2>5, <3>1 DEF UpvaluesFit
        <4>2. list = [i \in 1 .. m |-> list[i]]
          <5>1. IsSequence(list) /\ m = Len(list)
            BY <1>1, <1>2, <3>1
          <5>2. QED  BY ONLY <5>1, SequenceIsRow
        <4>3. list \in [1 .. m -> S]
          BY ONLY <4>1, <4>2
        <4>4. QED  BY ONLY <1>3, <4>3, FunctionIsSeq
      <3>3. created \in S /\ m = Len(list) /\ open = Inserted(list, above, created)
        BY <1>1, <2>2, <2>5, <3>1
      <3>4. open \in Seq(S)
        BY ONLY <1>3, <3>2, <3>3, InsertedAt
      <3>5. QED  BY ONLY <3>1, <3>4, ElementsOf
    <2>9. PICK w : w = CaptureState(ups, open, s.captured)
      OBVIOUS
    <2>10. CapturedFit(w, n)
      <3>1. /\ w.upvalues = ups /\ w.open = open /\ w.captured = s.captured
            /\ w = CaptureState(w.upvalues, w.open, w.captured)
        BY <2>9 DEF CaptureState
      <3>2. QED  BY <2>4, <2>5, <2>7, <2>8, <3>1 DEF CapturedFit, UpvaluesFit
    <2>11. /\ created \in DOMAIN w.upvalues
           /\ t = CaptureState(w.upvalues, w.open, Pushed(w.captured, created))
      BY <2>3, <2>5, <2>9 DEF CaptureState
    <2>12. QED  BY <2>10, <2>11, OneMore
  <1>6. QED  BY <1>4, <1>5

\* One word captures: a register of this frame, or an upvalue of this function.
LEMMA WordCaptured ==
    ASSUME Safe, frames # <<>>, NEW w, CaptureFits(function, w),
           NEW n, NEW s, CapturedFit(s, n), NEW t, t = capture(w, s)
    PROVE  CapturedFit(t, n + 1)
  <1>1. /\ ClosureFits(closure, upvalues)
        /\ \A index \in Windows(function) : frame.base + index \in Slot
    BY Here
  <1>2. CASE w.a = 1
    <2>1. frame.base + w.b \in Slot
      BY <1>1, <1>2 DEF CaptureFits
    <2>2. t = capture_upvalue(frame.base + w.b, s)
      BY <1>2 DEF capture
    <2>3. QED  BY <2>1, <2>2, RegisterCaptured
  <1>3. CASE w.a # 1
    <2>1. PICK x : x = closure.upvalues[w.b + 1]
      OBVIOUS
    <2>2. w.b + 1 \in DOMAIN function.upvalues
      BY <1>3 DEF CaptureFits, HasUpvalue
    <2>3. x \in DOMAIN upvalues
      BY <1>1, <2>1, <2>2 DEF ClosureFits, function
    <2>4. x \in DOMAIN s.upvalues
      BY <2>3 DEF CapturedFit
    <2>5. t = CaptureState(s.upvalues, s.open, Pushed(s.captured, x))
      BY <1>3, <2>1 DEF capture, CapturedFit, CaptureState, Pushed
    <2>6. QED  BY <2>4, <2>5, OneMore
  <1>4. QED  BY <1>2, <1>3

\* After all its words a Closure instruction has one upvalue for each.
LEMMA WordsCaptured ==
    ASSUME Safe, frames # <<>>, NEW words, NEW N \in Nat, N = Len(words),
           \A i \in 1 .. N : CaptureFits(function, words[i])
    PROVE  CapturedFit(Captured(words), N)
  <1>1. PICK after : after = Capturing(words) /\ IsCapturing(after, words, N)
    BY CapturingSteps
  <1>2. PICK T : T = {n \in 0 .. N : CapturedFit(after[n], n)}
    OBVIOUS
  <1>3. \A k \in 0 .. N : after[k] = IF k = 0 THEN NothingCaptured
                                     ELSE capture(words[k], after[k - 1])
    BY <1>1 DEF IsCapturing
  <1>4. 0 \in T
    <2>1. after[0] = NothingCaptured
      BY <1>3
    <2>2. CapturedFit(NothingCaptured, 0)
      <3>1. UpvaluesFit(upvalues, open_upvalues, arrays, closures)
        BY DEF Safe, ValuesInv
      <3>2. QED  BY <3>1, Empty DEF CapturedFit, CaptureState, NothingCaptured
    <2>3. QED  BY <1>2, <2>1, <2>2
  <1>5. ASSUME NEW n \in 0 .. N - 1, n \in T PROVE n + 1 \in T
    <2>1. n + 1 \in 1 .. N /\ n + 1 \in 0 .. N /\ n + 1 # 0 /\ n + 1 - 1 = n
      OBVIOUS
    <2>2. PICK k : k = n + 1
      OBVIOUS
    <2>3. k \in 1 .. N /\ k \in 0 .. N /\ k # 0 /\ k - 1 = n
      BY ONLY <2>2, n \in 0 .. N - 1, N \in Nat
    <2>4. after[k] = capture(words[k], after[n])
      BY <1>3, <2>3
    <2>5. CapturedFit(after[n], n) /\ CaptureFits(function, words[k])
      BY <1>2, <1>5, <2>3
    <2>6. CapturedFit(after[k], n + 1)
      BY <2>4, <2>5, WordCaptured
    <2>7. QED  BY <1>2, <2>2, <2>3, <2>6
  <1>6. \A n \in 0 .. N : n \in T
    BY ONLY <1>4, <1>5, N \in Nat, CountUp
  <1>7. CapturedFit(after[N], N)
    BY <1>2, <1>6
  <1>8. QED  BY <1>1, <1>7, CapturedIs

\* The words that follow a Closure, and the function it makes a closure of.
LEMMA WordsHere ==
    ASSUME Safe, frames # <<>>, unfused_op(insn) = "Closure",
           NEW made, made = K(insn.b)[2],
           NEW words, words = SubSeq(function.code, frame.pc + 2,
                                     frame.pc + 1 + Len(functions[made].upvalues))
    PROVE  /\ made \in DOMAIN functions /\ Is("code", K(insn.b))
           /\ insn.b + 1 \in DOMAIN function.constants
           /\ Len(functions[made].upvalues) \in Nat
           /\ DOMAIN functions[made].upvalues = 1 .. Len(functions[made].upvalues)
           /\ Len(words) = Len(functions[made].upvalues)
           /\ \A i \in 1 .. Len(words) : CaptureFits(function, words[i])
           /\ frame.pc + (1 + Len(words)) + 1 \in Starts(function)
  <1>1. /\ FunctionFits(function, functions) /\ frame.pc \in Nat
        /\ frame.pc + 1 \in Starts(function)
    BY Here
  <1>2. PICK k, n : k = frame.pc + 1 /\ n = Len(functions[made].upvalues)
    OBVIOUS
  <1>3. k \in Starts(function) /\ k \in Nat \ {0} /\ insn = function.code[k]
    <2>1. insn = function.code[frame.pc + 1]
      BY Zenon DEF insn
    <2>2. k \in Nat \ {0}
      BY ONLY <1>1, <1>2
    <2>3. QED  BY ONLY <1>1, <1>2, <2>1, <2>2
  <1>4. /\ HasCode(function, insn.b, functions)
        /\ \A j \in Captures(function, k, functions) : /\ j \in DOMAIN function.code
                                                       /\ CaptureFits(function, function.code[j])
    BY <1>1, <1>3, OperandsOf
  <1>5. made \in DOMAIN functions /\ Is("code", K(insn.b)) /\ insn.b + 1 \in DOMAIN function.constants
    BY <1>4 DEF HasCode, HasConstant, K
  <1>6. n \in Nat /\ DOMAIN functions[made].upvalues = 1 .. n
    <2>1. IsSequence(functions[made].upvalues)
      BY <1>5 DEF Safe, WellFormed, FunctionFits, IsSequence
    <2>2. QED  BY <1>2, <2>1, SequenceIsRow
  <1>7. Captures(function, k, functions) = k + 1 .. k + n
    <2>1. function.constants[function.code[k].b + 1][2] = made
      BY ONLY <1>3, made = K(insn.b)[2] DEF K
    <2>2. QED  BY ONLY <1>2, <2>1 DEF Captures
  <1>8. Cardinality(k + 1 .. k + n) = n
    <2>1. PICK lo \in Int, hi \in Int : lo = k + 1 /\ hi = k + n
      BY ONLY <1>3, <1>6
    <2>2. Cardinality(lo .. hi) = IF lo > hi THEN 0 ELSE hi - lo + 1
      BY ONLY lo \in Int, hi \in Int, FS_Interval
    <2>3. QED  BY ONLY <1>3, <1>6, <2>1, <2>2
  <1>9. PICK code, len : code = function.code /\ len = Len(function.code)
    OBVIOUS
  <1>10. code \in Seq(Range(code)) /\ len \in Nat /\ len = Len(code) /\ DOMAIN code = 1 .. len
    <2>1. IsSequence(code)
      BY <1>1, <1>9 DEF FunctionFits, IsSequence
    <2>2. QED  BY <1>9, <2>1, SequenceIsRow DEF IsSequence
  <1>11. n # 0 => k + n <= len
    <2>1. n # 0 => k + n \in k + 1 .. k + n
      BY ONLY <1>3, <1>6
    <2>2. n # 0 => k + n \in 1 .. len
      BY <1>4, <1>7, <1>9, <1>10, <2>1
    <2>3. QED  BY <1>10, <2>2
  <1>12. Len(words) = n /\ \A i \in 1 .. n : words[i] = code[k + 1 + i - 1]
    <2>1. PICK lo, hi : lo = k + 1 /\ hi = k + n
      OBVIOUS
    <2>2. lo \in Nat \ {0} /\ hi \in Int /\ n = hi - lo + 1 /\ (n # 0 => hi <= Len(code))
      BY ONLY <1>3, <1>6, <1>10, <1>11, <2>1
    <2>3. words = SubSeq(code, lo, hi)
      <3>1. frame.pc + 2 = lo /\ frame.pc + 1 + Len(functions[made].upvalues) = hi
        BY <1>1, <1>2, <2>1
      <3>2. QED  BY <1>9, <3>1
    <2>4. PICK S : S = Range(code)
      OBVIOUS
    <2>5. code \in Seq(S)
      BY <1>10, <2>4
    <2>6. Len(words) = n /\ \A i \in 1 .. n : words[i] = code[lo + i - 1]
      BY ONLY <1>6, <2>2, <2>3, <2>5, SliceOf
    <2>7. QED  BY <2>1, <2>6
  <1>13. ASSUME NEW i \in 1 .. n PROVE CaptureFits(function, words[i])
    <2>1. PICK j : j = k + i
      OBVIOUS
    <2>2. j \in k + 1 .. k + n /\ k + 1 + i - 1 = j
      BY ONLY <1>3, <1>6, <2>1
    <2>3. words[i] = code[j]
      BY <1>12, <2>2
    <2>4. QED  BY <1>4, <1>7, <1>9, <2>2, <2>3
  <1>14. frame.pc + (1 + n) + 1 \in Starts(function)
    <2>1. k + 1 + Cardinality(Captures(function, k, functions)) \in Starts(function)
      BY <1>1, <1>3, NextOf
    <2>2. k + 1 + n \in Starts(function)
      BY <1>7, <1>8, <2>1
    <2>3. frame.pc + (1 + n) + 1 = k + 1 + n
      <3>1. PICK pc : pc = frame.pc
        OBVIOUS
      <3>2. pc \in Nat /\ n \in Nat /\ k = pc + 1
        BY <1>1, <1>2, <1>6, <3>1
      <3>3. pc + (1 + n) + 1 = k + 1 + n
        BY ONLY <3>2
      <3>4. QED  BY <3>1, <3>3
    <2>4. QED  BY <2>2, <2>3
  <1>15. QED  BY <1>2, <1>5, <1>6, <1>12, <1>13, <1>14

\* A function put together.
ClosureOf(made, captured) == [function |-> made, upvalues |-> captured]

\* A function made: its upvalues exist and the words that named them are skipped.
LEMMA ClosureActionFits == ASSUME Safe, Closure PROVE After
  <1>1. frames # <<>> /\ unfused_op(insn) = "Closure"
    BY Plain, FusedNamesAre DEF Closure, FusedNames
  <1>2. PICK made : made = K(insn.b)[2]
    OBVIOUS
  <1>3. PICK words : words = SubSeq(function.code, frame.pc + 2,
                                    frame.pc + 1 + Len(functions[made].upvalues))
    OBVIOUS
  <1>4. PICK s, N : s = Captured(words) /\ N = Len(words)
    OBVIOUS
  <1>5. PICK new : new = ClosureOf(made, s.captured)
    OBVIOUS
  <1>6. /\ registers' = Put(registers, frame.base + insn.a, FunctionRef(Len(closures) + 1))
        /\ closures' = Pushed(closures, new)
        /\ upvalues' = s.upvalues /\ open_upvalues' = s.open
        /\ Continue(1 + N)
        /\ functions' = functions /\ globals' = globals /\ arrays' = arrays
    BY <1>2, <1>3, <1>4, <1>5 DEF Closure, program_vars, Put, Pushed, ClosureOf
  <1>7. /\ made \in DOMAIN functions
        /\ N \in Nat /\ DOMAIN functions[made].upvalues = 1 .. N
        /\ \A i \in 1 .. N : CaptureFits(function, words[i])
        /\ frame.pc + (1 + N) + 1 \in Starts(function)
    BY <1>1, <1>2, <1>3, <1>4, WordsHere
  <1>8. CapturedFit(s, N)
    BY <1>1, <1>4, <1>7, WordsCaptured
  <1>9. /\ IsSequence(closures') /\ Len(closures) \in Nat
        /\ DOMAIN closures = 1 .. Len(closures) /\ DOMAIN closures' = 1 .. Len(closures) + 1
        /\ Len(closures') = Len(closures) + 1 /\ closures'[Len(closures')] = new
        /\ \A c \in 1 .. Len(closures) : closures'[c] = closures[c]
    <2>1. IsSequence(closures)
      BY DEF Safe, ValuesInv, ClosuresFit
    <2>2. PICK clos, clos2 : clos = closures /\ clos2 = closures'
      OBVIOUS
    <2>3. IsSequence(clos) /\ clos2 = Pushed(clos, new)
      BY <1>6, <2>1, <2>2
    <2>4. /\ IsSequence(clos2) /\ Len(clos2) = Len(clos) + 1 /\ Len(clos) \in Nat
          /\ DOMAIN clos = 1 .. Len(clos) /\ DOMAIN clos2 = 1 .. Len(clos) + 1
          /\ clos2[Len(clos2)] = new
          /\ \A i \in 1 .. Len(clos) : clos2[i] = clos[i]
      BY ONLY <2>3, Appended
    <2>5. QED  BY <2>2, <2>4
  <1>10. /\ DOMAIN closures \subseteq DOMAIN closures' /\ Len(closures) + 1 \in DOMAIN closures'
         /\ \A c \in DOMAIN closures : c \in DOMAIN closures' /\ closures'[c] = closures[c]
    BY <1>9
  <1>11. /\ UpvaluesFit(upvalues', open_upvalues', arrays, closures)
         /\ DOMAIN upvalues \subseteq DOMAIN upvalues'
         /\ DOMAIN s.captured = 1 .. N
         /\ \A i \in 1 .. N : s.captured[i] \in DOMAIN upvalues'
    BY <1>6, <1>8, SequenceIsRow DEF CapturedFit
  <1>12. ClosuresFit(closures', upvalues')
    <2>1. ClosureFits(new, upvalues')
      BY <1>5, <1>7, <1>11 DEF ClosureFits, ClosureOf
    <2>2. ClosuresFit(closures, upvalues')
      BY <1>11, ClosuresKept DEF Safe, ValuesInv
    <2>3. \A c \in DOMAIN closures' : ClosureFits(closures'[c], upvalues')
      <3>1. ASSUME NEW c \in 1 .. Len(closures) + 1 PROVE ClosureFits(closures'[c], upvalues')
        <4>1. CASE c = Len(closures) + 1
          BY <1>9, <2>1, <4>1
        <4>2. CASE c # Len(closures) + 1
          <5>1. c \in 1 .. Len(closures)
            BY <1>9, <4>2
          <5>2. QED  BY <1>9, <2>2, <5>1 DEF ClosuresFit
        <4>3. QED  BY <4>1, <4>2
      <3>2. QED  BY <1>9, <3>1
    <2>4. QED  BY <1>9, <2>3 DEF ClosuresFit, ClosureFits
  <1>13. /\ RegistersFit(registers, arrays, closures') /\ GlobalsFit(globals, arrays, closures')
         /\ UpvaluesFit(upvalues', open_upvalues', arrays, closures')
    <2>1. PICK clos2, ups2, open2 : clos2 = closures' /\ ups2 = upvalues' /\ open2 = open_upvalues'
      OBVIOUS
    <2>2. /\ DOMAIN arrays \subseteq DOMAIN arrays /\ DOMAIN closures \subseteq DOMAIN clos2
          /\ RegistersFit(registers, arrays, closures) /\ GlobalsFit(globals, arrays, closures)
          /\ UpvaluesFit(ups2, open2, arrays, closures)
      BY <1>10, <1>11, <2>1 DEF Safe, ValuesInv
    <2>3. /\ RegistersFit(registers, arrays, clos2) /\ GlobalsFit(globals, arrays, clos2)
          /\ UpvaluesFit(ups2, open2, arrays, clos2)
      BY ONLY <2>2, Grown
    <2>4. QED  BY <2>1, <2>3
  <1>14. ArraysFit(arrays, closures')
    <2>1. \A v : IsValue(v, arrays, closures) => IsValue(v, arrays, closures')
      BY <1>10, StillValue
    <2>2. QED  BY <2>1 DEF Safe, ValuesInv, ArraysFit
  <1>15. RegistersFit(registers', arrays, closures')
    <2>1. frame.base + insn.a \in Slot
      BY <1>1, OperandsHere
    <2>2. IsValue(FunctionRef(Len(closures) + 1), arrays, closures')
      BY <1>10 DEF IsValue, FunctionRef
    <2>3. QED  BY <1>6, <1>13, <2>1, <2>2, PutRegister
  <1>16. FramesFit(frames', closures)
    <2>1. frame.pc + (1 + N) \in Nat
      BY <1>1, <1>7, Here
    <2>2. QED  BY <1>1, <1>6, <1>7, <2>1, ContinueFits
  <1>17. FramesFit(frames', closures')
    <2>1. \A i \in DOMAIN frames' : frames'[i].closure \in DOMAIN closures
      BY <1>16 DEF FramesFit, FrameFits
    <2>2. QED  BY <1>10, <1>16, FramesGrown
  <1>18. QED  BY <1>6, <1>12, <1>13, <1>14, <1>15, <1>17 DEF After, ValuesAfter

-----------------------------------------------------------------------------
(* The steps of the interpreter.                                           *)

\* Every instruction that is no jump, call, return or superinstruction.
LEMMA StraightFits ==
    ASSUME Safe, inline_cache \in BOOLEAN, LengthsFit, Straight PROVE After
  <1>1. CASE CallFails
    BY <1>1, FailFits DEF CallFails
  <1>2. QED
    BY <1>1, LoadsFit, GlobalAccessFits, GetUpvalueFits, SetUpvalueFits, OperateFits, ArrayFits,
       ArrayAppendFits, PrintFits, ClosureActionFits, CloseFits, NativeFits, ReturnsFit
       DEF Straight

\* Jumps, calls, returns and superinstructions.
LEMMA BranchFits == ASSUME Safe, Branch PROVE After
  BY JumpFits, SuperinstructionFits DEF Branch

\* The function that runs after a step fits, if one runs.
LEMMA HereAfter ==
    ASSUME Safe, After, IsSequence(frames'), frames' # <<>>
    PROVE  FunctionFits(function', functions) /\ 1 \in Starts(function')
  <1>1. Len(frames') \in DOMAIN frames' /\ frame' = frames'[Len(frames')]
    <2>1. frame' = frames'[Len(frames')]
      BY DEF frame, Last
    <2>2. Len(frames') \in Nat /\ DOMAIN frames' = 1 .. Len(frames')
      BY DEF IsSequence
    <2>3. Len(frames') # 0
      BY DEF IsSequence
    <2>4. QED  BY <2>1, <2>2, <2>3
  <1>2. frame'.closure \in DOMAIN closures'
    BY <1>1 DEF After, FramesFit, FrameFits
  <1>3. closures'[frame'.closure].function \in DOMAIN functions
    BY <1>2 DEF After, ValuesAfter, ClosuresFit, ClosureFits
  <1>4. function' = functions[closures'[frame'.closure].function]
    BY DEF function, closure, After
  <1>5. QED  BY <1>3, <1>4 DEF Safe, WellFormed, FunctionFits

\* What a step of the interpreter has to show for the calls in machine code.
LEMMA PlacesAfter ==
    ASSUME After, activations' # <<>> => ActivationsFit(activations', function') PROVE PlacesInv'
  <1>1. PlacesInv' = (/\ FramesFit(frames, closures)'
                      /\ activations' # <<>> => ActivationsFit(activations', function'))
    BY DEF PlacesInv, ActivationsFit
  <1>2. FramesFit(frames, closures)'
    BY DEF After, FramesFit, FrameFits
  <1>3. QED  BY <1>1, <1>2

\* Machine code that is entered is at its first word.
LEMMA EntryPlaces ==
    ASSUME Safe, After, IsSequence(frames'), frames' # <<>>,
           NEW f, NEW base, jit_frame_entry(f, base)
    PROVE  PlacesInv'
  <1>1. 1 \in Starts(function')
    BY HereAfter
  <1>2. activations' = <<>> \/ activations' = <<Activation(base)>>
    BY DEF jit_frame_entry
  <1>3. ASSUME activations' = <<Activation(base)>> PROVE ActivationsFit(activations', function')
    <2>1. DOMAIN activations' = {1} /\ activations'[1] = [base |-> base, at |-> 0]
      BY <1>3, Single DEF Activation
    <2>2. 0 \in Nat /\ 0 + 1 = 1 /\ 1 + 1 \notin {1}
      OBVIOUS
    <2>3. QED  BY <1>1, <2>1, <2>2 DEF ActivationsFit
  <1>4. activations' # <<>> => ActivationsFit(activations', function')
    BY <1>2, <1>3
  <1>5. QED  BY <1>4, PlacesAfter

\* A step of the interpreter.
LEMMA InterpretFits ==
    ASSUME Safe, inline_cache \in BOOLEAN, LengthsFit, Interpret PROVE After /\ PlacesInv'
  <1>1. After
    BY StraightFits, BranchFits, CallClosureFits DEF Interpret
  <1>2. FramesInv'
    BY InterpretMatches DEF Safe
  <1>3. activations = <<>>
    BY DEF Interpret, InMachineCode
  <1>4. CASE (Straight \/ Branch) /\ UNCHANGED activations
    BY <1>1, <1>3, <1>4 DEF PlacesInv, After, FramesFit, FrameFits
  <1>5. CASE CallClosure /\ jit_frame_entry(closures[callee_value[2]].function, callee_base)
    <2>1. status' = "running"
      BY <1>5 DEF CallClosure, Dispatch, run_vars
    <2>2. IsSequence(frames') /\ frames' # <<>>
      BY <1>2, <2>1 DEF FramesInv, StackInv
    <2>3. QED  BY <1>1, <1>5, <2>2, EntryPlaces
  <1>6. QED  BY <1>1, <1>4, <1>5 DEF Interpret, jit_back_edge, jit_vars

(* Machine code.                                                           *)

\* In machine code: the function of the newest frame runs, its registers are those
\* of the newest call, and that is at a word of it.
LEMMA HereInCode ==
    ASSUME Safe, InMachineCode
    PROVE  /\ frames # <<>> /\ FunctionFits(function, functions)
           /\ activation.base = frame.base /\ frame.base \in Nat \ {0}
           /\ activation.at \in Nat /\ activation.at + 1 \in Starts(function)
           /\ word = function.code[activation.at + 1]
           /\ jit_status[closure.function] = "compiled"
           /\ closure.function \in DOMAIN functions
           /\ \A regs : \A index : MRK(FALSE, index) = RK(FALSE, index, registers)
                                   /\ MRK(TRUE, index) = RK(TRUE, index, regs)
  <1>1. /\ Len(activations) \in Nat \ {0} /\ DOMAIN activations = 1 .. Len(activations)
        /\ frames # <<>> /\ activation = activations[Len(activations)]
        /\ frame.base = activation.base
        /\ jit_status[closure.function] = "compiled"
    BY InCode DEF Safe
  <1>2. /\ FunctionFits(function, functions) /\ frame.base \in Nat \ {0}
        /\ closure.function \in DOMAIN functions
    BY <1>1, Here
  <1>3. Len(activations) \in DOMAIN activations
    BY <1>1
  <1>4. activation.at \in Nat /\ activation.at + 1 \in Starts(function)
    BY <1>1, <1>3 DEF Safe, PlacesInv, ActivationsFit, InMachineCode
  <1>5. QED  BY <1>1, <1>2, <1>4 DEF word, MRK, RK, M

\* The operands of the word that machine code is at.
LEMMA OperandsInCode ==
    ASSUME Safe, InMachineCode
    PROVE  /\ word \in Word
           /\ word_op \notin {"Print", "Jump", "Return", "ReturnNil"}
              => activation.base + word.a \in Slot /\ IsValue(M(word.a), arrays, closures)
           /\ word_op = "Move" => IsValue(M(word.b), arrays, closures)
           /\ word_op \in Arithmetic \cup Unaries \cup {"IndexGet", "IndexSet", "Print", "Return"}
              => IsValue(word_b, arrays, closures)
           /\ word_op \in Arithmetic \cup {"IndexGet", "IndexSet"}
              => IsValue(word_c, arrays, closures)
           /\ word_op = "LoadK" => IsValue(K(word.b), arrays, closures)
           /\ word.b_const => IsValue(K(word.b), arrays, closures)
  <1>1. /\ frames # <<>> /\ activation.base = frame.base
        /\ activation.at + 1 \in Starts(function)
        /\ word = function.code[activation.at + 1]
    BY HereInCode
  <1>2. /\ RegistersFit(registers, arrays, closures)
        /\ \A s \in Slot : IsValue(registers[s], arrays, closures)
    BY DEF Safe, ValuesInv, RegistersFit
  <1>3. PICK op : op = word_op
    OBVIOUS
  <1>4. op = unfused_op(word)
    BY <1>3 DEF word_op
  <1>5. /\ word \in Word
        /\ op \notin {"Print", "Jump", "Return", "ReturnNil"} => frame.base + word.a \in Slot
        /\ op = "Move" => frame.base + word.b \in Slot
        /\ op \in Arithmetic \cup Unaries \cup {"IndexGet", "IndexSet", "Print", "Return"}
           => IsValue(RK(word.b_const, word.b, registers), arrays, closures)
        /\ op \in Arithmetic \cup {"IndexGet", "IndexSet"}
           => IsValue(RK(word.c_const, word.c, registers), arrays, closures)
        /\ op = "LoadK" => IsValue(K(word.b), arrays, closures)
        /\ word.b_const => IsScalar(K(word.b))
    BY <1>1, <1>2, <1>4, Operands
  <1>6. \A c, index : MRK(c, index) = RK(c, index, registers)
    BY <1>1 DEF MRK, RK, M
  <1>7. word_b = RK(word.b_const, word.b, registers) /\ word_c = RK(word.c_const, word.c, registers)
    BY <1>6 DEF word_b, word_c
  <1>8. word.b_const => IsValue(K(word.b), arrays, closures)
    BY <1>5, ScalarIsValue
  <1>9. /\ activation.base + word.a = frame.base + word.a
        /\ activation.base + word.b = frame.base + word.b
    BY <1>1
  <1>10. QED  BY <1>2, <1>3, <1>5, <1>7, <1>8, <1>9 DEF M

\* A next place is the last or one before it.
LEMMA NextPlace ==
    ASSUME NEW n \in Nat \ {0}, NEW i \in 1 .. n - 1 PROVE i + 1 = n \/ i + 1 \in 1 .. n - 1
  OBVIOUS

\* A word further, or several, in the same call.
LEMMA ProceedFits ==
    ASSUME Safe, InMachineCode, NEW words, Proceed(words),
           activation.at + words \in Nat, activation.at + words + 1 \in Starts(function)
    PROVE  ActivationsFit(activations', function)
  <1>0. PICK n : n = Len(activations)
    OBVIOUS
  <1>1. PICK v : v = [activations[n] EXCEPT !.at = @ + words]
    OBVIOUS
  <1>2. activations' = Replaced(activations, v)
    BY <1>0, <1>1 DEF Proceed, Replaced
  <1>3. /\ n \in Nat \ {0} /\ DOMAIN activations = 1 .. n /\ DOMAIN activations' = 1 .. n
        /\ activations'[n] = v
        /\ \A i \in 1 .. n - 1 : activations'[i] = activations[i]
    <2>1. IsSequence(activations) /\ activations # <<>>
      BY DEF Safe, FramesInv, StackInv, InMachineCode
    <2>2. QED  BY ONLY <1>0, <1>2, <2>1, AtTop
  <1>4. activation = activations[n]
    BY <1>0 DEF activation, Last
  <1>5. v.base = activations[n].base /\ v.at = activation.at + words
    <2>1. IsActivation(activations[n])
      BY <1>3 DEF Safe, FramesInv, StackInv
    <2>2. QED  BY ONLY <1>1, <1>4, <2>1 DEF IsActivation
  <1>6. ActivationsFit(activations, function)
    BY DEF Safe, PlacesInv, InMachineCode
  <1>7. ASSUME NEW i \in 1 .. n
        PROVE  /\ activations'[i].at \in Nat /\ activations'[i].at + 1 \in Starts(function)
               /\ i + 1 \in 1 .. n =>
                     activations'[i + 1].base
                     = activations'[i].base + function.code[activations'[i].at + 1].a + 1
    <2>1. CASE i = n
      <3>1. i + 1 \notin 1 .. n
        BY <1>3, <2>1
      <3>2. QED  BY <1>3, <1>5, <2>1, <3>1
    <2>2. CASE i # n
      <3>1. i \in 1 .. n - 1 /\ activations'[i] = activations[i]
        BY <1>3, <2>2
      <3>2. i + 1 \in 1 .. n => activations'[i + 1].base = activations[i + 1].base
        <4>1. i + 1 = n \/ i + 1 \in 1 .. n - 1
          BY ONLY <1>3, <3>1, NextPlace
        <4>2. QED  BY <1>3, <1>5, <4>1
      <3>3. QED  BY <1>3, <1>6, <3>1, <3>2 DEF ActivationsFit
    <2>3. QED  BY <2>1, <2>2
  <1>8. QED  BY <1>3, <1>7 DEF ActivationsFit

\* What machine code leaves alone, and what it may change.
LEMMA CodeKeeps ==
    ASSUME machine_code_unchanged' = machine_code_unchanged
    PROVE  /\ UNCHANGED <<program_vars, globals, closures, upvalue_vars>>
           /\ functions' = functions
  BY DEF machine_code_unchanged, program_vars

\* A word of machine code that is over stays in the frame it was in.
LEMMA StayFits ==
    ASSUME Safe, InMachineCode, machine_code_unchanged' = machine_code_unchanged,
           RegistersFit(registers', arrays', closures), ArraysFit(arrays', closures),
           DOMAIN arrays \subseteq DOMAIN arrays', UNCHANGED frames,
           NEW words, Proceed(words),
           activation.at + words \in Nat, activation.at + words + 1 \in Starts(function)
    PROVE  After /\ PlacesInv'
  <1>1. /\ UNCHANGED <<program_vars, globals, closures, upvalue_vars>>
        /\ functions' = functions /\ closures' = closures
    BY CodeKeeps DEF machine_code_unchanged
  <1>2. FramesFit(frames', closures)
    BY DEF Safe, PlacesInv
  <1>3. After
    BY <1>1, <1>2, WorkFits
  <1>4. ActivationsFit(activations', function)
    BY ProceedFits
  <1>5. function' = function
    BY <1>1 DEF function, closure, frame
  <1>6. QED  BY <1>3, <1>4, <1>5, PlacesAfter

\* The next word of machine code that does not jump.
LEMMA NextInCode ==
    ASSUME Safe, InMachineCode, word_op \notin {"Return", "ReturnNil", "Jump", "Closure"}
    PROVE  activation.at + 1 \in Nat /\ activation.at + 1 + 1 \in Starts(function)
  <1>1. /\ FunctionFits(function, functions)
        /\ activation.at \in Nat /\ activation.at + 1 \in Starts(function)
        /\ word = function.code[activation.at + 1]
    BY HereInCode
  <1>2. activation.at + 1 + 1 \in Starts(function)
    BY <1>1, NextOf DEF word_op
  <1>3. QED  BY <1>1, <1>2

\* Machine code that writes a value into a register.
LEMMA StoreFits ==
    ASSUME Safe, NEW ops, NEW v, Store(ops, v), IsValue(v, arrays, closures),
           word_op \notin {"Print", "Jump", "Return", "ReturnNil", "Closure"}
    PROVE  After /\ PlacesInv'
  <1>1. /\ InMachineCode /\ machine_code_unchanged' = machine_code_unchanged
        /\ Proceed(1) /\ UNCHANGED <<arrays, frames>>
        /\ registers' = Put(registers, activation.base + word.a, v)
    BY DEF Store, Machine, Put
  <1>2. activation.base + word.a \in Slot
    BY <1>1, OperandsInCode
  <1>3. RegistersFit(registers', arrays, closures)
    BY <1>1, <1>2, PutRegister DEF Safe, ValuesInv
  <1>4. ArraysFit(arrays, closures) /\ arrays' = arrays
    BY <1>1 DEF Safe, ValuesInv
  <1>5. activation.at + 1 \in Nat /\ activation.at + 1 + 1 \in Starts(function)
    BY <1>1, NextInCode
  <1>6. QED  BY <1>1, <1>3, <1>4, <1>5, StayFits

\* What machine code computes has no array or function as a part.
LEMMA MachineBinaryScalar ==
    ASSUME NEW n \in Ints, NEW m \in Ints, NEW op \in Arithmetic,
           op \in {"Div", "Mod"} => m # 0
    PROVE  IsScalar(MachineBinary(op, n, m))
  <1>1. n \in Int /\ m \in Int
    BY IntIsInt
  <1>2. CASE op \in {"Add", "Sub", "Mul"}
    <2>1. /\ IsScalar(make_int(Wrap(n + m))) /\ IsScalar(make_int(Wrap(n - m)))
          /\ IsScalar(make_int(Wrap(n * m)))
      BY <1>1, WrappedScalar
    <2>2. QED  BY <1>2, <2>1 DEF MachineBinary
  <1>3. CASE op \in {"Div", "Mod"}
    <2>1. Truncated(n, m) \in Int
      BY <1>3, TruncatedInts
    <2>2. SDIV(n, m) = Wrap(Truncated(n, m))
      BY <1>3 DEF SDIV
    <2>3. PICK q \in Int : q = Wrap(Truncated(n, m))
      BY <2>1, WrapInts, IntIsInt
    <2>4. IsScalar(make_int(Wrap(Truncated(n, m)))) /\ IsScalar(make_int(Wrap(n - q * m)))
      <3>1. n - q * m \in Int
        BY <1>1
      <3>2. QED  BY <2>1, <3>1, WrappedScalar
    <2>5. QED  BY <1>3, <2>2, <2>3, <2>4 DEF MachineBinary, MSUB
  <1>4. CASE op \in {"Eq", "Ne", "Lt", "Le", "Gt", "Ge"}
    BY <1>4, Scalars DEF MachineBinary
  <1>5. QED  BY <1>2, <1>3, <1>4 DEF Arithmetic

\* Moves, constants and globals in machine code.
LEMMA MachineLoadFits ==
    ASSUME Safe, CompiledInv, MachineLoad PROVE After /\ PlacesInv'
  <1>1. InMachineCode
    BY DEF MachineLoad, Store, Machine
  <1>2. IsValue(Nil, arrays, closures) /\ IsValue(True, arrays, closures)
        /\ IsValue(False, arrays, closures)
    BY Scalars, ScalarIsValue
  <1>3. CASE Store({"Move"}, M(word.b))
    <2>1. word_op = "Move"
      BY <1>3 DEF Store, Machine
    <2>2. IsValue(M(word.b), arrays, closures)
      BY <1>1, <2>1, OperandsInCode
    <2>3. QED  BY <1>3, <2>1, <2>2, StoreFits
  <1>4. CASE Store({"LoadK"}, K(word.b))
    <2>1. word_op = "LoadK"
      BY <1>4 DEF Store, Machine
    <2>2. IsValue(K(word.b), arrays, closures)
      BY <1>1, <2>1, OperandsInCode
    <2>3. QED  BY <1>4, <2>1, <2>2, StoreFits
  <1>5. CASE Store({"LoadNil"}, Nil)
    <2>1. word_op = "LoadNil"
      BY <1>5 DEF Store, Machine
    <2>2. QED  BY <1>2, <1>5, <2>1, StoreFits
  <1>6. CASE Store({"LoadTrue"}, True)
    <2>1. word_op = "LoadTrue"
      BY <1>6 DEF Store, Machine
    <2>2. QED  BY <1>2, <1>6, <2>1, StoreFits
  <1>7. CASE Store({"LoadFalse"}, False)
    <2>1. word_op = "LoadFalse"
      BY <1>7 DEF Store, Machine
    <2>2. QED  BY <1>2, <1>7, <2>1, StoreFits
  <1>8. CASE Store({"GetGlobal"}, globals[function.name])
    <2>1. word_op = "GetGlobal"
      BY <1>8 DEF Store, Machine
    <2>2. function.name \in DOMAIN globals
      <3>1. /\ jit_status[closure.function] = "compiled" /\ closure.function \in DOMAIN functions
            /\ FunctionFits(function, functions)
            /\ activation.at + 1 \in Starts(function)
            /\ word = function.code[activation.at + 1]
        BY <1>1, HereInCode
      <3>2. check_whitelist(closure.function, functions[closure.function].name \in DOMAIN globals)
        BY <3>1 DEF CompiledInv, StatusFits
      <3>3. activation.at + 1 \in DOMAIN functions[closure.function].code
        BY <3>1 DEF Starts, function
      <3>4. Compiles(closure.function, word, activation.at + 1,
                     functions[closure.function].name \in DOMAIN globals)
        BY <3>1, <3>2, <3>3 DEF check_whitelist, function
      <3>5. functions[closure.function].name \in DOMAIN globals
        BY <2>1, <3>4, Zenon DEF Compiles, word_op, Arithmetic, Jumps
      <3>6. QED  BY <3>5 DEF function
    <2>3. IsValue(globals[function.name], arrays, closures)
      BY <2>2 DEF Safe, ValuesInv, GlobalsFit
    <2>4. QED  BY <1>8, <2>1, <2>3, StoreFits
  <1>9. QED  BY <1>3, <1>4, <1>5, <1>6, <1>7, <1>8 DEF MachineLoad

\* The one comparison of machine code finds the elements of an array.
LEMMA InArrayThere ==
    ASSUME Safe, LengthsFit, NEW array, IsValue(array, arrays, closures),
           NEW index, IsValue(index, arrays, closures), InArray(array, index)
    PROVE  /\ array[2] \in DOMAIN arrays
           /\ index[2] \in 0 .. Len(arrays[array[2]]) - 1
           /\ index[2] + 1 \in DOMAIN arrays[array[2]]
  <1>1. array[2] \in DOMAIN arrays /\ index[2] \in Ints
    BY Contents DEF InArray
  <1>2. PICK row : row = arrays[array[2]]
    OBVIOUS
  <1>3. Len(row) \in Nat /\ DOMAIN row = 1 .. Len(row)
    BY <1>1, <1>2, SequenceIsRow DEF Safe, ValuesInv, ArraysFit
  <1>4. PICK k : k = Len(row)
    OBVIOUS
  <1>5. PICK i \in Ints : i = index[2]
    BY <1>1
  <1>6. k <= 4 * Half * Half - Half
    BY <1>1, <1>2, <1>4 DEF LengthsFit
  <1>7. Unsigned(i) < k
    BY <1>2, <1>4, <1>5 DEF InArray
  <1>8. i \in 0 .. k - 1
    BY ONLY <1>3, <1>4, <1>6, <1>7, UnsignedBelow
  <1>9. i + 1 \in 1 .. k
    BY ONLY <1>3, <1>4, <1>8
  <1>10. QED  BY <1>1, <1>2, <1>3, <1>4, <1>5, <1>8, <1>9

\* Operations in machine code: they work on ints and leave it for all else.
LEMMA MachineArithmeticFits ==
    ASSUME Safe, LengthsFit, MachineArithmetic PROVE After /\ PlacesInv'
  <1>1. InMachineCode /\ ~Exits
    BY DEF MachineArithmetic, Store, Machine
  <1>2. CASE Store(Arithmetic, MachineBinary(word_op, word_b[2], word_c[2]))
    <2>1. word_op \in Arithmetic
      BY <1>2 DEF Store, Machine
    <2>2. IsValue(word_b, arrays, closures) /\ IsValue(word_c, arrays, closures)
      BY <1>1, <2>1, OperandsInCode
    <2>3. Is("int", word_b) /\ Is("int", word_c) /\ ~DivisorIsZero
      BY <1>1, <2>1 DEF Exits
    <2>4. word_b[2] \in Ints /\ word_c[2] \in Ints /\ word_c = make_int(word_c[2])
      BY <2>2, <2>3, Contents
    <2>5. word_op \in {"Div", "Mod"} => word_c[2] # 0
      BY <2>3, <2>4 DEF DivisorIsZero
    <2>6. IsValue(MachineBinary(word_op, word_b[2], word_c[2]), arrays, closures)
      BY <2>1, <2>4, <2>5, MachineBinaryScalar, ScalarIsValue
    <2>7. word_op \notin {"Print", "Jump", "Return", "ReturnNil", "Closure"}
      BY <2>1 DEF Arithmetic
    <2>8. QED  BY <1>2, <2>6, <2>7, StoreFits
  <1>3. CASE Store({"Neg"}, make_int(Wrap(-word_b[2])))
    <2>1. word_op = "Neg"
      BY <1>3 DEF Store, Machine
    <2>2. IsValue(word_b, arrays, closures)
      BY <1>1, <2>1, OperandsInCode DEF Unaries
    <2>3. word_b[2] \in Int
      BY <1>1, <2>1, <2>2, Contents, IntIsInt DEF Exits
    <2>4. IsValue(make_int(Wrap(-word_b[2])), arrays, closures)
      BY <2>3, WrappedScalar, ScalarIsValue
    <2>5. QED  BY <1>3, <2>1, <2>4, StoreFits
  <1>4. CASE Store({"IndexGet"}, arrays[word_b[2]][word_c[2] + 1])
    <2>1. word_op = "IndexGet"
      BY <1>4 DEF Store, Machine
    <2>2. IsValue(word_b, arrays, closures) /\ IsValue(word_c, arrays, closures)
      BY <1>1, <2>1, OperandsInCode
    <2>3. InArray(word_b, word_c)
      BY <1>1, <2>1 DEF Exits
    <2>4. word_b[2] \in DOMAIN arrays /\ word_c[2] + 1 \in DOMAIN arrays[word_b[2]]
      BY <2>2, <2>3, InArrayThere
    <2>5. IsValue(arrays[word_b[2]][word_c[2] + 1], arrays, closures)
      BY <2>4 DEF Safe, ValuesInv, ArraysFit
    <2>6. QED  BY <1>4, <2>1, <2>5, StoreFits
  <1>5. QED  BY <1>2, <1>3, <1>4 DEF MachineArithmetic

\* A value stored into an array in machine code.
LEMMA MachineIndexSetFits ==
    ASSUME Safe, LengthsFit, MachineIndexSet PROVE After /\ PlacesInv'
  <1>1. /\ InMachineCode /\ ~Exits /\ word_op = "IndexSet" /\ Proceed(1)
        /\ machine_code_unchanged' = machine_code_unchanged
        /\ UNCHANGED <<registers, frames>>
    BY DEF MachineIndexSet, Machine
  <1>2. /\ IsValue(word_b, arrays, closures) /\ IsValue(word_c, arrays, closures)
        /\ IsValue(M(word.a), arrays, closures)
    BY <1>1, OperandsInCode
  <1>3. InArray(M(word.a), word_b)
    BY <1>1 DEF Exits
  <1>4. PICK id, i : id = M(word.a)[2] /\ i = word_b[2]
    OBVIOUS
  <1>5. id \in DOMAIN arrays /\ i \in 0 .. Len(arrays[id]) - 1
    BY <1>2, <1>3, <1>4, InArrayThere
  <1>6. arrays' = Stored(arrays, id, i, word_c)
    BY <1>4 DEF MachineIndexSet, Stored
  <1>7. ArraysFit(arrays', closures) /\ DOMAIN arrays' = DOMAIN arrays
    BY <1>2, <1>5, <1>6, StoredFits DEF Safe, ValuesInv
  <1>8. RegistersFit(registers', arrays', closures)
    BY <1>1, <1>7, ArraysGrow DEF Safe, ValuesInv
  <1>9. activation.at + 1 \in Nat /\ activation.at + 1 + 1 \in Starts(function)
    BY <1>1, NextInCode
  <1>10. QED  BY <1>1, <1>7, <1>8, <1>9, StayFits

\* A jump in machine code.
LEMMA MachineJumpFits ==
    ASSUME Safe, MachineJump PROVE After /\ PlacesInv'
  <1>1. /\ InMachineCode /\ word_op \in Jumps
        /\ machine_code_unchanged' = machine_code_unchanged
        /\ UNCHANGED <<arrays, registers, frames>>
    BY DEF MachineJump, Machine
  <1>2. PICK words : Proceed(words) /\ words = IF Jumping THEN 1 + word.b ELSE 1
    BY DEF MachineJump
  <1>3. /\ FunctionFits(function, functions)
        /\ activation.at \in Nat /\ activation.at + 1 \in Starts(function)
        /\ word = function.code[activation.at + 1]
    BY <1>1, HereInCode
  <1>4. word.b \in Int
    BY <1>1, OperandsInCode DEF Word
  <1>5. /\ word_op # "Jump" => activation.at + 1 + 1 \in Starts(function)
        /\ activation.at + 1 + 1 + word.b \in Starts(function)
    BY <1>1, <1>3, NextOf DEF word_op, Jumps
  <1>6. words \in Int /\ activation.at + words + 1 \in Starts(function)
    <2>1. CASE Jumping
      <3>1. words = 1 + word.b /\ words \in Int
        BY <1>2, <1>4, <2>1
      <3>2. activation.at + words + 1 = activation.at + 1 + 1 + word.b
        BY <1>3, <1>4, <3>1
      <3>3. QED  BY <1>5, <3>1, <3>2
    <2>2. CASE ~Jumping
      BY <1>2, <1>5, <2>2 DEF Jumping
    <2>3. QED  BY <2>1, <2>2
  <1>7. activation.at + words \in Nat
    <2>1. activation.at + words + 1 \in Nat \ {0}
      BY <1>3, <1>6, PositionType
    <2>2. PICK a \in Nat : a = activation.at
      BY <1>3
    <2>3. QED  BY <1>6, <2>1, <2>2
  <1>8. RegistersFit(registers', arrays', closures) /\ ArraysFit(arrays', closures)
        /\ DOMAIN arrays \subseteq DOMAIN arrays'
    BY <1>1 DEF Safe, ValuesInv
  <1>9. QED  BY <1>1, <1>2, <1>6, <1>7, <1>8, StayFits

\* Leaving machine code: the newest frame goes on at the word that was reached.
LEMMA ExitFits ==
    ASSUME Safe, InMachineCode, activations' = <<>>,
           frames' = [frames EXCEPT ![Len(frames)].pc = activation.at],
           machine_code_unchanged' = machine_code_unchanged,
           UNCHANGED <<arrays, registers>>
    PROVE  After /\ PlacesInv'
  <1>1. /\ frames # <<>> /\ activation.at \in Nat /\ activation.at + 1 \in Starts(function)
    BY HereInCode
  <1>2. PICK pc \in Nat : pc = activation.at
    BY <1>1
  <1>3. frames' = WithPc(pc) /\ pc + 1 \in Starts(function)
    BY <1>1, <1>2 DEF WithPc
  <1>4. FramesFit(frames', closures)
    BY <1>1, <1>3, WithPcFits
  <1>5. UNCHANGED <<program_vars, globals, closures, upvalue_vars>>
    BY CodeKeeps
  <1>6. After
    BY <1>4, <1>5, WorkFits DEF Safe, ValuesInv
  <1>7. QED  BY <1>6, PlacesAfter

\* The calls in machine code after one more: the newest has its window above the
\* register of its caller that has the callee.
LEMMA OneMoreCall ==
    ASSUME NEW calls_of, IsSequence(calls_of), calls_of # <<>>, NEW g, ActivationsFit(calls_of, g),
           1 \in Starts(g),
           NEW top, top = calls_of[Len(calls_of)],
           NEW e, e.at = 0, e.base = top.base + g.code[top.at + 1].a + 1,
           NEW more, more = Pushed(calls_of, e)
    PROVE  ActivationsFit(more, g)
  <1>1. PICK n : n = Len(calls_of)
    OBVIOUS
  <1>2. /\ n \in Nat \ {0} /\ DOMAIN calls_of = 1 .. n /\ DOMAIN more = 1 .. n + 1
        /\ more[n + 1] = e /\ \A i \in 1 .. n : more[i] = calls_of[i]
    <2>1. n # 0
      BY <1>1 DEF IsSequence
    <2>2. /\ n \in Nat /\ DOMAIN calls_of = 1 .. n /\ DOMAIN more = 1 .. n + 1
          /\ more[n + 1] = e /\ \A i \in 1 .. n : more[i] = calls_of[i]
      BY ONLY <1>1, Appended, IsSequence(calls_of), more = Pushed(calls_of, e)
    <2>3. QED  BY <2>1, <2>2
  <1>3. \A i \in 1 .. n + 1 : more[i].at \in Nat /\ more[i].at + 1 \in Starts(g)
    <2>1. \A i \in 1 .. n : calls_of[i].at \in Nat /\ calls_of[i].at + 1 \in Starts(g)
      BY <1>2 DEF ActivationsFit
    <2>2. 0 \in Nat /\ 0 + 1 = 1 /\ \A i \in 1 .. n + 1 : i \in 1 .. n \/ i = n + 1
      BY <1>2
    <2>3. QED  BY <1>2, <2>1, <2>2
  <1>4. ASSUME NEW i \in 1 .. n + 1, i + 1 \in 1 .. n + 1
        PROVE  more[i + 1].base = more[i].base + g.code[more[i].at + 1].a + 1
    <2>1. i \in 1 .. n /\ (i = n \/ i + 1 \in 1 .. n)
      BY <1>2, <1>4
    <2>2. CASE i = n
      <3>1. more[i] = top /\ more[i + 1] = e
        BY <1>1, <1>2, <2>1, <2>2
      <3>2. QED  BY ONLY <3>1, e.base = top.base + g.code[top.at + 1].a + 1
    <2>3. CASE i + 1 \in 1 .. n
      <3>1. more[i] = calls_of[i] /\ more[i + 1] = calls_of[i + 1]
        BY <1>2, <2>1, <2>3
      <3>2. calls_of[i + 1].base = calls_of[i].base + g.code[calls_of[i].at + 1].a + 1
        BY <1>2, <2>1, <2>3 DEF ActivationsFit
      <3>3. QED  BY ONLY <3>1, <3>2
    <2>4. QED  BY <2>1, <2>2, <2>3
  <1>5. QED  BY ONLY <1>2, <1>3, <1>4 DEF ActivationsFit

\* A function in machine code calls itself, or leaves for the interpreter at its limits.
LEMMA SelfCallSafe == ASSUME Safe, SelfCall PROVE After /\ PlacesInv'
  <1>1. /\ InMachineCode /\ word_op = "Call" /\ SelfCallPasses
        /\ machine_code_unchanged' = machine_code_unchanged
        /\ UNCHANGED arrays
    BY DEF SelfCall, Machine, Exits
  <1>2. /\ frames # <<>> /\ FunctionFits(function, functions)
        /\ activation.base = frame.base /\ frame.base \in Nat \ {0}
        /\ activation.at \in Nat /\ activation.at + 1 \in Starts(function)
        /\ word = function.code[activation.at + 1]
    BY <1>1, HereInCode
  <1>3. PICK pc \in Nat : pc = activation.at + 1
    BY <1>2
  <1>4. pc + 1 \in Starts(function)
    BY <1>1, <1>3, NextInCode
  <1>5. PICK callee : callee = M(word.a)
    OBVIOUS
  <1>6. /\ callee[2] \in DOMAIN closures /\ closures[callee[2]].function = closure.function
        /\ CodeOf(callee) = function
    <2>1. IsValue(callee, arrays, closures)
      BY <1>1, <1>5, OperandsInCode
    <2>2. Is("function", callee) /\ closures[callee[2]].function = closure.function
      BY <1>1, <1>5 DEF SelfCallPasses, IsSelf
    <2>3. QED  BY <2>1, <2>2, Contents DEF CodeOf, function
  <1>7. NewBase \in Nat \ {0}
    <2>1. word.a \in Nat
      BY <1>1, OperandsInCode DEF Word
    <2>2. PICK a \in Nat, b \in Nat \ {0} : a = word.a /\ b = activation.base
      BY <1>2, <2>1
    <2>3. b + a + 1 \in Nat \ {0}
      BY ONLY <2>2
    <2>4. QED  BY <2>2, <2>3 DEF NewBase
  <1>8. PICK base \in Nat \ {0} : base = NewBase
    BY <1>7
  <1>9. base + CodeOf(callee).frame_size <= RegisterSlots
    BY <1>1, <1>6, <1>8 DEF SelfCallPasses, WindowLeft
  <1>10. frames' = Pushed(WithPc(pc), NewFrame(callee, base))
    BY <1>3, <1>5, <1>8 DEF SelfCall, Pushed, WithPc
  <1>11. FramesFit(frames', closures)
    BY <1>2, <1>4, <1>6, <1>9, <1>10, PushFits
  <1>12. RegistersFit(registers', arrays, closures)
    <2>1. registers' = Slide(callee, base, registers)
      BY <1>5, <1>8 DEF SelfCall
    <2>2. QED  BY <2>1, SlideFits DEF Safe, ValuesInv
  <1>13. After
    <2>1. UNCHANGED <<program_vars, globals, closures, upvalue_vars>>
      BY <1>1, CodeKeeps
    <2>2. QED  BY <1>1, <1>11, <1>12, <2>1, WorkFits DEF Safe, ValuesInv
  <1>14. function' = function
    <2>1. StackInv /\ frames # <<>>
      BY <1>2 DEF Safe, FramesInv
    <2>2. /\ IsSequence(frames') /\ frames' # <<>> /\ Len(frames) \in Nat \ {0}
          /\ Len(frames') = Len(frames) + 1
          /\ DOMAIN frames = 1 .. Len(frames) /\ DOMAIN frames' = 1 .. Len(frames) + 1
          /\ frames'[Len(frames')] = [closure |-> callee[2], pc |-> 0, base |-> base]
          /\ frames'[Len(frames)] = [frames[Len(frames)] EXCEPT !.pc = pc]
          /\ frames'[Len(frames)].pc = pc
          /\ \A i \in 1 .. Len(frames) - 1 : frames'[i] = frames[i]
          /\ \A i \in DOMAIN frames' : IsFrame(frames'[i])
      BY ONLY <1>10, <2>1, FramePushed
    <2>3. frame' = [closure |-> callee[2], pc |-> 0, base |-> base]
      BY <2>2 DEF frame, Last
    <2>4. closures' = closures /\ functions' = functions
      BY <1>1, MachineKeeps
    <2>5. closure' = closures[callee[2]]
      BY <2>3, <2>4 DEF closure
    <2>6. QED  BY <1>6, <2>4, <2>5 DEF function
  <1>15. ActivationsFit(activations', function)
    <2>1. PICK g, top, e : /\ g = function /\ top = activation
                           /\ e = [base |-> top.base + g.code[top.at + 1].a + 1, at |-> 0]
      OBVIOUS
    <2>2. activations' = Pushed(activations, e)
      BY <1>2, <2>1 DEF SelfCall, Activation, NewBase, Pushed
    <2>3. /\ IsSequence(activations) /\ activations # <<>> /\ ActivationsFit(activations, g)
          /\ top = activations[Len(activations)] /\ 1 \in Starts(g)
      BY <1>1, <1>2, <2>1 DEF Safe, FramesInv, StackInv, PlacesInv, InMachineCode, activation, Last,
                              FunctionFits
    <2>4. PICK more : more = activations'
      OBVIOUS
    <2>5. e.at = 0 /\ e.base = top.base + g.code[top.at + 1].a + 1
      BY <2>1
    <2>7. ActivationsFit(more, g)
      BY ONLY <2>2, <2>3, <2>4, <2>5, OneMoreCall
    <2>6. QED  BY <2>1, <2>4, <2>7
  <1>16. QED  BY <1>13, <1>14, <1>15, PlacesAfter

\* The calls in machine code without the newest, the one before it a word further.
LEMMA OneCallLess ==
    ASSUME NEW calls_of, NEW n \in Nat \ {0, 1}, DOMAIN calls_of = 1 .. n,
           NEW g, ActivationsFit(calls_of, g),
           NEW less, DOMAIN less = 1 .. n - 1,
           \A i \in 1 .. n - 2 : less[i] = calls_of[i],
           less[n - 1].base = calls_of[n - 1].base,
           less[n - 1].at \in Nat, less[n - 1].at + 1 \in Starts(g)
    PROVE  ActivationsFit(less, g)
  <1>1. \A i \in 1 .. n - 1 : i \in 1 .. n - 2 \/ i = n - 1
    OBVIOUS
  <1>2. \A i \in 1 .. n - 1 : /\ less[i].base = calls_of[i].base /\ i \in 1 .. n
                              /\ less[i].at \in Nat /\ less[i].at + 1 \in Starts(g)
    BY <1>1 DEF ActivationsFit
  <1>3. ASSUME NEW i \in 1 .. n - 1, i + 1 \in 1 .. n - 1
        PROVE  less[i + 1].base = less[i].base + g.code[less[i].at + 1].a + 1
    <2>1. i \in 1 .. n - 2 /\ i + 1 \in 1 .. n /\ less[i] = calls_of[i]
          /\ less[i + 1].base = calls_of[i + 1].base
      BY <1>2, <1>3
    <2>2. calls_of[i + 1].base = calls_of[i].base + g.code[calls_of[i].at + 1].a + 1
      BY <1>2, <2>1 DEF ActivationsFit
    <2>3. QED  BY ONLY <2>1, <2>2
  <1>4. QED  BY <1>2, <1>3 DEF ActivationsFit

\* The caller of the newest call in machine code, and its CALL.
LEMMA CallerInCode ==
    ASSUME Safe, InMachineCode, Len(activations) > 1,
           NEW n, n = Len(activations), NEW back, back = activations[n - 1]
    PROVE  /\ n \in Nat \ {0, 1} /\ DOMAIN activations = 1 .. n
           /\ activation = activations[n]
           /\ back.at \in Nat /\ back.at + 1 \in Starts(function)
           /\ function.code[back.at + 1].op = "Call"
           /\ function.code[back.at + 1].a \in Nat
           /\ back.base \in Nat /\ back.base + function.code[back.at + 1].a \in Slot
           /\ activation.base = back.base + function.code[back.at + 1].a + 1
           /\ back.at + 1 \in Nat /\ back.at + 1 + 1 \in Starts(function)
  <1>1. PICK m : m = Len(frames)
    OBVIOUS
  <1>2. /\ n \in Nat \ {0, 1} /\ m \in Nat \ {0} /\ n <= m /\ frames # <<>>
        /\ DOMAIN activations = 1 .. n /\ DOMAIN frames = 1 .. m
        /\ activation = activations[n]
    <2>1. /\ Len(activations) \in Nat \ {0} /\ Len(frames) \in Nat \ {0}
          /\ Len(activations) <= Len(frames)
          /\ DOMAIN activations = 1 .. Len(activations) /\ DOMAIN frames = 1 .. Len(frames)
          /\ frames # <<>> /\ activation = activations[Len(activations)]
      BY InCode DEF Safe
    <2>2. QED  BY <1>1, <2>1
  <1>3. n - 1 \in DOMAIN activations /\ n \in DOMAIN activations /\ n - 1 + 1 = n
        /\ m - n + (n - 1) = m - 1 /\ m - 1 \in DOMAIN frames /\ n - 1 < n
    BY <1>2
  <1>4. ActivationsFit(activations, function)
    BY DEF Safe, PlacesInv, InMachineCode
  <1>5. /\ back.at \in Nat /\ back.at + 1 \in Starts(function)
        /\ activation.base = back.base + function.code[back.at + 1].a + 1
    BY <1>2, <1>3, <1>4 DEF ActivationsFit
  <1>6. /\ frames[m - 1].base = back.base
        /\ closures[frames[m - 1].closure].function = closure.function
        /\ frames[m - 1].pc = back.at + 1
        /\ function.code[frames[m - 1].pc].op = "Call"
    <2>1. ActivationsMatchFrames
      BY DEF Safe, FramesInv
    <2>2. LET f == frames[m - n + (n - 1)]
          IN /\ f.base = activations[n - 1].base
             /\ closures[f.closure].function = closure.function
             /\ f.pc = activations[n - 1].at + 1
             /\ function.code[f.pc].op = "Call"
      BY <1>1, <1>3, <2>1 DEF ActivationsMatchFrames
    <2>3. QED  BY <1>3, <2>2
  <1>7. FrameFits(frames[m - 1], closures)
    BY <1>3 DEF Safe, PlacesInv, FramesFit
  <1>8. /\ back.base \in Nat \ {0} /\ back.base + function.frame_size <= RegisterSlots
    BY <1>6, <1>7 DEF FrameFits, function
  <1>9. function.code[back.at + 1].op = "Call"
    BY <1>6
  <1>10. FunctionFits(function, functions)
    BY <1>2, Here
  <1>11. unfused_op(function.code[back.at + 1]) = "Call"
    BY <1>9, PlainOf, FusedNamesAre DEF FusedNames
  <1>12. PICK w : w = function.code[back.at + 1]
    OBVIOUS
  <1>13. w.a \in Windows(function) /\ w.a \in Nat
    BY <1>5, <1>10, <1>11, <1>12, OperandsOf DEF Word
  <1>14. back.base + w.a \in Slot
    <2>1. PICK size \in Nat, a \in Nat, b \in Nat : size = function.frame_size /\ a = w.a /\ b = back.base
      BY <1>8, <1>10, <1>13 DEF FunctionFits
    <2>2. a \in 0 .. size - 1 /\ b + size <= RegisterSlots
      BY <1>8, <1>13, <2>1 DEF Windows
    <2>3. b + a \in Slot
      BY ONLY <2>2, RegisterSlotsAssumption DEF Slot
    <2>4. QED  BY <2>1, <2>3
  <1>15. back.at + 1 + 1 \in Starts(function)
    BY <1>5, <1>10, <1>11, NextOf
  <1>16. back.at + 1 \in Nat
    BY <1>5
  <1>17. QED  BY <1>2, <1>5, <1>8, <1>9, <1>12, <1>13, <1>14, <1>15, <1>16

\* The value a return gives is one: the window of the call is that of the newest.
LEMMA ReturnedValue ==
    ASSUME Safe, InMachineCode, ReturnsNow,
           NEW back, activation.base = back.base + function.code[back.at + 1].a + 1,
           NEW v, v = IF word_op = "ReturnNil" THEN Nil
                      ELSE IF word.b_const THEN K(word.b)
                      ELSE registers[back.base + function.code[back.at + 1].a + 1 + word.b]
    PROVE  IsValue(v, arrays, closures)
  <1>1. CASE word_op = "ReturnNil"
    BY <1>1, Scalars, ScalarIsValue
  <1>2. CASE word_op # "ReturnNil"
    <2>1. word_op = "Return"
      BY <1>2 DEF ReturnsNow
    <2>2. IsValue(word_b, arrays, closures) /\ (word.b_const => IsValue(K(word.b), arrays, closures))
      BY <2>1, OperandsInCode
    <2>3. ~word.b_const => word_b = registers[activation.base + word.b]
      BY DEF word_b, MRK, M
    <2>4. word.b_const \in BOOLEAN
      BY OperandsInCode DEF Word
    <2>5. QED  BY <1>2, <2>2, <2>3, <2>4
  <1>3. QED  BY <1>1, <1>2

\* All frames but the newest.
LEMMA FrontFits ==
    ASSUME Safe, frames # <<>> PROVE FramesFit(Front(frames), closures)
  <1>1. /\ IsSequence(frames) /\ frames # <<>> /\ FramesFit(frames, closures)
    BY DEF Safe, FramesInv, StackInv, PlacesInv
  <1>2. PICK t : t = Front(frames)
    OBVIOUS
  <1>3. /\ Len(frames) \in Nat \ {0} /\ DOMAIN frames = 1 .. Len(frames)
        /\ DOMAIN t = 1 .. Len(frames) - 1
        /\ \A i \in 1 .. Len(frames) - 1 : t[i] = frames[i]
    BY <1>1, <1>2, Popped
  <1>4. QED  BY <1>1, <1>2, <1>3 DEF FramesFit

\* A return from one call in machine code to another.
LEMMA ReturnToCallerFits == ASSUME Safe, ReturnToCaller PROVE After /\ PlacesInv'
  <1>1. /\ InMachineCode /\ ReturnsNow /\ Len(activations) > 1 /\ frames' = Front(frames)
        /\ machine_code_unchanged' = machine_code_unchanged
        /\ UNCHANGED arrays
    BY DEF ReturnToCaller, Leaving
  <1>2. PICK n, back : n = Len(activations) /\ back = activations[n - 1]
    OBVIOUS
  <1>3. /\ n \in Nat \ {0, 1} /\ DOMAIN activations = 1 .. n
        /\ back.at \in Nat /\ back.at + 1 \in Starts(function)
        /\ back.base + function.code[back.at + 1].a \in Slot
        /\ activation.base = back.base + function.code[back.at + 1].a + 1
        /\ back.at + 1 \in Nat /\ back.at + 1 + 1 \in Starts(function)
    BY <1>1, <1>2, CallerInCode
  <1>4. PICK v : v = IF word_op = "ReturnNil" THEN Nil
                     ELSE IF word.b_const THEN K(word.b)
                     ELSE registers[back.base + function.code[back.at + 1].a + 1 + word.b]
    OBVIOUS
  <1>5. IsValue(v, arrays, closures)
    BY <1>1, <1>3, <1>4, ReturnedValue
  <1>6. registers' = Put(registers, back.base + function.code[back.at + 1].a, v)
    BY <1>2, <1>4 DEF ReturnToCaller, Put
  <1>7. RegistersFit(registers', arrays, closures)
    BY <1>3, <1>5, <1>6, PutRegister DEF Safe, ValuesInv
  <1>8. frames # <<>>
    BY <1>1, HereInCode
  <1>9. After
    <2>1. UNCHANGED <<program_vars, globals, closures, upvalue_vars>>
      BY <1>1, CodeKeeps
    <2>2. FramesFit(frames', closures)
      BY <1>1, <1>8, FrontFits
    <2>3. QED  BY <1>1, <1>7, <2>1, <2>2, WorkFits DEF Safe, ValuesInv
  <1>10. function' = function
    <2>1. PICK m : m = Len(frames)
      OBVIOUS
    <2>2. /\ m \in Nat \ {0} /\ n <= m /\ DOMAIN frames = 1 .. m
      <3>1. Len(activations) <= Len(frames) /\ Len(frames) \in Nat \ {0}
            /\ DOMAIN frames = 1 .. Len(frames)
        BY <1>1, InCode DEF Safe
      <3>2. QED  BY <1>2, <2>1, <3>1
    <2>3. Len(frames') = m - 1 /\ m - 1 \in Nat \ {0} /\ frames'[m - 1] = frames[m - 1]
      <3>1. IsSequence(frames) /\ frames # <<>>
        BY <1>8 DEF Safe, FramesInv, StackInv
      <3>2. /\ Len(frames') = m - 1
            /\ \A i \in 1 .. m - 1 : frames'[i] = frames[i]
        BY <1>1, <2>1, <3>1, Popped
      <3>3. m - 1 \in 1 .. m - 1 /\ m - 1 \in Nat \ {0}
        BY <1>3, <2>2
      <3>4. QED  BY <3>2, <3>3
    <2>4. frame' = frames[m - 1]
      BY <2>3 DEF frame, Last
    <2>5. closures[frames[m - 1].closure].function = closure.function
      <3>1. n - 1 \in DOMAIN activations /\ m - n + (n - 1) = m - 1
        BY <1>3, <2>2
      <3>2. QED  BY <1>2, <2>1, <3>1 DEF Safe, FramesInv, ActivationsMatchFrames
    <2>6. closures' = closures /\ functions' = functions
      BY <1>1, MachineKeeps
    <2>7. QED  BY <2>4, <2>5, <2>6 DEF closure, function
  <1>11. ActivationsFit(activations', function)
    <2>1. PICK older, oldest, e : /\ older = Front(activations) /\ oldest = Front(older)
                                  /\ e = [back EXCEPT !.at = @ + 1]
      OBVIOUS
    <2>2. activations' = Pushed(oldest, e)
      BY <1>2, <2>1 DEF ReturnToCaller, Pushed
    <2>3. /\ IsSequence(older) /\ Len(older) = n - 1 /\ older # <<>>
          /\ \A i \in 1 .. n - 1 : older[i] = activations[i]
      <3>1. IsSequence(activations) /\ activations # <<>>
        BY <1>1 DEF Safe, FramesInv, StackInv, InMachineCode
      <3>2. /\ IsSequence(older) /\ Len(older) = n - 1
            /\ \A i \in 1 .. n - 1 : older[i] = activations[i]
        BY <1>2, <2>1, <3>1, Popped
      <3>3. older # <<>>
        BY <1>3, <3>2, Empty
      <3>4. QED  BY <3>2, <3>3
    <2>4. /\ IsSequence(oldest) /\ Len(oldest) = n - 2
          /\ \A i \in 1 .. n - 2 : oldest[i] = activations[i]
      <3>1. /\ IsSequence(oldest) /\ Len(oldest) = Len(older) - 1
            /\ \A i \in 1 .. Len(older) - 1 : oldest[i] = older[i]
        BY ONLY <2>1, <2>3, Popped
      <3>2. Len(older) - 1 = n - 2 /\ \A i \in 1 .. n - 2 : i \in 1 .. n - 1
        BY <1>3, <2>3
      <3>3. QED  BY <2>3, <3>1, <3>2
    <2>5. /\ DOMAIN activations' = 1 .. n - 1 /\ activations'[n - 1] = e
          /\ \A i \in 1 .. n - 2 : activations'[i] = activations[i]
      <3>1. /\ Len(activations') = Len(oldest) + 1
            /\ DOMAIN activations' = 1 .. Len(oldest) + 1
            /\ activations'[Len(activations')] = e
            /\ \A i \in 1 .. Len(oldest) : activations'[i] = oldest[i]
        BY ONLY <2>2, <2>4, Appended
      <3>2. Len(oldest) + 1 = n - 1
        BY <1>3, <2>4
      <3>3. QED  BY <2>4, <3>1, <3>2
    <2>6. e.base = back.base /\ e.at = back.at + 1
      <3>1. IsActivation(back)
        <4>1. n - 1 \in DOMAIN activations
          BY <1>3
        <4>2. QED  BY <1>2, <4>1 DEF Safe, FramesInv, StackInv
      <3>2. QED  BY ONLY <2>1, <3>1 DEF IsActivation
    <2>7. PICK calls_of, less, g : calls_of = activations /\ less = activations' /\ g = function
      OBVIOUS
    <2>8. /\ ActivationsFit(calls_of, g) /\ DOMAIN calls_of = 1 .. n
          /\ DOMAIN less = 1 .. n - 1
          /\ \A i \in 1 .. n - 2 : less[i] = calls_of[i]
          /\ less[n - 1].base = calls_of[n - 1].base
          /\ less[n - 1].at \in Nat /\ less[n - 1].at + 1 \in Starts(g)
      BY <1>1, <1>2, <1>3, <2>5, <2>6, <2>7 DEF Safe, PlacesInv, InMachineCode
    <2>9. ActivationsFit(less, g)
      BY ONLY <1>3, <2>8, OneCallLess
    <2>10. QED  BY <2>7, <2>9
  <1>12. QED  BY <1>9, <1>10, <1>11, PlacesAfter

\* A step of machine code.
LEMMA MachineFits ==
    ASSUME Safe, CompiledInv, LengthsFit, RunMachineCode PROVE After /\ PlacesInv'
  <1>1. CASE ExitToInterpreter
    BY <1>1, ExitFits DEF ExitToInterpreter, Leaving
  <1>2. CASE NestedBailout
    BY <1>2, ExitFits DEF NestedBailout, Leaving
  <1>3. QED
    BY <1>1, <1>2, MachineLoadFits, MachineArithmeticFits, MachineIndexSetFits, MachineJumpFits,
       SelfCallSafe, ReturnToCallerFits DEF RunMachineCode

-----------------------------------------------------------------------------
(* A call from outside.                                                    *)

\* The frame of a function called from outside.
LEMMA FirstFits ==
    ASSUME Safe, NEW callee, callee[2] \in DOMAIN closures,
           1 + CodeOf(callee).frame_size <= RegisterSlots,
           NEW frs, frs = <<NewFrame(callee, 1)>>
    PROVE  FramesFit(frs, closures)
  <1>1. DOMAIN frs = {1} /\ frs[1] = [closure |-> callee[2], pc |-> 0, base |-> 1]
    BY Single DEF NewFrame
  <1>2. closures[callee[2]].function \in DOMAIN functions
    BY DEF Safe, ValuesInv, ClosuresFit, ClosureFits
  <1>3. 1 \in Starts(CodeOf(callee))
    BY <1>2 DEF CodeOf, Safe, WellFormed, FunctionFits
  <1>4. 0 \in Nat /\ 0 + 1 = 1 /\ 1 \in Nat \ {0}
    OBVIOUS
  <1>5. QED  BY <1>1, <1>3, <1>4 DEF FramesFit, FrameFits, CodeOf

\* A call that is possible is that of a function.
LEMMA EntryCallee ==
    ASSUME Safe, EntryError = NoError, NEW callee, callee = globals[Entry]
    PROVE  /\ callee[2] \in DOMAIN closures /\ IsValue(callee, arrays, closures)
           /\ 1 + CodeOf(callee).frame_size <= RegisterSlots
  <1>1. ~Undefined /\ CallError(callee, 0, 1, 0) = NoError
    BY DEF EntryError, undefined_variable, NoError
  <1>2. IsValue(callee, arrays, closures)
    BY <1>1 DEF Undefined, Safe, ValuesInv, GlobalsFit
  <1>3. ~Is("native", callee)
    <2>1. SUFFICES ASSUME Is("native", callee) PROVE FALSE
      OBVIOUS
    <2>2. callee[2] \in DOMAIN Natives
      BY <1>2, <2>1, Contents
    <2>3. Natives[callee[2]] # 0
      BY <2>2 DEF Natives
    <2>4. QED  BY <1>1, <2>1, <2>3 DEF CallError, arity_error, NoError
  <1>4. Is("function", callee) /\ ~(CodeOf(callee).frame_size > RegisterSlots - 1)
    BY <1>1, <1>3 DEF CallError, NoError, NotCallable, StackOverflow, arity_error
  <1>5. callee[2] \in DOMAIN closures
    BY <1>2, <1>4, Contents
  <1>6. CodeOf(callee).frame_size \in Nat
    <2>1. closures[callee[2]].function \in DOMAIN functions
      BY <1>5 DEF Safe, ValuesInv, ClosuresFit, ClosureFits
    <2>2. QED  BY <2>1 DEF CodeOf, Safe, WellFormed, FunctionFits
  <1>7. QED  BY <1>2, <1>4, <1>5, <1>6, RegisterSlotsAssumption

\* A call from outside, in machine code when the function called has it.
LEMMA CallEntryFits == ASSUME Safe, call_entry PROVE After /\ PlacesInv'
  <1>1. /\ call_global /\ activations = <<>>
        /\ UNCHANGED <<program_vars, globals, closures, upvalue_vars>> /\ UNCHANGED arrays
        /\ closures' = closures
    BY DEF call_entry, call_global, Safe, FramesInv, StackInv
  <1>2. FramesInv'
    BY CallEntryMatches DEF Safe
  <1>3. RegistersFit(registers, arrays, closures) /\ ArraysFit(arrays, closures)
    BY DEF Safe, ValuesInv
  <1>4. CASE EntryError # NoError
    <2>1. UNCHANGED <<registers, frames>> /\ status' = "failed"
      BY <1>4 DEF call_entry, call_global
    <2>2. FramesFit(frames', closures)
      BY <2>1 DEF Safe, PlacesInv
    <2>3. After
      BY <1>1, <1>3, <2>1, <2>2, WorkFits
    <2>4. activations' = <<>>
      BY <1>1, <2>1 DEF call_entry, jit_vars
    <2>5. QED  BY <2>3, <2>4, PlacesAfter
  <1>5. CASE EntryError = NoError
    <2>1. PICK callee : callee = globals[Entry]
      OBVIOUS
    <2>2. /\ callee[2] \in DOMAIN closures /\ IsValue(callee, arrays, closures)
          /\ 1 + CodeOf(callee).frame_size <= RegisterSlots
      BY <1>5, <2>1, EntryCallee
    <2>3. /\ registers' = Slide(callee, 1, Put(registers, 0, callee))
          /\ frames' = <<NewFrame(callee, 1)>> /\ status' = "running"
      BY <1>5, <2>1 DEF call_entry, call_global, Put
    <2>4. FramesFit(frames', closures)
      BY <2>2, <2>3, FirstFits
    <2>5. RegistersFit(registers', arrays, closures)
      <3>1. 0 \in Slot
        BY RegisterSlotsAssumption DEF Slot
      <3>2. RegistersFit(Put(registers, 0, callee), arrays, closures)
        BY <1>3, <2>2, <3>1, PutRegister
      <3>3. QED  BY <2>3, <3>2, SlideFits
    <2>6. After
      BY <1>1, <1>3, <2>4, <2>5, WorkFits
    <2>7. IsSequence(frames') /\ frames' # <<>>
      BY <1>2, <2>3 DEF FramesInv, StackInv
    <2>8. PICK f : jit_frame_entry(f, 1)
      BY <2>3 DEF call_entry
    <2>9. QED  BY <2>6, <2>7, <2>8, EntryPlaces
  <1>6. QED  BY <1>4, <1>5

-----------------------------------------------------------------------------
(* What was compiled.                                                      *)

\* What can be compiled can be when more globals are known.
LEMMA WhitelistGrown ==
    ASSUME NEW f, NEW x, NEW S, NEW y, NEW T, x \in S => y \in T, check_whitelist(f, x \in S)
    PROVE  check_whitelist(f, y \in T)
  <1>1. ASSUME NEW w, NEW i, Compiles(f, w, i, x \in S) PROVE Compiles(f, w, i, y \in T)
    <2>1. SelfCallFits(f, x \in S) => SelfCallFits(f, y \in T)
      BY DEF SelfCallFits
    <2>2. QED  BY <1>1, <2>1, Zenon DEF Compiles
  <1>2. QED  BY <1>1 DEF check_whitelist

\* What was compiled could be compiled when more globals are known.
LEMMA StatusGrown ==
    ASSUME NEW statuses, NEW self, NEW names, StatusFits(statuses, self, names),
           NEW names2, names \subseteq names2
    PROVE  StatusFits(statuses, self, names2)
  <1>1. ASSUME NEW f \in DOMAIN functions, statuses[f] = "compiled"
        PROVE  check_whitelist(f, functions[f].name \in names2)
    <2>1. check_whitelist(f, functions[f].name \in names)
      BY <1>1 DEF StatusFits
    <2>2. QED  BY <2>1, WhitelistGrown
  <1>2. QED  BY <1>1 DEF StatusFits

\* A status changed for one function.
LEMMA StatusChanged ==
    ASSUME NEW statuses, NEW self, NEW names, StatusFits(statuses, self, names),
           NEW f, NEW s, s = "compiled" => check_whitelist(f, functions[f].name \in names),
           NEW changed, changed = Put(statuses, f, s)
    PROVE  StatusFits(changed, self, names)
  <1>1. /\ DOMAIN changed = DOMAIN statuses
        /\ \A g \in DOMAIN statuses : changed[g] = IF g = f THEN s ELSE statuses[g]
    BY DEF Put
  <1>2. QED  BY <1>1 DEF StatusFits

\* What counting a call compiles could be compiled.
LEMMA CountedFits ==
    ASSUME CompiledInv, NEW f, NEW counted, counted = jit_count(f)
    PROVE  StatusFits(counted.status, counted.self, DOMAIN globals)
  <1> DEFINE hot == jit_hotness[f] + 1 >= JitThreshold
             knows == functions[f].name \in DOMAIN globals
  <1>1. StatusFits(jit_status, jit_self_global, DOMAIN globals)
    BY DEF CompiledInv
  <1>2. CASE ~Cold(f)
    <2>1. counted.status = jit_status /\ counted.self = jit_self_global
      BY <1>2 DEF jit_count
    <2>2. QED  BY <1>1, <2>1
  <1>3. CASE Cold(f)
    <2>1. /\ counted.status = IF hot THEN Put(jit_status, f, Built(f, knows)) ELSE jit_status
          /\ counted.self = IF hot /\ knows THEN jit_self_global \cup {f} ELSE jit_self_global
      BY <1>3 DEF jit_count, Put
    <2>2. Built(f, knows) = "compiled" => check_whitelist(f, knows)
      BY DEF Built
    <2>3. StatusFits(Put(jit_status, f, Built(f, knows)), jit_self_global, DOMAIN globals)
      BY <1>1, <2>2, StatusChanged
    <2>4. StatusFits(counted.status, jit_self_global, DOMAIN globals)
      BY <1>1, <2>1, <2>3
    <2>5. QED  BY <2>1, <2>4 DEF StatusFits
  <1>4. QED  BY <1>2, <1>3

\* So could what entering a frame compiles.
LEMMA EntryCompiled ==
    ASSUME CompiledInv, NEW f, f \in DOMAIN functions, NEW base, jit_frame_entry(f, base)
    PROVE  StatusFits(jit_status', jit_self_global', DOMAIN globals)
  <1>1. PICK counted : counted = jit_count(f)
    OBVIOUS
  <1>2. StatusFits(counted.status, counted.self, DOMAIN globals)
    BY <1>1, CountedFits
  <1>3. PICK published \in IF Arrives(f, counted) THEN BOOLEAN ELSE {FALSE} :
            /\ jit_self_global' = counted.self
            /\ jit_status' = IF published THEN Put(counted.status, f, "compiled")
                             ELSE counted.status
    BY <1>1, Zenon DEF jit_frame_entry, Put
  <1>4. CASE published
    <2>1. check_whitelist(f, f \in counted.self)
      BY <1>3, <1>4 DEF Arrives
    <2>2. check_whitelist(f, functions[f].name \in DOMAIN globals)
      <3>1. f \in counted.self => functions[f].name \in DOMAIN globals
        BY <1>2 DEF StatusFits
      <3>2. QED  BY <2>1, <3>1, WhitelistGrown
    <2>3. QED  BY <1>2, <1>3, <1>4, <2>2, StatusChanged
  <1>5. QED  BY <1>2, <1>3, <1>4

\* What a step has to show for the compiled functions.
LEMMA CompiledAfter ==
    ASSUME CacheStep, StatusFits(jit_status', jit_self_global', DOMAIN globals)
    PROVE  CompiledInv'
  <1>1. functions' = functions /\ DOMAIN globals \subseteq DOMAIN globals'
    BY DEF CacheStep, program_vars, GlobalsKept
  <1>2. PICK statuses, self, names2 : /\ statuses = jit_status' /\ self = jit_self_global'
                                      /\ names2 = DOMAIN globals'
    OBVIOUS
  <1>3. StatusFits(statuses, self, names2)
    BY <1>1, <1>2, StatusGrown
  <1>4. QED
    BY <1>1, <1>2, <1>3 DEF CompiledInv, StatusFits, check_whitelist, Compiles, SelfCallFits, names_self

\* Every step compiles only what can be compiled.
LEMMA CompiledNext ==
    ASSUME Safe, CompiledInv, [MachineNext]_machine_vars PROVE CompiledInv'
  <1>1. CacheStep
    BY StepKeepsCaches
  <1>2. CASE UNCHANGED <<jit_status, jit_self_global>>
    BY <1>1, <1>2, CompiledAfter DEF CompiledInv
  <1>3. CASE Branch /\ jit_back_edge
    <2>1. PICK counted : counted = jit_count(closure.function)
      OBVIOUS
    <2>2. \/ UNCHANGED <<jit_status, jit_self_global>>
          \/ jit_status' = counted.status /\ jit_self_global' = counted.self
      BY <1>3, <2>1 DEF jit_back_edge
    <2>3. StatusFits(counted.status, counted.self, DOMAIN globals)
      BY <2>1, CountedFits
    <2>4. QED  BY <1>1, <1>2, <2>2, <2>3, CompiledAfter
  <1>4. CASE CallClosure /\ jit_frame_entry(closures[callee_value[2]].function, callee_base)
    <2>1. closures[callee_value[2]].function \in DOMAIN functions
      <3>1. IsValue(callee_value, arrays, closures) /\ Is("function", callee_value)
        BY <1>4, CallHere DEF CallClosure
      <3>2. callee_value[2] \in DOMAIN closures
        BY <3>1, Contents
      <3>3. QED  BY <3>2 DEF Safe, ValuesInv, ClosuresFit, ClosureFits
    <2>2. QED  BY <1>1, <1>4, <2>1, EntryCompiled, CompiledAfter
  <1>5. CASE call_entry
    <2>1. CASE EntryError = NoError
      <3>1. closures[globals[Entry][2]].function \in DOMAIN functions
        <4>1. globals[Entry][2] \in DOMAIN closures
          BY <2>1, EntryCallee
        <4>2. QED  BY <4>1 DEF Safe, ValuesInv, ClosuresFit, ClosureFits
      <3>2. jit_frame_entry(closures[globals[Entry][2]].function, 1)
        BY <1>5, <2>1 DEF call_entry, call_global
      <3>3. QED  BY <1>1, <3>1, <3>2, EntryCompiled, CompiledAfter
    <2>2. CASE EntryError # NoError
      BY <1>2, <1>5, <2>2 DEF call_entry, call_global, jit_vars
    <2>3. QED  BY <2>1, <2>2
  <1>6. CASE RunMachineCode
    <2>1. machine_code_unchanged' = machine_code_unchanged
      BY <1>6 DEF RunMachineCode, MachineLoad, MachineArithmetic, MachineIndexSet, MachineJump, Store,
           SelfCall, ExitToInterpreter, ReturnToCaller, NestedBailout
    <2>2. QED  BY <1>2, <2>1 DEF machine_code_unchanged
  <1>7. CASE Straight /\ UNCHANGED jit_vars
    BY <1>2, <1>7 DEF jit_vars
  <1>8. CASE UNCHANGED machine_vars
    BY <1>2, <1>8 DEF machine_vars, jit_vars
  <1>9. QED  BY <1>3, <1>4, <1>5, <1>6, <1>7, <1>8 DEF MachineNext, Interpret

-----------------------------------------------------------------------------
(* The cells of the inline cache.                                          *)

\* Only Closure makes a closure.
LEMMA FailKeepsClosures == ASSUME NEW m, FAIL(m) PROVE closures' = closures
  BY DEF FAIL, FailAt

\* Writing a register makes no function.
LEMMA SetKeepsClosures == ASSUME NEW v, Set(v) PROVE closures' = closures
  BY DEF Set

\* An effect makes no function.
LEMMA TakeKeepsClosures == ASSUME NEW e, NEW w, Take(e, w) PROVE closures' = closures
  BY DEF Take, FailAt

\* Of the instructions that go on to the next one, only Closure makes functions.
LEMMA StraightKeepsClosures == ASSUME Straight PROVE closures' = closures \/ Closure
  <1>1. CASE Move \/ LoadK \/ LoadNil \/ LoadTrue \/ LoadFalse \/ GetUpvalue
    BY <1>1, SetKeepsClosures
       DEF Move, LoadK, LoadNil, LoadTrue, LoadFalse, GetUpvalue, Load
  <1>2. CASE GetGlobal \/ Array
    BY <1>2, SetKeepsClosures DEF GetGlobal, Array
  <1>3. CASE SetGlobal \/ DefineGlobal
    BY <1>3 DEF SetGlobal, DefineGlobal, StoreGlobal
  <1>4. CASE GlobalFails \/ CallFails
    BY <1>4, FailKeepsClosures DEF GlobalFails, CallFails
  <1>5. CASE Operate
    BY <1>5, TakeKeepsClosures DEF Operate
  <1>6. CASE SetUpvalue \/ ArrayAppend \/ PrintValue \/ Close
    BY <1>6 DEF SetUpvalue, ArrayAppend, PrintValue, Close
  <1>7. CASE CallNativeFunction
    BY <1>7, FailKeepsClosures, SetKeepsClosures DEF CallNativeFunction
  <1>8. CASE Return \/ ReturnNil
    BY <1>8 DEF Return, ReturnNil, ReturnWith
  <1>9. QED  BY <1>1, <1>2, <1>3, <1>4, <1>5, <1>6, <1>7, <1>8 DEF Straight

\* Of all steps, only Closure makes functions.
LEMMA StepKeepsClosures ==
    ASSUME [MachineNext]_machine_vars PROVE closures' = closures \/ Closure
  <1>1. CASE Straight
    BY <1>1, StraightKeepsClosures
  <1>2. CASE Branch
    BY <1>2, TakeKeepsClosures DEF Branch, Jump, Superinstruction
  <1>3. CASE CallClosure
    BY <1>3 DEF CallClosure
  <1>4. CASE RunMachineCode
    <2>1. machine_code_unchanged' = machine_code_unchanged
      BY <1>4 DEF RunMachineCode, MachineLoad, MachineArithmetic, MachineIndexSet, MachineJump, Store,
           SelfCall, ExitToInterpreter, ReturnToCaller, NestedBailout
    <2>2. QED  BY <2>1, MachineKeeps
  <1>5. CASE call_entry
    BY <1>5 DEF call_entry, call_global
  <1>6. CASE UNCHANGED machine_vars
    BY <1>6 DEF machine_vars, machine
  <1>7. QED  BY <1>1, <1>2, <1>3, <1>4, <1>5, <1>6 DEF MachineNext, Interpret

\* The cells of a function stay where they are.
LEMMA CellsKept == ASSUME CacheStep PROVE DOMAIN caches' = DOMAIN caches /\ functions' = functions
  BY DEF CacheStep, FillsCell, Remember, program_vars

\* A closure has cells: the function that made it has its function as a constant.
LEMMA CellsNext ==
    ASSUME Safe, CellsInv, [MachineNext]_machine_vars PROVE CellsInv'
  <1>1. DOMAIN caches' = DOMAIN caches /\ functions' = functions
    BY StepKeepsCaches, CellsKept
  <1>2. \A c \in DOMAIN closures' : closures'[c].function \in DOMAIN caches
    <2>1. CASE closures' = closures
      BY <2>1 DEF CellsInv
    <2>2. CASE Closure
      <3>1. frames # <<>> /\ unfused_op(insn) = "Closure"
        BY <2>2, Plain, FusedNamesAre DEF Closure, FusedNames
      <3>2. PICK made, words : /\ made = K(insn.b)[2]
                               /\ words = SubSeq(function.code, frame.pc + 2,
                                                 frame.pc + 1 + Len(functions[made].upvalues))
        OBVIOUS
      <3>3. /\ made \in DOMAIN functions /\ Is("code", K(insn.b))
            /\ insn.b + 1 \in DOMAIN function.constants
        BY <3>1, <3>2, WordsHere
      <3>4. closure.function \in DOMAIN caches
        BY <3>1, Here DEF CellsInv, closure
      <3>5. K(insn.b) \in Range(function.constants)
        BY <3>3 DEF K, Range
      <3>6. made \in DOMAIN caches
        BY <3>2, <3>3, <3>4, <3>5 DEF CellsInv, function
      <3>7. PICK new : new = ClosureOf(made, Captured(words).captured)
        OBVIOUS
      <3>8. closures' = Pushed(closures, new)
        BY <2>2, <3>2, <3>7 DEF Closure, Pushed, ClosureOf
      <3>9. new.function = made
        BY <3>7 DEF ClosureOf
      <3>10. IsSequence(closures)
        BY DEF Safe, ValuesInv, ClosuresFit
      <3>11. PICK clos, clos2 : clos = closures /\ clos2 = closures'
        OBVIOUS
      <3>12. /\ Len(clos) \in Nat /\ DOMAIN clos = 1 .. Len(clos)
             /\ DOMAIN clos2 = 1 .. Len(clos) + 1
             /\ clos2[Len(clos) + 1] = new
             /\ \A i \in 1 .. Len(clos) : clos2[i] = clos[i]
        <4>1. IsSequence(clos) /\ clos2 = Pushed(clos, new)
          BY <3>8, <3>10, <3>11
        <4>2. /\ IsSequence(clos2) /\ Len(clos2) = Len(clos) + 1 /\ Len(clos) \in Nat
              /\ DOMAIN clos = 1 .. Len(clos) /\ DOMAIN clos2 = 1 .. Len(clos) + 1
              /\ clos2[Len(clos2)] = new
              /\ \A i \in 1 .. Len(clos) : clos2[i] = clos[i]
          BY ONLY <4>1, Appended
        <4>3. QED  BY <4>2
      <3>13. ASSUME NEW c \in 1 .. Len(clos) + 1 PROVE clos2[c].function \in DOMAIN caches
        <4>1. c \in 1 .. Len(clos) \/ c = Len(clos) + 1
          BY <3>12
        <4>2. QED  BY <3>6, <3>9, <3>11, <3>12, <4>1 DEF CellsInv
      <3>14. QED  BY <3>11, <3>12, <3>13
    <2>3. QED  BY <2>1, <2>2, StepKeepsClosures
  <1>3. QED  BY <1>1, <1>2 DEF CellsInv

-----------------------------------------------------------------------------
(* The machine stays inside its code and its windows.                      *)

\* A machine that is to run the script.
LEMMA ValuesInit == MachineInit => ValuesInv
  <1> SUFFICES ASSUME MachineInit PROVE ValuesInv
    OBVIOUS
  <1>1. /\ WellFormed(functions) /\ arrays = <<>> /\ upvalues = <<>> /\ open_upvalues = <<>>
        /\ globals = [x \in DOMAIN Natives |-> NativeRef(x)]
        /\ registers = [s \in Slot |-> IF s = 0 THEN FunctionRef(1) ELSE Nil]
        /\ closures = <<[function |-> Len(functions), upvalues |-> <<>>]>>
    BY DEF MachineInit, run
  <1>2. /\ IsSequence(closures) /\ DOMAIN closures = {1}
        /\ closures[1] = [function |-> Len(functions), upvalues |-> <<>>]
    BY <1>1, Single
  <1>3. Len(functions) \in DOMAIN functions /\ functions[Len(functions)].upvalues = <<>>
    <2>1. IsSequence(functions) /\ functions # <<>>
      BY <1>1 DEF WellFormed, IsSequence
    <2>2. Len(functions) \in Nat \ {0} /\ DOMAIN functions = 1 .. Len(functions)
      BY <2>1 DEF IsSequence
    <2>3. QED  BY <1>1, <2>2 DEF WellFormed, ScriptFits
  <1>4. RegistersFit(registers, arrays, closures)
    <2>1. IsValue(Nil, arrays, closures)
      BY Scalars, ScalarIsValue
    <2>2. IsValue(FunctionRef(1), arrays, closures)
      BY <1>2 DEF IsValue, FunctionRef
    <2>3. QED  BY <1>1, <2>1, <2>2 DEF RegistersFit
  <1>5. GlobalsFit(globals, arrays, closures)
    BY <1>1 DEF GlobalsFit, IsValue, NativeRef
  <1>6. ArraysFit(arrays, closures) /\ UpvaluesFit(upvalues, open_upvalues, arrays, closures)
    BY <1>1, Empty DEF ArraysFit, UpvaluesFit
  <1>7. ClosuresFit(closures, upvalues)
    BY <1>2, <1>3, Empty DEF ClosuresFit, ClosureFits
  <1>8. QED  BY <1>4, <1>5, <1>6, <1>7 DEF ValuesInv

\* A machine that is to run the script has one frame, at its first word, and no calls
\* in machine code.
LEMMA PlacesInit == MachineInit => PlacesInv
  <1> SUFFICES ASSUME MachineInit PROVE PlacesInv
    OBVIOUS
  <1>1. /\ WellFormed(functions) /\ activations = <<>>
        /\ closures = <<[function |-> Len(functions), upvalues |-> <<>>]>>
        /\ frames = <<[closure |-> 1, pc |-> 0, base |-> 1]>>
    BY DEF MachineInit, run, attach_jit
  <1>2. /\ DOMAIN closures = {1} /\ closures[1].function = Len(functions)
        /\ DOMAIN frames = {1} /\ frames[1] = [closure |-> 1, pc |-> 0, base |-> 1]
    BY <1>1, Single
  <1>3. PICK g : g = functions[Len(functions)]
    OBVIOUS
  <1>4. 1 \in Starts(g) /\ 1 + g.frame_size <= RegisterSlots
    <2>1. IsSequence(functions) /\ functions # <<>>
      BY <1>1 DEF WellFormed, IsSequence
    <2>2. Len(functions) \in DOMAIN functions
      BY <2>1 DEF IsSequence
    <2>3. QED  BY <1>1, <1>3, <2>2 DEF WellFormed, FunctionFits, ScriptFits
  <1>5. 0 \in Nat /\ 0 + 1 = 1 /\ 1 \in Nat \ {0}
    OBVIOUS
  <1>6. QED  BY <1>1, <1>2, <1>3, <1>4, <1>5 DEF PlacesInv, FramesFit, FrameFits

\* The functions that get cells: the script and, of each, those among its constants.
LEMMA CellsInit == MachineInit /\ inline_cache => CellsInv
  <1> SUFFICES ASSUME MachineInit, inline_cache PROVE CellsInv
    OBVIOUS
  <1>1. PICK script : script = Len(functions)
    OBVIOUS
  <1>2. /\ DOMAIN caches = Nested(script, functions)
        /\ closures = <<[function |-> script, upvalues |-> <<>>]>>
        /\ WellFormed(functions)
    BY <1>1 DEF MachineInit, run, attach_global_caches
  <1>3. script \in DOMAIN functions
    <2>1. IsSequence(functions) /\ functions # <<>>
      BY <1>2 DEF WellFormed, IsSequence
    <2>2. QED  BY <1>1, <2>1 DEF IsSequence
  <1>4. script \in Nested(script, functions)
    BY <1>3 DEF Nested
  <1>5. ASSUME NEW f \in Nested(script, functions), NEW v \in Range(functions[f].constants),
               Is("code", v), v[2] \in DOMAIN functions
        PROVE  v[2] \in Nested(script, functions)
    <2>1. v \in ToSet(functions[f].constants)
      BY DEF ToSet, Range
    <2>2. QED  BY <1>5, <2>1 DEF Nested
  <1>6. DOMAIN closures = {1} /\ closures[1].function = script
    BY <1>2, Single
  <1>7. QED  BY <1>2, <1>4, <1>5, <1>6 DEF CellsInv

\* At first nothing was compiled.
LEMMA CompiledInit == MachineInit => CompiledInv
  BY DEF MachineInit, attach_jit, CompiledInv, StatusFits

\* The inductive invariant.
SafeInv == Safe /\ CompiledInv /\ inline_cache \in BOOLEAN

\* The invariant holds at first.
LEMMA SafeInit == MachineInit => SafeInv
  BY CacheInit, FramesInit, ValuesInit, PlacesInit, CellsInit, CompiledInit
     DEF SafeInv, Safe, MachineInit

\* Every step keeps the invariant while lengths are small.
LEMMA SafeNext == SafeInv /\ LengthsFit /\ [MachineNext]_machine_vars => SafeInv'
  <1> SUFFICES ASSUME SafeInv, LengthsFit, [MachineNext]_machine_vars PROVE SafeInv'
    OBVIOUS
  <1>1. Safe /\ CompiledInv /\ inline_cache \in BOOLEAN
    BY DEF SafeInv
  <1>2. CacheStep /\ CacheInv' /\ FramesInv' /\ CompiledInv'
    BY <1>1, StepKeepsCaches, CacheNext, FramesNext, CompiledNext DEF Safe
  <1>3. functions' = functions /\ inline_cache' = inline_cache
    BY <1>2 DEF CacheStep, program_vars
  <1>4. inline_cache' => CellsInv'
    BY <1>1, <1>3, CellsNext DEF Safe
  <1>5. ValuesInv' /\ PlacesInv'
    <2>1. CASE MachineNext
      <3>1. After /\ PlacesInv'
        BY <1>1, <2>1, InterpretFits, MachineFits, CallEntryFits DEF MachineNext
      <3>2. QED  BY <3>1, ValuesNext DEF After
    <2>2. CASE UNCHANGED machine_vars
      <3>1. /\ registers' = registers /\ globals' = globals /\ arrays' = arrays
            /\ upvalues' = upvalues /\ open_upvalues' = open_upvalues /\ closures' = closures
            /\ frames' = frames /\ activations' = activations
        BY <2>2 DEF machine_vars, machine, jit_vars
      <3>2. /\ ClosuresFit(closures, upvalues) => ClosuresFit(closures, upvalues)'
            /\ FramesFit(frames, closures) => FramesFit(frames, closures)'
            /\ function' = function
        BY <1>3, <3>1 DEF ClosuresFit, ClosureFits, FramesFit, FrameFits, function, closure, frame
      <3>3. ValuesInv'
        BY <1>1, <3>1, <3>2
           DEF Safe, ValuesInv, RegistersFit, GlobalsFit, ArraysFit, UpvaluesFit, UpvalueFits, IsValue
      <3>4. PlacesInv'
        BY <1>1, <3>1, <3>2 DEF Safe, PlacesInv, ActivationsFit
      <3>5. QED  BY <3>3, <3>4
    <2>3. QED  BY <2>1, <2>2
  <1>6. WellFormed(functions)'
    BY <1>1, <1>2 DEF CacheInv
  <1>7. QED  BY <1>1, <1>2, <1>3, <1>4, <1>5, <1>6 DEF SafeInv, Safe

\* The invariant keeps the machine inside its code and its windows.
LEMMA SafeInside == SafeInv => InsideWindow
  <1> SUFFICES ASSUME Safe, status = "running" PROVE
          /\ frame.pc < Len(function.code) /\ StaysInside(insn)
          /\ frame.base + function.frame_size <= RegisterSlots
          /\ InMachineCode => activation.at < Len(function.code) /\ StaysInside(word)
    BY DEF SafeInv, InsideWindow
  <1>1. ASSUME NEW pc \in Nat, pc + 1 \in Starts(function), FunctionFits(function, functions)
        PROVE  pc < Len(function.code) /\ StaysInside(function.code[pc + 1])
    <2>1. pc + 1 <= Len(function.code) /\ Len(function.code) \in Nat
      BY <1>1, PositionType
    <2>2. PICK n \in Nat : n = Len(function.code)
      BY <2>1
    <2>3. pc < n
      BY ONLY <2>1, <2>2, pc \in Nat
    <2>4. OperandsFit(function, pc + 1, functions)
      BY <1>1 DEF FunctionFits
    <2>5. QED  BY <2>2, <2>3, <2>4 DEF OperandsFit, StaysInside
  <1>2. frames # <<>>
    BY DEF Safe, FramesInv, StackInv
  <1>3. /\ FunctionFits(function, functions) /\ frame.pc \in Nat
        /\ frame.pc + 1 \in Starts(function)
        /\ frame.base + function.frame_size <= RegisterSlots
    BY <1>2, Here
  <1>4. frame.pc < Len(function.code) /\ StaysInside(insn)
    BY <1>1, <1>3 DEF insn
  <1>5. ASSUME InMachineCode
        PROVE  activation.at < Len(function.code) /\ StaysInside(word)
    <2>1. /\ activation.at \in Nat /\ activation.at + 1 \in Starts(function)
          /\ word = function.code[activation.at + 1]
      BY <1>5, HereInCode
    <2>2. QED  BY <1>1, <1>3, <2>1
  <1>6. QED  BY <1>3, <1>4, <1>5

\* The machine never leaves its code and only names registers inside the window
\* of the running function.
THEOREM StaysInWindow == MachineSpec /\ []LengthsFit => []InsideWindow
  <1>1. QED  BY SafeInit, SafeNext, SafeInside, PTL DEF MachineSpec

-----------------------------------------------------------------------------
(* The interpreter without a JIT: its own instructions.                    *)

\* The interpreter is where the machine is.
LEMMA SameNow ==
    ASSUME Interpreted = frames
    PROVE  /\ Interpreter!frame = frame /\ Interpreter!closure = closure
           /\ Interpreter!function = function /\ Interpreter!insn = insn
           /\ \A i : Interpreter!K(i) = K(i) /\ Interpreter!R(i) = R(i)
           /\ \A const, i, regs : Interpreter!RK(const, i, regs) = RK(const, i, regs)
  <1>1. Interpreter!frame = frame
    BY DEF Interpreter!frame, frame, Interpreter!Last, Last
  <1>2. Interpreter!closure = closure
    BY <1>1 DEF Interpreter!closure, closure
  <1>3. Interpreter!function = function
    BY <1>2 DEF Interpreter!function, function
  <1>4. Interpreter!insn = insn
    BY <1>1, <1>3 DEF Interpreter!insn, insn
  <1>5. \A i : Interpreter!K(i) = K(i) /\ Interpreter!R(i) = R(i)
    BY <1>1, <1>3 DEF Interpreter!K, K, Interpreter!R, R
  <1>6. \A const, i, regs : Interpreter!RK(const, i, regs) = RK(const, i, regs)
    BY <1>1, <1>5 DEF Interpreter!RK, RK
  <1>7. QED  BY <1>1, <1>2, <1>3, <1>4, <1>5, <1>6

\* No machine code runs before the step or after it.
AsOne == Interpreted = frames /\ Interpreted' = frames'

\* Values that do not depend on the state.
LEMMA SameConstants ==
    /\ Interpreter!Nil = Nil /\ Interpreter!True = True /\ Interpreter!False = False
    /\ Interpreter!NoError = NoError /\ Interpreter!ClosedUpvalue = ClosedUpvalue
    /\ Interpreter!Slot = Slot
    /\ Interpreter!Arithmetic = Arithmetic /\ Interpreter!Unaries = Unaries
    /\ Interpreter!Jumps = Jumps
  BY DEF Interpreter!Nil, Nil, Interpreter!True, True, Interpreter!False, False,
         Interpreter!make_bool, make_bool, Interpreter!NoError, NoError,
         Interpreter!ClosedUpvalue, ClosedUpvalue, Interpreter!Slot, Slot,
         Interpreter!Arithmetic, Arithmetic, Interpreter!Unaries, Unaries,
         Interpreter!Jumps, Jumps

\* Ends of instructions.
LEMMA SameDispatch ==
    ASSUME AsOne, NEW op
    PROVE  Dispatch(op) <=> Interpreter!Dispatch(op)
  BY SameNow DEF AsOne, Dispatch, Interpreter!Dispatch

\* The interpreter goes on at the same word.
LEMMA SameContinue ==
    ASSUME AsOne, NEW words, Continue(words)
    PROVE  Interpreter!Continue(words)
  BY DEF AsOne, Continue, Interpreter!Continue

\* What the machine leaves alone, the interpreter does.
LEMMA SameVariables ==
    /\ UNCHANGED program_vars => UNCHANGED Interpreter!program_vars
    /\ UNCHANGED run_vars => UNCHANGED Interpreter!run_vars
    /\ UNCHANGED upvalue_vars => UNCHANGED Interpreter!upvalue_vars
  BY DEF program_vars, Interpreter!program_vars, run_vars, Interpreter!run_vars,
         upvalue_vars, Interpreter!upvalue_vars

\* Writing a register is the same for both.
LEMMA SameSet ==
    ASSUME AsOne, NEW v, Set(v)
    PROVE  Interpreter!Set(v)
  BY SameNow, SameContinue, SameVariables DEF AsOne, Set, Interpreter!Set

\* So is an instruction that writes a value to a register.
LEMMA SameLoad ==
    ASSUME AsOne, NEW op, NEW v, Load(op, v)
    PROVE  Interpreter!Load(op, v)
  BY SameDispatch, SameSet DEF Load, Interpreter!Load

\* So is the closing of upvalues.
LEMMA SameClosing ==
    ASSUME NEW last, NEW regs, close_upvalues(last, regs)
    PROVE  Interpreter!close_upvalues(last, regs)
  BY DEF close_upvalues, Interpreter!close_upvalues, Closing, Interpreter!Closing,
         Leading, Interpreter!Leading, Walked, Interpreter!Walked, location, Interpreter!location,
         ClosedUpvalue, Interpreter!ClosedUpvalue, Interpreter!Cardinality, Cardinality

\* So is an error.
LEMMA SameFailure ==
    ASSUME AsOne, NEW message, NEW words, NEW regs, FailAt(message, words, regs)
    PROVE  Interpreter!FailAt(message, words, regs)
  BY SameNow, SameClosing, SameVariables, SameConstants DEF AsOne, FailAt, Interpreter!FailAt

\* So is an error in the first word of an instruction.
LEMMA SameFAIL ==
    ASSUME AsOne, NEW message, FAIL(message)
    PROVE  Interpreter!FAIL(message)
  BY SameFailure DEF FAIL, Interpreter!FAIL

\* So is taking an effect.
LEMMA SameTake ==
    ASSUME AsOne, NEW effect, NEW words, Take(effect, words)
    PROVE  Interpreter!Take(effect, words)
  BY SameFailure, SameContinue, SameVariables, SameConstants DEF Take, Interpreter!Take

\* Loads and moves are the interpreter's.
LEMMA LoadsActAlike ==
    ASSUME AsOne, Move \/ LoadK \/ LoadNil \/ LoadTrue \/ LoadFalse
    PROVE  Interpreter!Straight
  BY SameNow, SameLoad, SameConstants
     DEF AsOne, Move, LoadK, LoadNil, LoadTrue, LoadFalse, Interpreter!Move, Interpreter!LoadK,
         Interpreter!LoadNil, Interpreter!LoadTrue, Interpreter!LoadFalse, Interpreter!Straight

\* With the cache, an access reaches the global that it reaches without it.
LEMMA SameGlobal ==
    ASSUME AsOne, Safe, frames # <<>>, inline_cache \in BOOLEAN
    PROVE  /\ Interpreter!GlobalName = GlobalName
           /\ Interpreter!found <=> found
  <1>1. /\ Interpreter!GlobalName = K(insn.b)[2]
        /\ Interpreter!found <=> K(insn.b)[2] \in DOMAIN globals
    BY SameNow DEF AsOne, Interpreter!GlobalName, Interpreter!found
  <1>2. CASE ~(inline_cache /\ cache_slot # NoName)
    BY <1>1, <1>2 DEF GlobalName, found
  <1>3. CASE inline_cache /\ cache_slot # NoName
    <2>1. frame.closure \in DOMAIN closures /\ frame.pc + 1 \in Starts(function)
      BY Here
    <2>2. closure.function \in DOMAIN caches
      BY <1>3, <2>1 DEF Safe, CellsInv, closure
    <2>3. frame.pc + 1 \in DOMAIN caches[closure.function]
      BY <2>1, <2>2 DEF Safe, CacheInv, Starts, function
    <2>4. cache_slot \in DOMAIN globals /\ Str(cache_slot) = K(insn.b)
      BY <1>3, <2>2, <2>3 DEF cache_slot, Safe, CacheInv, CacheNeverStale, K, insn, function
    <2>5. QED  BY <1>1, <1>3, <2>4 DEF GlobalName, found, Str
  <1>4. QED  BY <1>2, <1>3

\* Writing a global is the same for both.
LEMMA SameStore ==
    ASSUME AsOne, NEW name, StoreGlobal(name)
    PROVE  Interpreter!StoreGlobal(name)
  BY SameNow, SameContinue, SameVariables DEF AsOne, StoreGlobal, Interpreter!StoreGlobal

\* An access to a global is the one of an interpreter without an inline cache.
LEMMA GlobalsActAlike ==
    ASSUME AsOne, Safe, frames # <<>>, inline_cache \in BOOLEAN,
           GetGlobal \/ SetGlobal \/ DefineGlobal \/ GlobalFails
    PROVE  Interpreter!Straight
  <1>1. Interpreter!Remember
    BY DEF Interpreter!Remember
  <1>2. CASE GetGlobal
    <2>1. Interpreter!GetGlobal
      BY <1>1, <1>2, SameGlobal, SameDispatch, SameSet DEF GetGlobal, Interpreter!GetGlobal
    <2>2. QED  BY <2>1 DEF Interpreter!Straight
  <1>3. CASE SetGlobal
    <2>1. Interpreter!SetGlobal
      BY <1>1, <1>3, SameGlobal, SameDispatch, SameStore DEF SetGlobal, Interpreter!SetGlobal
    <2>2. QED  BY <2>1 DEF Interpreter!Straight
  <1>4. CASE DefineGlobal
    <2>1. Interpreter!DefineGlobal
      BY <1>4, SameNow, SameDispatch, SameStore
         DEF AsOne, DefineGlobal, Interpreter!DefineGlobal
    <2>2. QED  BY <2>1 DEF Interpreter!Straight
  <1>5. CASE GlobalFails
    <2>1. Interpreter!GlobalFails
      BY <1>5, SameGlobal, SameDispatch, SameFAIL
         DEF GlobalFails, Interpreter!GlobalFails, undefined_variable,
             Interpreter!undefined_variable
    <2>2. QED  BY <2>1 DEF Interpreter!Straight
  <1>6. QED  BY <1>2, <1>3, <1>4, <1>5

\* An access to an upvalue is the interpreter's.
LEMMA UpvaluesActAlike ==
    ASSUME AsOne, GetUpvalue \/ SetUpvalue
    PROVE  Interpreter!Straight
  <1>1. CASE GetUpvalue
    <2>1. Interpreter!GetUpvalue
      BY <1>1, SameNow, SameLoad, SameConstants
         DEF AsOne, GetUpvalue, Interpreter!GetUpvalue, UpvalueContents,
             Interpreter!UpvalueContents, location, Interpreter!location
    <2>2. QED  BY <2>1 DEF Interpreter!Straight
  <1>2. CASE SetUpvalue
    <2>1. Interpreter!SetUpvalue
      BY <1>2, SameNow, SameDispatch, SameContinue, SameVariables, SameConstants
         DEF AsOne, SetUpvalue, Interpreter!SetUpvalue, location, Interpreter!location
    <2>2. QED  BY <2>1 DEF Interpreter!Straight
  <1>3. QED  BY <1>1, <1>2

\* Operations do not depend on the state.
LEMMA SameOperations ==
    /\ \A op, x, y : Interpreter!BinaryOperation(op, x, y) = BinaryOperation(op, x, y)
    /\ \A op, x : Interpreter!UnaryOperation(op, x) = UnaryOperation(op, x)
    /\ \A arrs, array, index :
          /\ Interpreter!resolve_index(arrs, array, index) = resolve_index(arrs, array, index)
          /\ Interpreter!array_get(arrs, array, index) = array_get(arrs, array, index)
    /\ \A arrs, array, index, v :
          Interpreter!array_set(arrs, array, index, v) = array_set(arrs, array, index, v)
    /\ \A x : Interpreter!is_truthy(x) <=> is_truthy(x)
  <1> USE DEF Interpreter!Ok, Ok, Interpreter!Error, Error, Interpreter!make_bool, make_bool,
              Interpreter!make_int, make_int, Interpreter!Str, Str, Interpreter!Is, Is,
              Interpreter!Nil, Nil, Interpreter!NoError, NoError, Interpreter!is_truthy, is_truthy,
              Interpreter!False, False, Interpreter!Wrap, Wrap, Interpreter!Half, Half
  <1>1. ASSUME NEW op, NEW x, NEW y
        PROVE  Interpreter!BinaryOperation(op, x, y) = BinaryOperation(op, x, y)
    BY DEF Interpreter!BinaryOperation, BinaryOperation, Interpreter!op_add, op_add,
           Interpreter!op_sub, op_sub, Interpreter!op_mul, op_mul, Interpreter!op_div, op_div,
           Interpreter!op_mod, op_mod, Interpreter!NumericCompare, NumericCompare,
           Interpreter!NumericBinary, NumericBinary, Interpreter!Truncated, Truncated,
           Interpreter!Magnitude, Magnitude, Interpreter!values_equal, values_equal
  <1>2. ASSUME NEW op, NEW x
        PROVE  Interpreter!UnaryOperation(op, x) = UnaryOperation(op, x)
    BY DEF Interpreter!UnaryOperation, UnaryOperation, Interpreter!op_not, op_not,
           Interpreter!op_negate, op_negate
  <1>3. ASSUME NEW arrs, NEW array, NEW index
        PROVE  /\ Interpreter!resolve_index(arrs, array, index) = resolve_index(arrs, array, index)
               /\ Interpreter!array_get(arrs, array, index) = array_get(arrs, array, index)
    BY DEF Interpreter!resolve_index, resolve_index, Interpreter!array_get, array_get
  <1>4. ASSUME NEW arrs, NEW array, NEW index, NEW v
        PROVE  Interpreter!array_set(arrs, array, index, v) = array_set(arrs, array, index, v)
    BY DEF Interpreter!array_set, array_set
  <1>5. ASSUME NEW x PROVE Interpreter!is_truthy(x) <=> is_truthy(x)
    OBVIOUS
  <1>6. QED  BY <1>1, <1>2, <1>3, <1>4, <1>5

\* A checked operation has the same effect for both.
LEMMA SameChecked ==
    ASSUME AsOne, NEW i, NEW operation, NEW effect
    PROVE  Interpreter!Checked(i, operation, effect) = Checked(i, operation, effect)
  BY SameNow, SameConstants DEF AsOne, Interpreter!Checked, Checked

\* An instruction has the same effect for both.
LEMMA SameBody ==
    ASSUME AsOne, NEW op, NEW i, NEW effect
    PROVE  Interpreter!Body(op, i, effect) = Body(op, i, effect)
  <1>1. \A array, index, v :
           Interpreter!BodyIndexSet(array, index, v, effect) = BodyIndexSet(array, index, v, effect)
    BY SameOperations, SameConstants DEF Interpreter!BodyIndexSet, BodyIndexSet
  <1>2. Interpreter!frame = frame
    BY SameNow DEF AsOne
  <1>3. \A const, k, regs : Interpreter!RK(const, k, regs) = RK(const, k, regs)
    BY SameNow DEF AsOne
  <1>4. QED  BY <1>1, <1>2, <1>3, SameOperations, SameChecked, SameConstants
             DEF Interpreter!Body, Body

\* Operations and jumps are the interpreter's.
LEMMA OperationsActAlike ==
    ASSUME AsOne, Operate \/ Jump
    PROVE  Interpreter!Step
  <1>1. Interpreter!Body(insn.op, insn, Interpreter!NoEffect) = Body(insn.op, insn, NoEffect)
    BY SameBody, SameConstants DEF NoEffect, Interpreter!NoEffect
  <1>2. Interpreter!insn = insn
    BY SameNow DEF AsOne
  <1>3. CASE Operate
    <2>1. Interpreter!Operate
      BY <1>1, <1>2, <1>3, SameDispatch, SameTake, SameConstants DEF Operate, Interpreter!Operate
    <2>2. QED  BY <2>1 DEF Interpreter!Step, Interpreter!Straight
  <1>4. CASE Jump
    <2>1. Interpreter!Jump
      BY <1>1, <1>2, <1>4, SameDispatch, SameTake, SameConstants DEF Jump, Interpreter!Jump
    <2>2. QED  BY <2>1 DEF Interpreter!Step, Interpreter!Branch
  <1>5. QED  BY <1>3, <1>4

\* A word captures the same for both.
LEMMA SameCapture ==
    ASSUME AsOne, NEW w, NEW s
    PROVE  Interpreter!capture(w, s) = capture(w, s)
  <1>1. \A slot : Interpreter!capture_upvalue(slot, s) = capture_upvalue(slot, s)
    BY SameConstants DEF Interpreter!capture_upvalue, capture_upvalue, Interpreter!Walked, Walked,
       Interpreter!Leading, Leading, Interpreter!Cardinality, Cardinality, Interpreter!InsertAt, InsertAt
  <1>2. QED  BY <1>1, SameNow DEF AsOne, Interpreter!capture, capture

\* So do all words of a Closure.
LEMMA SameCaptured ==
    ASSUME AsOne, NEW words
    PROVE  Interpreter!Captured(words) = Captured(words)
  <1>1. \A w, s : Interpreter!capture(w, s) = capture(w, s)
    BY SameCapture
  <1>2. Interpreter!NothingCaptured = NothingCaptured
    BY DEF Interpreter!NothingCaptured, NothingCaptured
  <1>3. QED BY <1>1, <1>2 DEF Interpreter!Captured, Captured

\* Consecutive registers are the same for both.
LEMMA SameWindow ==
    ASSUME AsOne, NEW first, NEW count
    PROVE  Interpreter!Window(first, count) = Window(first, count)
  BY SameNow DEF AsOne, Interpreter!Window, Window

\* Arrays are made and grown as the interpreter does.
LEMMA ArraysActAlike ==
    ASSUME AsOne, Array \/ ArrayAppend
    PROVE  Interpreter!Straight
  <1>1. CASE Array
    <2>1. Interpreter!Array
      BY <1>1, SameNow, SameDispatch, SameSet, SameWindow
         DEF AsOne, Array, Interpreter!Array, ArrayRef, Interpreter!ArrayRef
    <2>2. QED  BY <2>1 DEF Interpreter!Straight
  <1>2. CASE ArrayAppend
    <2>1. Interpreter!ArrayAppend
      BY <1>2, SameNow, SameDispatch, SameContinue, SameWindow, SameVariables
         DEF AsOne, ArrayAppend, Interpreter!ArrayAppend
    <2>2. QED  BY <2>1 DEF Interpreter!Straight
  <1>3. QED  BY <1>1, <1>2

\* What is printed does not depend on the state.
LEMMA SamePrint ==
    ASSUME NEW v, NEW arrs, NEW names
    PROVE  Interpreter!print_value(v, arrs, names) = print_value(v, arrs, names)
  BY DEF Interpreter!print_value, print_value, Interpreter!PrintScalar, PrintScalar,
         Interpreter!Piece, Piece, Interpreter!Is, Is, Interpreter!FoldLeft, FoldLeft,
         Interpreter!MapThenFoldSet, MapThenFoldSet, Interpreter!Max, Max

\* A value is printed as the interpreter does.
LEMMA PrintActsAlike ==
    ASSUME AsOne, PrintValue
    PROVE  Interpreter!Straight
  <1>1. Interpreter!Names = Names
    BY DEF Interpreter!Names, Names
  <1>2. Interpreter!PrintValue
    BY <1>1, SameNow, SameDispatch, SameContinue, SamePrint, SameVariables
       DEF AsOne, PrintValue, Interpreter!PrintValue
  <1>3. QED  BY <1>2 DEF Interpreter!Straight

\* Functions are made, and variables closed, as the interpreter does.
LEMMA ClosuresActAlike ==
    ASSUME AsOne, Closure \/ Close
    PROVE  Interpreter!Straight
  <1>1. CASE Closure
    <2>1. Interpreter!Closure
      BY <1>1, SameNow, SameDispatch, SameContinue, SameCaptured, SameVariables
         DEF AsOne, Closure, Interpreter!Closure, FunctionRef, Interpreter!FunctionRef
    <2>2. QED  BY <2>1 DEF Interpreter!Straight
  <1>2. CASE Close
    <2>1. Interpreter!Close
      BY <1>2, SameNow, SameDispatch, SameContinue, SameClosing, SameVariables
         DEF AsOne, Close, Interpreter!Close
    <2>2. QED  BY <2>1 DEF Interpreter!Straight
  <1>3. QED  BY <1>1, <1>2

\* Whether a call fails does not depend on where the machine is.
LEMMA SameCallError ==
    ASSUME NEW callee, NEW argc, NEW base, NEW depth
    PROVE  Interpreter!CallError(callee, argc, base, depth) = CallError(callee, argc, base, depth)
  BY DEF Interpreter!CallError, CallError, Interpreter!Is, Is, Interpreter!Natives, Natives,
         Interpreter!CodeOf, CodeOf, Interpreter!arity_error, arity_error,
         Interpreter!NotCallable, NotCallable, Interpreter!StackOverflow, StackOverflow,
         Interpreter!NoError, NoError

\* The callee and its window are the same for both.
LEMMA SameCall ==
    ASSUME AsOne
    PROVE  /\ Interpreter!callee_value = callee_value
           /\ Interpreter!callee_base = callee_base
           /\ Interpreter!call_error = call_error
  <1>1. /\ Interpreter!callee_value = callee_value
        /\ Interpreter!callee_base = callee_base
    BY SameNow DEF AsOne, Interpreter!callee_value, callee_value, Interpreter!callee_base, callee_base
  <1>2. QED  BY <1>1, SameNow, SameCallError DEF AsOne, Interpreter!call_error, call_error

\* So are the registers and the frame of a function that is called.
LEMMA SameSlide ==
    ASSUME NEW callee, NEW base, NEW regs
    PROVE  /\ Interpreter!Slide(callee, base, regs) = Slide(callee, base, regs)
           /\ Interpreter!NewFrame(callee, base) = NewFrame(callee, base)
  BY SameConstants DEF Interpreter!Slide, Slide, Interpreter!CodeOf, CodeOf, Interpreter!NewFrame, NewFrame

\* A native computes the same for both.
LEMMA SameNative ==
    ASSUME NEW name, NEW args, NEW arrs
    PROVE  Interpreter!CallNative(name, args, arrs) = CallNative(name, args, arrs)
  BY DEF Interpreter!CallNative, CallNative, Interpreter!native_len, native_len, Interpreter!Is, Is,
         Interpreter!Ok, Ok, Interpreter!Error, Error, Interpreter!make_int, make_int,
         Interpreter!Wrap, Wrap, Interpreter!Half, Half, Interpreter!ArrayRef, ArrayRef,
         Interpreter!Filled, Filled, Interpreter!NoError, NoError, Interpreter!Nil, Nil

\* A call is the interpreter's.
LEMMA CallsActAlike ==
    ASSUME AsOne, CallClosure \/ CallNativeFunction \/ CallFails
    PROVE  Interpreter!Step
  <1> USE DEF AsOne
  <1>1. CASE CallClosure
    <2>1. Interpreter!CallClosure
      BY <1>1, SameNow, SameDispatch, SameCall, SameSlide, SameVariables, SameConstants
         DEF CallClosure, Interpreter!CallClosure, Is, Interpreter!Is
    <2>2. QED  BY <2>1 DEF Interpreter!Step
  <1>2. CASE CallNativeFunction
    <2>1. Interpreter!CallNativeFunction
      BY <1>2, SameNow, SameDispatch, SameCall, SameNative, SameWindow, SameFAIL, SameSet,
         SameConstants
         DEF CallNativeFunction, Interpreter!CallNativeFunction, Is, Interpreter!Is
    <2>2. QED  BY <2>1 DEF Interpreter!Step, Interpreter!Straight
  <1>3. CASE CallFails
    <2>1. Interpreter!CallFails
      BY <1>3, SameDispatch, SameCall, SameFAIL, SameConstants
         DEF CallFails, Interpreter!CallFails
    <2>2. QED  BY <2>1 DEF Interpreter!Step, Interpreter!Straight
  <1>4. QED  BY <1>1, <1>2, <1>3

\* A return of a value is the same for both.
LEMMA SameReturn ==
    ASSUME AsOne, NEW v, ReturnWith(v)
    PROVE  Interpreter!ReturnWith(v)
  BY SameNow, SameClosing, SameVariables, SameConstants
     DEF AsOne, ReturnWith, Interpreter!ReturnWith, Front, Interpreter!Front

\* A return is the interpreter's.
LEMMA ReturnsActAlike ==
    ASSUME AsOne, Return \/ ReturnNil
    PROVE  Interpreter!Straight
  <1>1. CASE Return
    <2>1. Interpreter!Return
      BY <1>1, SameNow, SameDispatch, SameReturn DEF AsOne, Return, Interpreter!Return
    <2>2. QED  BY <2>1 DEF Interpreter!Straight
  <1>2. CASE ReturnNil
    <2>1. Interpreter!ReturnNil
      BY <1>2, SameDispatch, SameReturn, SameConstants DEF ReturnNil, Interpreter!ReturnNil
    <2>2. QED  BY <2>1 DEF Interpreter!Straight
  <1>3. QED  BY <1>1, <1>2

\* A call from outside is the interpreter's.
LEMMA EntryActsAlike ==
    ASSUME AsOne, call_global
    PROVE  Interpreter!call_global
  <1>1. Interpreter!undefined_variable(Entry) = undefined_variable(Entry)
    BY Zenon DEF Interpreter!undefined_variable, undefined_variable
  <1>2. Interpreter!EntryError = EntryError /\ (Interpreter!Undefined <=> Undefined)
    BY <1>1, SameCallError DEF Interpreter!EntryError, EntryError, Interpreter!Undefined, Undefined
  <1>3. QED  BY <1>2, SameSlide, SameVariables, SameConstants
             DEF AsOne, call_global, Interpreter!call_global, NoLine, Interpreter!NoLine

\* x
\* A frame that was just pushed is at its first word, where its machine code begins.
LEMMA AtFirstWord ==
    ASSUME NEW s, IsSequence(s), s # <<>>, NEW callee, NEW base,
           s[Len(s)] = NewFrame(callee, base)
    PROVE  [s EXCEPT ![Len(s)].pc = 0] = s
  <1>1. Len(s) \in DOMAIN s /\ s = [i \in DOMAIN s |-> s[i]]
    BY SequenceIsRow DEF IsSequence
  <1>2. [NewFrame(callee, base) EXCEPT !.pc = 0] = NewFrame(callee, base)
    BY DEF NewFrame
  <1>3. QED  BY <1>1, <1>2

\* A call that enters machine code leaves the interpreter at the same place.
LEMMA EntersAtFirst ==
    ASSUME IsSequence(frames'), frames' # <<>>, NEW callee, NEW f, NEW base,
           frames'[Len(frames')] = NewFrame(callee, base), jit_frame_entry(f, base)
    PROVE  Interpreted' = frames'
  <1>1. CASE activations' = <<>>
    BY <1>1 DEF Interpreted, InMachineCode
  <1>2. CASE activations' = <<Activation(base)>>
    <2>1. Last(activations') = Activation(base)
      BY <1>2, Single DEF Last
    <2>2. activation'.at = 0
      BY <2>1 DEF activation, Activation
    <2>3. [frames' EXCEPT ![Len(frames')].pc = 0] = frames'
      BY AtFirstWord
    <2>4. activations' # <<>>
      BY <1>2, Single
    <2>5. QED  BY <2>2, <2>3, <2>4 DEF Interpreted, InMachineCode
  <1>3. QED  BY <1>1, <1>2 DEF jit_frame_entry

\* Before and after a step of the interpreter no machine code is ahead of it.
LEMMA InterpretsAlone ==
    ASSUME Safe, Interpret, FramesInv'
    PROVE  AsOne
  <1>1. ~InMachineCode /\ Interpreted = frames
    BY DEF Interpret, Interpreted
  <1>2. CASE activations' = activations
    BY <1>1, <1>2 DEF Interpreted, InMachineCode, AsOne
  <1>3. CASE CallClosure /\ jit_frame_entry(closures[callee_value[2]].function, callee_base)
    <2>1. PICK base, callee : base = callee_base /\ callee = callee_value
      OBVIOUS
    <2>2. frames' = Append([frames EXCEPT ![Len(frames)].pc = @ + 1], NewFrame(callee, base))
      BY <1>3, <2>1 DEF CallClosure
    <2>3. IsSequence(frames) /\ frames # <<>>
      BY <1>3 DEF Safe, FramesInv, StackInv, CallClosure, Dispatch
    <2>4. PICK moved : moved = Replaced(frames, [frames[Len(frames)] EXCEPT !.pc = @ + 1])
      OBVIOUS
    <2>5. IsSequence(moved)
      BY <2>3, <2>4, AtTop
    <2>6. frames' = Pushed(moved, NewFrame(callee, base))
      BY <2>2, <2>3, <2>4 DEF Pushed, Replaced
    <2>7. frames' # <<>> /\ IsSequence(frames') /\ frames'[Len(frames')] = NewFrame(callee, base)
      <3>1. PICK fs : fs = frames'
        OBVIOUS
      <3>2. IsSequence(fs) /\ Len(fs) = Len(moved) + 1 /\ Len(moved) \in Nat
            /\ fs[Len(fs)] = NewFrame(callee, base)
        BY <2>5, <2>6, <3>1, Appended
      <3>3. QED  BY <3>1, <3>2
    <2>8. PICK f : jit_frame_entry(f, base)
      BY <1>3, <2>1
    <2>9. QED  BY <1>1, <2>7, <2>8, EntersAtFirst DEF AsOne
  <1>4. QED  BY <1>2, <1>3 DEF Interpret, jit_vars, jit_back_edge

\* The same of a call from outside.
LEMMA EntersAlone ==
    ASSUME Safe, call_entry, FramesInv'
    PROVE  AsOne
  <1>1. ~InMachineCode /\ Interpreted = frames
    BY DEF call_entry, call_global, Safe, FramesInv, StackInv, InMachineCode, Interpreted
  <1>2. CASE activations' = activations
    BY <1>1, <1>2 DEF Interpreted, InMachineCode, AsOne
  <1>3. CASE status' = "running"
    <2>1. frames' = <<NewFrame(globals[Entry], 1)>>
      BY <1>3 DEF call_entry, call_global
    <2>2. IsSequence(frames') /\ frames' # <<>>
      BY <2>1, Single
    <2>3. frames'[Len(frames')] = NewFrame(globals[Entry], 1)
      BY <2>1, Single
    <2>4. PICK f : jit_frame_entry(f, 1)
      BY <1>3 DEF call_entry
    <2>5. PICK callee : callee = globals[Entry]
      OBVIOUS
    <2>6. QED  BY <1>1, <2>2, <2>3, <2>4, <2>5, EntersAtFirst DEF AsOne
  <1>4. QED  BY <1>2, <1>3 DEF call_entry, jit_vars

\* Without fused words there is no superinstruction.
LEMMA NoPairs == ASSUME Safe, ~Fused PROVE ~Superinstruction
  <1> SUFFICES ASSUME Superinstruction PROVE FALSE
    OBVIOUS
  <1>1. PICK pair \in FusedPairs : Dispatch(pair[1])
    BY DEF Superinstruction
  <1>2. frames # <<>> /\ insn.op = pair[1]
    BY <1>1 DEF Dispatch, Safe, FramesInv, StackInv
  <1>3. closure.function \in DOMAIN functions /\ frame.pc + 1 \in DOMAIN function.code
    BY <1>2, Here DEF Starts
  <1>4. insn \in ToSet(function.code)
    BY <1>3 DEF insn, ToSet
  <1>5. QED  BY <1>2, <1>3, <1>4 DEF Fused, is_fused, function

\* A step of the interpreter without machine code.
LEMMA InterpretActsAlike ==
    ASSUME Safe, inline_cache \in BOOLEAN, ~Fused, Interpret, AsOne
    PROVE  Interpreter!Step
  <1>1. CASE Straight
    <2>1. status = "running"
      BY <1>1 DEF Straight, Move, LoadK, LoadNil, LoadTrue, LoadFalse, Load, GetGlobal, SetGlobal,
         GlobalFails, DefineGlobal, GetUpvalue, SetUpvalue, Operate, Array, ArrayAppend, PrintValue,
         Closure, Close, CallNativeFunction, CallFails, Return, ReturnNil, Dispatch
    <2>2. frames # <<>>
      BY <2>1 DEF Safe, FramesInv, StackInv
    <2>3. QED  BY <1>1, <2>2, LoadsActAlike, GlobalsActAlike, UpvaluesActAlike,
                  OperationsActAlike, ArraysActAlike, PrintActsAlike, ClosuresActAlike, CallsActAlike,
                  ReturnsActAlike
               DEF Straight, Interpreter!Step
  <1>2. CASE Branch
    BY <1>2, NoPairs, OperationsActAlike DEF Branch
  <1>3. CASE CallClosure
    BY <1>3, CallsActAlike
  <1>4. QED  BY <1>1, <1>2, <1>3 DEF Interpret

-----------------------------------------------------------------------------
(* What machine code computes.                                             *)

\* An int does not wrap around.
LEMMA WrapSame == ASSUME NEW n \in Ints PROVE Wrap(n) = n
  <1>1. n \in Int /\ n + Half \in 0 .. 2 * Half - 1
    BY HalfType DEF Ints
  <1>2. PICK m \in Nat, k \in Nat \ {0} : m = n + Half /\ k = 2 * Half
    BY <1>1, HalfType
  <1>3. m < k
    BY <1>1, <1>2, HalfType
  <1>4. m % k = m
    BY ONLY <1>3
  <1>5. QED  BY <1>1, <1>2, <1>4, HalfType DEF Wrap

\* The two ints that wrap around to another one where the code computes with -1.
LEMMA WrapEnds == Wrap(Half) = -Half /\ Wrap(-2 * Half) = 0 /\ Wrap(0) = 0
  <1>1. PICK h \in Nat \ {0} : h = Half
    BY HalfType
  <1>2. (h + h) % (2 * h) = 0 /\ (-2 * h + h) % (2 * h) = h /\ (0 + h) % (2 * h) = h
    <2>1. h + h = 1 * (2 * h) + 0 /\ -2 * h + h = (-1) * (2 * h) + h /\ 0 + h = h /\ h < 2 * h
      OBVIOUS
    <2>2. QED  BY <2>1
  <1>3. QED  BY <1>1, <1>2 DEF Wrap

\* Division by -1 negates.
LEMMA TruncatedNegates == ASSUME NEW n \in Int PROVE Truncated(n, -1) = -n
  <1>0. Magnitude(-1) = 1
    <2>1. PICK m \in Int : m = -1
      OBVIOUS
    <2>2. m + 1 = 0
      BY <2>1
    <2>3. Magnitude(m) = 1
      BY ONLY <2>2, m \in Int DEF Magnitude
    <2>4. QED  BY <2>1, <2>3
  <1>1. Magnitude(n) \in Nat
    BY DEF Magnitude
  <1>2. Magnitude(n) \div Magnitude(-1) = Magnitude(n)
    BY <1>0, <1>1, Quotient
  <1>3. Truncated(n, -1) = IF n < 0 THEN Magnitude(n) ELSE -Magnitude(n)
    BY <1>1, <1>2 DEF Truncated
  <1>4. QED  BY <1>3 DEF Magnitude

\* The instructions of machine code compute the quotients and remainders of the
\* language: SDIV and MSUB, also where the divisor is -1.
LEMMA MachineDivides ==
    ASSUME NEW n \in Ints, NEW m \in Ints, m # 0
    PROVE  /\ SDIV(n, m) = IF m = -1 THEN Wrap(-n) ELSE Truncated(n, m)
           /\ MSUB(SDIV(n, m), m, n) = IF m = -1 THEN 0 ELSE n - m * Truncated(n, m)
  <1>1. n \in Int /\ m \in Int /\ Truncated(n, m) \in Int
    BY IntIsInt, TruncatedInts
  <1>2. CASE m # -1
    <2>1. Truncated(n, m) \in Ints /\ n - m * Truncated(n, m) \in Ints
      BY <1>2, TruncatedInts
    <2>2. SDIV(n, m) = Truncated(n, m)
      BY <2>1, WrapSame DEF SDIV
    <2>3. n - Truncated(n, m) * m = n - m * Truncated(n, m)
      BY <1>1
    <2>4. QED  BY <1>2, <2>1, <2>2, <2>3, WrapSame DEF MSUB
  <1>3. CASE m = -1
    <2>1. SDIV(n, m) = Wrap(-n)
      BY <1>1, <1>3, TruncatedNegates DEF SDIV
    <2>2. Wrap(n - Wrap(-n) * m) = 0
      <3>1. CASE n = -Half
        <4>1. -n = Half /\ Wrap(-n) = -Half
          BY <3>1, HalfType, WrapEnds
        <4>2. n - Wrap(-n) * m = -2 * Half
          BY <1>3, <3>1, <4>1, HalfType
        <4>3. QED  BY <4>2, WrapEnds
      <3>2. CASE n # -Half
        <4>1. -n \in Ints
          BY <3>2, HalfType DEF Ints
        <4>2. Wrap(-n) = -n
          BY <4>1, WrapSame
        <4>3. n - Wrap(-n) * m = 0
          BY <1>1, <1>3, <4>2
        <4>4. QED  BY <4>3, WrapEnds
      <3>3. QED  BY <3>1, <3>2
    <2>3. QED  BY <1>3, <2>1, <2>2 DEF MSUB
  <1>4. QED  BY <1>2, <1>3

\* What machine code computes is the value of the operation.
LEMMA MachineComputes ==
    ASSUME NEW n \in Ints, NEW m \in Ints, NEW op \in Arithmetic,
           op \in {"Div", "Mod"} => m # 0
    PROVE  BinaryOperation(op, make_int(n), make_int(m)) = Ok(MachineBinary(op, n, m))
  <1> DEFINE x == make_int(n)
             y == make_int(m)
  <1>1. /\ Is("int", x) /\ Is("int", y) /\ ~Is("str", x) /\ x[2] = n /\ y[2] = m
        /\ (x = y <=> n = m)
    BY DEF make_int, Is
  <1> HIDE DEF x, y
  <1>2. CASE op \in {"Add", "Sub", "Mul"}
    BY <1>1, <1>2 DEF BinaryOperation, MachineBinary, op_add, op_sub, op_mul, NumericBinary, x, y
  <1>3. CASE op \in {"Div", "Mod"}
    <2>1. m # 0
      BY <1>3
    <2>2. /\ op_div(x, y) = Ok(make_int(IF m = -1 THEN Wrap(-n) ELSE Truncated(n, m)))
          /\ op_mod(x, y) = Ok(make_int(IF m = -1 THEN 0 ELSE n - m * Truncated(n, m)))
      BY <1>1, <2>1 DEF op_div, op_mod, NumericBinary
    <2>3. /\ SDIV(n, m) = IF m = -1 THEN Wrap(-n) ELSE Truncated(n, m)
          /\ MSUB(SDIV(n, m), m, n) = IF m = -1 THEN 0 ELSE n - m * Truncated(n, m)
      BY <2>1, MachineDivides
    <2>4. QED  BY <1>3, <2>2, <2>3 DEF BinaryOperation, MachineBinary, x, y
  <1>4. CASE op \in {"Eq", "Ne"}
    BY <1>1, <1>4 DEF BinaryOperation, MachineBinary, values_equal, x, y
  <1>5. CASE op \in {"Lt", "Le", "Gt", "Ge"}
    BY <1>1, <1>5 DEF BinaryOperation, MachineBinary, NumericCompare, NumericBinary, x, y
  <1>6. QED  BY <1>2, <1>3, <1>4, <1>5 DEF Arithmetic

-----------------------------------------------------------------------------
(* The interpreter at the word that machine code has reached.              *)

\* The frames with the newest at another word.
LEMMA MovedFrames ==
    ASSUME IsSequence(frames), frames # <<>>, NEW pc, NEW fs, fs = WithPc(pc),
           IsFrame(frames[Len(frames)])
    PROVE  /\ IsSequence(fs) /\ fs # <<>> /\ Len(fs) = Len(frames) /\ Len(frames) \in Nat \ {0}
           /\ DOMAIN fs = 1 .. Len(frames) /\ DOMAIN frames = 1 .. Len(frames)
           /\ fs[Len(frames)] = [frames[Len(frames)] EXCEPT !.pc = pc]
           /\ fs[Len(frames)].pc = pc
           /\ fs[Len(frames)].base = frames[Len(frames)].base
           /\ fs[Len(frames)].closure = frames[Len(frames)].closure
           /\ \A i \in 1 .. Len(frames) - 1 : fs[i] = frames[i]
  <1>1. PICK v : v = [frames[Len(frames)] EXCEPT !.pc = pc]
    OBVIOUS
  <1>2. fs = Replaced(frames, v)
    BY <1>1 DEF WithPc, Replaced
  <1>3. /\ IsSequence(fs) /\ fs # <<>> /\ Len(fs) = Len(frames) /\ Len(frames) \in Nat \ {0}
        /\ DOMAIN fs = 1 .. Len(frames) /\ DOMAIN frames = 1 .. Len(frames)
        /\ fs[Len(frames)] = v
        /\ \A i \in 1 .. Len(frames) - 1 : fs[i] = frames[i]
    BY ONLY <1>2, AtTop, IsSequence(frames), frames # <<>>
  <1>4. v.pc = pc /\ v.base = frames[Len(frames)].base /\ v.closure = frames[Len(frames)].closure
    BY ONLY <1>1, IsFrame(frames[Len(frames)]) DEF IsFrame
  <1>5. QED  BY <1>1, <1>3, <1>4

\* In machine code the interpreter would be at the word that is reached, in the
\* same frame.
LEMMA SameInCode ==
    ASSUME Safe, InMachineCode
    PROVE  /\ Interpreted = WithPc(activation.at) /\ status = "running"
           /\ IsSequence(Interpreted) /\ Interpreted # <<>> /\ Len(Interpreted) = Len(frames)
           /\ Len(frames) \in Nat \ {0}
           /\ Interpreter!frame = Interpreted[Len(frames)]
           /\ Interpreter!frame.pc = activation.at /\ Interpreter!frame.base = activation.base
           /\ Interpreter!closure = closure /\ Interpreter!function = function
           /\ Interpreter!insn = word
           /\ \A i : Interpreter!K(i) = K(i) /\ Interpreter!R(i) = M(i)
           /\ \A const, i : Interpreter!RK(const, i, registers) = MRK(const, i)
  <1>1. /\ IsSequence(frames) /\ frames # <<>> /\ status = "running"
        /\ Len(frames) \in Nat \ {0} /\ frame = frames[Len(frames)]
        /\ IsFrame(frames[Len(frames)]) /\ frame.base = activation.base
    <2>1. /\ Len(frames) \in Nat \ {0} /\ DOMAIN frames = 1 .. Len(frames) /\ frames # <<>>
          /\ status = "running" /\ frame = frames[Len(frames)] /\ frame.base = activation.base
      BY InCode DEF Safe
    <2>2. QED  BY <2>1 DEF Safe, FramesInv, StackInv
  <1>2. Interpreted = WithPc(activation.at)
    BY DEF Interpreted, WithPc
  <1>3. PICK fs, pc : fs = Interpreted /\ pc = activation.at
    OBVIOUS
  <1>4. /\ IsSequence(fs) /\ fs # <<>> /\ Len(fs) = Len(frames)
        /\ fs[Len(frames)].pc = pc
        /\ fs[Len(frames)].base = frames[Len(frames)].base
        /\ fs[Len(frames)].closure = frames[Len(frames)].closure
    BY <1>1, <1>2, <1>3, MovedFrames
  <1>5. Interpreter!frame = Interpreted[Len(frames)]
    BY <1>3, <1>4 DEF Interpreter!frame, Interpreter!Last
  <1>6. /\ Interpreter!frame.pc = activation.at /\ Interpreter!frame.base = activation.base
        /\ Interpreter!frame.closure = frame.closure
    BY <1>1, <1>3, <1>4, <1>5
  <1>7. Interpreter!closure = closure
    BY <1>6 DEF Interpreter!closure, closure
  <1>8. Interpreter!function = function
    BY <1>7 DEF Interpreter!function, function
  <1>9. Interpreter!insn = word
    BY <1>6, <1>8 DEF Interpreter!insn, word
  <1>10. \A i : Interpreter!K(i) = K(i) /\ Interpreter!R(i) = M(i)
    BY <1>6, <1>8 DEF Interpreter!K, K, Interpreter!R, M
  <1>11. \A const, i : Interpreter!RK(const, i, registers) = MRK(const, i)
    BY <1>6, <1>10 DEF Interpreter!RK, MRK, M
  <1>12. QED  BY <1>1, <1>2, <1>3, <1>4, <1>5, <1>6, <1>7, <1>8, <1>9, <1>10, <1>11

\* Without fused code a word is what it does.
LEMMA NotFusedHere ==
    ASSUME Safe, InMachineCode, ~Fused
    PROVE  word_op = word.op
  <1>1. /\ activation.at + 1 \in Starts(function) /\ word = function.code[activation.at + 1]
        /\ closure.function \in DOMAIN functions
    BY HereInCode
  <1>2. word \in ToSet(functions[closure.function].code)
    BY <1>1 DEF Starts, ToSet, function
  <1>3. ~is_fused(word.op)
    BY <1>1, <1>2 DEF Fused
  <1>4. QED  BY <1>3 DEF word_op, unfused_op

\* A word further, or several.
LEMMA CodeContinues ==
    ASSUME Safe, InMachineCode, NEW words, Proceed(words), UNCHANGED frames
    PROVE  Interpreter!Continue(words)
  <1>1. /\ IsSequence(frames) /\ frames # <<>> /\ Len(frames) \in Nat \ {0}
        /\ IsFrame(frames[Len(frames)]) /\ Len(Interpreted) = Len(frames)
        /\ Interpreted = WithPc(activation.at)
    <2>1. DOMAIN frames = 1 .. Len(frames) /\ Len(frames) \in Nat \ {0} /\ frames # <<>>
      BY InCode DEF Safe
    <2>2. QED  BY <2>1, SameInCode DEF Safe, FramesInv, StackInv
  <1>2. activation'.at = activation.at + words /\ activations' # <<>>
    <2>1. PICK n : n = Len(activations)
      OBVIOUS
    <2>2. PICK v : v = [activations[n] EXCEPT !.at = @ + words]
      OBVIOUS
    <2>3. activations' = Replaced(activations, v)
      BY <2>1, <2>2 DEF Proceed, Replaced
    <2>4. IsSequence(activations) /\ activations # <<>>
      BY DEF Safe, FramesInv, StackInv, InMachineCode
    <2>5. /\ n \in Nat \ {0} /\ DOMAIN activations = 1 .. n
          /\ activations' # <<>> /\ Len(activations') = n /\ activations'[n] = v
      BY ONLY <2>1, <2>3, <2>4, AtTop
    <2>6. IsActivation(activations[n]) /\ activation = activations[n]
      BY <2>1, <2>5 DEF Safe, FramesInv, StackInv, activation, Last
    <2>7. v.at = activation.at + words
      BY ONLY <2>2, <2>6 DEF IsActivation
    <2>8. QED  BY <2>5, <2>7 DEF activation, Last
  <1>3. Interpreted' = [frames EXCEPT ![Len(frames)].pc = activation.at + words]
    BY <1>2 DEF Interpreted, InMachineCode
  <1>4. PICK m, at : m = Len(frames) /\ at = activation.at
    OBVIOUS
  <1>5. Interpreted = [frames EXCEPT ![m].pc = at] /\ m \in DOMAIN frames
        /\ IsFrame(frames[m])
    BY <1>1, <1>4, SequenceIsRow DEF WithPc
  <1>6. [frames EXCEPT ![m].pc = at][m].pc = at
    BY <1>5 DEF IsFrame
  <1>7. [[frames EXCEPT ![m].pc = at] EXCEPT ![m].pc = @ + words]
        = [frames EXCEPT ![m].pc = at + words]
    BY <1>5, <1>6 DEF IsFrame
  <1>8. QED  BY <1>1, <1>3, <1>4, <1>5, <1>7 DEF Interpreter!Continue

\* Machine code that writes a value into a register does what the interpreter does
\* that computes that value.
LEMMA StoreSets ==
    ASSUME Safe, NEW ops, NEW v, Store(ops, v)
    PROVE  Interpreter!Set(v)
  <1>1. InMachineCode /\ Proceed(1) /\ UNCHANGED frames
        /\ registers' = [registers EXCEPT ![activation.base + word.a] = v]
        /\ UNCHANGED machine_code_unchanged
    BY DEF Store, Machine
  <1>2. Interpreter!Continue(1) /\ Interpreter!frame.base = activation.base
        /\ Interpreter!insn = word
    BY <1>1, CodeContinues, SameInCode
  <1>3. QED  BY <1>1, <1>2, SameVariables DEF Interpreter!Set, machine_code_unchanged

\* The interpreter is at the instruction that machine code is at.
LEMMA CodeDispatches ==
    ASSUME Safe, InMachineCode, ~Fused
    PROVE  Interpreter!Dispatch(word_op)
  BY NotFusedHere, SameInCode DEF Interpreter!Dispatch

-----------------------------------------------------------------------------
(* The words of machine code are instructions of the interpreter.          *)

\* A load of machine code is the interpreter's.
LEMMA StoreLoads ==
    ASSUME Safe, ~Fused, NEW op, NEW v, Store({op}, v)
    PROVE  Interpreter!Load(op, v)
  <1>1. InMachineCode /\ word_op = op /\ UNCHANGED arrays
    BY DEF Store, Machine
  <1>2. Interpreter!Dispatch(op)
    BY <1>1, CodeDispatches
  <1>3. QED  BY <1>1, <1>2, StoreSets DEF Interpreter!Load

\* A function that was compiled names itself where it reads a global.
LEMMA NamesItself ==
    ASSUME Safe, CompiledInv, InMachineCode, word_op = "GetGlobal"
    PROVE  K(word.b) = Str(function.name) /\ function.name \in DOMAIN globals
  <1>1. /\ jit_status[closure.function] = "compiled" /\ closure.function \in DOMAIN functions
        /\ FunctionFits(function, functions)
        /\ activation.at + 1 \in Starts(function)
        /\ word = function.code[activation.at + 1]
    BY HereInCode
  <1>2. check_whitelist(closure.function, functions[closure.function].name \in DOMAIN globals)
    BY <1>1 DEF CompiledInv, StatusFits
  <1>3. activation.at + 1 \in DOMAIN functions[closure.function].code
    BY <1>1 DEF Starts, function
  <1>4. Compiles(closure.function, word, activation.at + 1,
                 functions[closure.function].name \in DOMAIN globals)
    BY <1>1, <1>2, <1>3 DEF check_whitelist, function
  <1>5. functions[closure.function].name \in DOMAIN globals /\ names_self(closure.function, word)
    BY <1>4, Zenon DEF Compiles, word_op, Arithmetic, Jumps
  <1>6. QED  BY <1>5 DEF function, names_self, K

\* All loads are: a global is the function itself, under its own name.
LEMMA MachineLoadActsAlike ==
    ASSUME Safe, CompiledInv, ~Fused, MachineLoad
    PROVE  Interpreter!Straight
  <1>1. InMachineCode
    BY DEF MachineLoad, Store, Machine
  <1>2. /\ Interpreter!insn = word
        /\ \A i : Interpreter!K(i) = K(i) /\ Interpreter!R(i) = M(i)
    BY <1>1, SameInCode
  <1>3. CASE Store({"Move"}, M(word.b))
    BY <1>2, <1>3, StoreLoads DEF Interpreter!Move, Interpreter!Straight
  <1>4. CASE Store({"LoadK"}, K(word.b))
    BY <1>2, <1>4, StoreLoads DEF Interpreter!LoadK, Interpreter!Straight
  <1>5. CASE Store({"LoadNil"}, Nil)
    BY <1>5, StoreLoads, SameConstants DEF Interpreter!LoadNil, Interpreter!Straight
  <1>6. CASE Store({"LoadTrue"}, True)
    BY <1>6, StoreLoads, SameConstants DEF Interpreter!LoadTrue, Interpreter!Straight
  <1>7. CASE Store({"LoadFalse"}, False)
    BY <1>7, StoreLoads, SameConstants DEF Interpreter!LoadFalse, Interpreter!Straight
  <1>8. CASE Store({"GetGlobal"}, globals[function.name])
    <2>1. word_op = "GetGlobal" /\ UNCHANGED arrays
      BY <1>8 DEF Store, Machine
    <2>2. K(word.b) = Str(function.name) /\ function.name \in DOMAIN globals
      BY <1>1, <2>1, NamesItself
    <2>3. Interpreter!GlobalName = function.name /\ Interpreter!found
      BY <1>2, <2>2 DEF Interpreter!GlobalName, Interpreter!found, Str
    <2>4. Interpreter!Remember
      BY DEF Interpreter!Remember
    <2>5. Interpreter!Set(globals[function.name])
      BY <1>8, StoreSets
    <2>6. Interpreter!Dispatch("GetGlobal")
      BY <1>1, <2>1, CodeDispatches
    <2>7. Interpreter!GetGlobal
      BY <2>1, <2>3, <2>4, <2>5, <2>6 DEF Interpreter!GetGlobal
    <2>8. QED  BY <2>7 DEF Interpreter!Straight
  <1>9. QED  BY <1>3, <1>4, <1>5, <1>6, <1>7, <1>8 DEF MachineLoad

\* The effect of an instruction that computes a value.
LEMMA SetTakes ==
    ASSUME NEW v, Interpreter!Set(v), UNCHANGED arrays, NEW operation, operation = Ok(v)
    PROVE  Interpreter!Take(Interpreter!Checked(Interpreter!insn, operation, Interpreter!NoEffect), 1)
  <1>1. operation.error = NoError /\ operation.value = v
    BY DEF Ok
  <1>2. PICK slot : slot = Interpreter!frame.base + Interpreter!insn.a
    OBVIOUS
  <1>3. PICK e : e = Interpreter!Checked(Interpreter!insn, operation, Interpreter!NoEffect)
    OBVIOUS
  <1>4. /\ e.registers = [registers EXCEPT ![slot] = v] /\ e.arrays = arrays
        /\ e.skip = 0 /\ e.error = NoError
    BY <1>1, <1>2, <1>3, SameConstants DEF Interpreter!Checked, Interpreter!NoEffect
  <1>5. 1 + e.skip = 1
    BY <1>4
  <1>6. Interpreter!Take(e, 1)
    BY <1>2, <1>4, <1>5, SameConstants DEF Interpreter!Take, Interpreter!Set
  <1>7. QED  BY <1>3, <1>6

\* A computation of machine code is that of the interpreter's instruction.
LEMMA StoreOperates ==
    ASSUME Safe, ~Fused, NEW v, NEW ops, Store(ops, v), NEW operation, operation = Ok(v),
           word_op \in Arithmetic \cup Unaries \cup {"IndexGet", "IndexSet"},
           Interpreter!Body(word_op, word, Interpreter!NoEffect)
           = Interpreter!Checked(word, operation, Interpreter!NoEffect)
    PROVE  Interpreter!Operate
  <1>1. InMachineCode /\ UNCHANGED arrays /\ Interpreter!Set(v)
    BY StoreSets DEF Store, Machine
  <1>2. Interpreter!insn = word /\ word_op = word.op
    BY <1>1, SameInCode, NotFusedHere
  <1>3. Interpreter!Dispatch(word_op)
    BY <1>1, CodeDispatches
  <1>4. Interpreter!Take(Interpreter!Body(word_op, word, Interpreter!NoEffect), 1)
    BY <1>1, <1>2, SetTakes
  <1>5. QED  BY <1>2, <1>3, <1>4, SameConstants DEF Interpreter!Operate

\* What the interpreter's instruction does at the word of machine code, in the
\* machine code's operands.
LEMMA BodyInCode ==
    ASSUME Safe, InMachineCode, NEW op, NEW body, body = Interpreter!Body(op, word, Interpreter!NoEffect)
    PROVE  /\ op \in Arithmetic
              => body = Interpreter!Checked(word, BinaryOperation(op, word_b, word_c), Interpreter!NoEffect)
           /\ op = "Neg"
              => body = Interpreter!Checked(word, op_negate(word_b), Interpreter!NoEffect)
           /\ op = "IndexGet"
              => body = Interpreter!Checked(word, array_get(arrays, word_b, word_c), Interpreter!NoEffect)
           /\ op = "IndexSet"
              => body = Interpreter!BodyIndexSet(M(word.a), word_b, word_c, Interpreter!NoEffect)
           /\ op = "Jump" => body = [Interpreter!NoEffect EXCEPT !.skip = word.b]
           /\ op = "JumpIfFalse"
              => body = [Interpreter!NoEffect EXCEPT !.skip = IF is_truthy(M(word.a)) THEN 0 ELSE word.b]
           /\ op = "JumpIfTrue"
              => body = [Interpreter!NoEffect EXCEPT !.skip = IF is_truthy(M(word.a)) THEN word.b ELSE 0]
  <1>1. PICK none : none = Interpreter!NoEffect
    OBVIOUS
  <1>2. none.registers = registers /\ none.arrays = arrays
    BY <1>1 DEF Interpreter!NoEffect
  <1>3. /\ none.registers[Interpreter!frame.base + word.a] = M(word.a)
        /\ Interpreter!RK(word.b_const, word.b, none.registers) = word_b
        /\ Interpreter!RK(word.c_const, word.c, none.registers) = word_c
    BY <1>2, SameInCode DEF M, word_b, word_c
  <1>4. /\ \A x, y : Interpreter!BinaryOperation(op, x, y) = BinaryOperation(op, x, y)
        /\ \A x : Interpreter!UnaryOperation(op, x) = UnaryOperation(op, x)
        /\ \A x, y : Interpreter!array_get(arrays, x, y) = array_get(arrays, x, y)
        /\ \A x : Interpreter!is_truthy(x) <=> is_truthy(x)
        /\ Interpreter!Arithmetic = Arithmetic /\ Interpreter!Unaries = Unaries
    BY SameOperations, SameConstants
  <1>5. Arithmetic \cap Unaries = {} /\ Arithmetic \cap Jumps = {} /\ Unaries \cap Jumps = {}
        /\ "IndexGet" \notin Arithmetic \cup Unaries /\ "IndexSet" \notin Arithmetic \cup Unaries
        /\ Unaries = {"Neg", "Not"} /\ Jumps = {"Jump", "JumpIfFalse", "JumpIfTrue"}
    BY DEF Arithmetic, Unaries, Jumps
  <1>6. body = Interpreter!Body(op, word, none)
    BY <1>1
  <1>7. op \in Arithmetic
        => body = Interpreter!Checked(word, BinaryOperation(op, word_b, word_c), none)
    BY <1>3, <1>4, <1>5, <1>6 DEF Interpreter!Body, Arithmetic
  <1>8. op = "Neg" => body = Interpreter!Checked(word, op_negate(word_b), none)
    <2>1. op = "Neg" => op \in Unaries /\ op \notin Arithmetic /\ UnaryOperation(op, word_b) = op_negate(word_b)
      BY <1>5 DEF UnaryOperation
    <2>2. QED  BY <2>1, <1>3, <1>4, <1>5, <1>6 DEF Interpreter!Body
  <1>9. op = "IndexGet" => body = Interpreter!Checked(word, array_get(arrays, word_b, word_c), none)
    BY <1>2, <1>3, <1>4, <1>5, <1>6 DEF Interpreter!Body
  <1>10. op = "IndexSet" => body = Interpreter!BodyIndexSet(M(word.a), word_b, word_c, none)
    BY <1>2, <1>3, <1>4, <1>5, <1>6 DEF Interpreter!Body
  <1>11. op \in Jumps => op \notin Arithmetic /\ op \notin Unaries
    BY <1>5
  <1>12. op = "Jump" => body = [none EXCEPT !.skip = word.b]
    BY <1>3, <1>4, <1>5, <1>6, <1>11 DEF Interpreter!Body
  <1>13. op = "JumpIfFalse" => body = [none EXCEPT !.skip = IF is_truthy(M(word.a)) THEN 0 ELSE word.b]
    BY <1>3, <1>4, <1>5, <1>6, <1>11 DEF Interpreter!Body
  <1>14. op = "JumpIfTrue" => body = [none EXCEPT !.skip = IF is_truthy(M(word.a)) THEN word.b ELSE 0]
    BY <1>3, <1>4, <1>5, <1>6, <1>11 DEF Interpreter!Body
  <1>15. QED  BY <1>1, <1>7, <1>8, <1>9, <1>10, <1>12, <1>13, <1>14

\* A computation that passes its checks is the interpreter's, wrap-around included.
LEMMA MachineArithmeticActsAlike ==
    ASSUME Safe, LengthsFit, ~Fused, MachineArithmetic
    PROVE  Interpreter!Operate
  <1>1. InMachineCode /\ ~Exits
    BY DEF MachineArithmetic, Store, Machine
  <1>2. PICK body : body = Interpreter!Body(word_op, word, Interpreter!NoEffect)
    OBVIOUS
  <1>3. CASE Store(Arithmetic, MachineBinary(word_op, word_b[2], word_c[2]))
    <2>1. word_op \in Arithmetic
      BY <1>3 DEF Store, Machine
    <2>2. IsValue(word_b, arrays, closures) /\ IsValue(word_c, arrays, closures)
      BY <1>1, <2>1, OperandsInCode
    <2>3. Is("int", word_b) /\ Is("int", word_c) /\ ~DivisorIsZero
      BY <1>1, <2>1 DEF Exits
    <2>4. /\ word_b[2] \in Ints /\ word_c[2] \in Ints
          /\ word_b = make_int(word_b[2]) /\ word_c = make_int(word_c[2])
      BY <2>2, <2>3, Contents
    <2>5. word_op \in {"Div", "Mod"} => word_c[2] # 0
      BY <2>3, <2>4 DEF DivisorIsZero
    <2>6. PICK v, operation : /\ v = MachineBinary(word_op, word_b[2], word_c[2])
                              /\ operation = BinaryOperation(word_op, word_b, word_c)
      OBVIOUS
    <2>7. operation = Ok(v)
      BY <2>1, <2>4, <2>5, <2>6, MachineComputes
    <2>8. body = Interpreter!Checked(word, operation, Interpreter!NoEffect)
      BY <1>1, <1>2, <2>1, <2>6, BodyInCode
    <2>9. QED  BY <1>2, <1>3, <2>1, <2>6, <2>7, <2>8, StoreOperates
  <1>4. CASE Store({"Neg"}, make_int(Wrap(-word_b[2])))
    <2>1. word_op = "Neg"
      BY <1>4 DEF Store, Machine
    <2>2. Is("int", word_b)
      BY <1>1, <2>1 DEF Exits
    <2>3. PICK v, operation : v = make_int(Wrap(-word_b[2])) /\ operation = op_negate(word_b)
      OBVIOUS
    <2>4. operation = Ok(v)
      BY <2>2, <2>3 DEF op_negate
    <2>5. body = Interpreter!Checked(word, operation, Interpreter!NoEffect)
      BY <1>1, <1>2, <2>1, <2>3, BodyInCode
    <2>6. QED  BY <1>2, <1>4, <2>1, <2>3, <2>4, <2>5, StoreOperates DEF Unaries
  <1>5. CASE Store({"IndexGet"}, arrays[word_b[2]][word_c[2] + 1])
    <2>1. word_op = "IndexGet"
      BY <1>5 DEF Store, Machine
    <2>2. IsValue(word_b, arrays, closures) /\ IsValue(word_c, arrays, closures)
      BY <1>1, <2>1, OperandsInCode
    <2>3. InArray(word_b, word_c)
      BY <1>1, <2>1 DEF Exits
    <2>4. word_c[2] \in 0 .. Len(arrays[word_b[2]]) - 1
      BY <2>2, <2>3, InArrayThere
    <2>5. PICK v, operation : /\ v = arrays[word_b[2]][word_c[2] + 1]
                              /\ operation = array_get(arrays, word_b, word_c)
      OBVIOUS
    <2>6. operation = Ok(v)
      BY <2>3, <2>4, <2>5 DEF array_get, resolve_index, InArray
    <2>7. body = Interpreter!Checked(word, operation, Interpreter!NoEffect)
      BY <1>1, <1>2, <2>1, <2>5, BodyInCode
    <2>8. QED  BY <1>2, <1>5, <2>1, <2>5, <2>6, <2>7, StoreOperates
  <1>6. QED  BY <1>3, <1>4, <1>5 DEF MachineArithmetic

\* A store into an array that passes its checks is the interpreter's.
LEMMA MachineIndexSetActsAlike ==
    ASSUME Safe, LengthsFit, ~Fused, MachineIndexSet
    PROVE  Interpreter!Operate
  <1>1. /\ InMachineCode /\ ~Exits /\ word_op = "IndexSet" /\ Proceed(1)
        /\ machine_code_unchanged' = machine_code_unchanged
        /\ UNCHANGED <<registers, frames>>
        /\ arrays' = array_set(arrays, M(word.a), word_b, word_c)
    BY DEF MachineIndexSet, Machine, array_set
  <1>2. IsValue(word_b, arrays, closures) /\ IsValue(M(word.a), arrays, closures)
    BY <1>1, OperandsInCode
  <1>3. InArray(M(word.a), word_b)
    BY <1>1 DEF Exits
  <1>4. word_b[2] \in 0 .. Len(arrays[M(word.a)[2]]) - 1
    BY <1>2, <1>3, InArrayThere
  <1>5. resolve_index(arrays, M(word.a), word_b) = NoError
    BY <1>3, <1>4 DEF resolve_index, InArray
  <1>6. PICK body : body = Interpreter!Body(word_op, word, Interpreter!NoEffect)
    OBVIOUS
  <1>7. body = Interpreter!BodyIndexSet(M(word.a), word_b, word_c, Interpreter!NoEffect)
    BY <1>1, <1>6, BodyInCode
  <1>8. PICK none : none = Interpreter!NoEffect
    OBVIOUS
  <1>9. /\ none.arrays = arrays /\ none.registers = registers /\ none.skip = 0 /\ none.error = NoError
        /\ none = Effect(registers, arrays, 0, NoError)
    BY <1>8, SameConstants DEF Interpreter!NoEffect, Effect
  <1>10. body = [none EXCEPT !.arrays = array_set(arrays, M(word.a), word_b, word_c)]
    BY <1>5, <1>7, <1>8, <1>9, SameOperations, SameConstants DEF Interpreter!BodyIndexSet
  <1>11. /\ body.arrays = arrays' /\ body.registers = registers /\ body.error = NoError
         /\ body.skip = 0
    BY <1>1, <1>9, <1>10 DEF Effect
  <1>12. Interpreter!Continue(1) /\ 1 + body.skip = 1
    BY <1>1, <1>11, CodeContinues
  <1>13. Interpreter!Take(body, 1)
    BY <1>1, <1>11, <1>12, SameVariables, SameConstants DEF Interpreter!Take, machine_code_unchanged
  <1>14. Interpreter!insn = word /\ word_op = word.op /\ Interpreter!Dispatch(word_op)
    BY <1>1, SameInCode, NotFusedHere, CodeDispatches
  <1>15. QED  BY <1>1, <1>6, <1>13, <1>14 DEF Interpreter!Operate

\* A jump is the interpreter's.
LEMMA MachineJumpActsAlike ==
    ASSUME Safe, ~Fused, MachineJump
    PROVE  Interpreter!Jump
  <1>1. /\ InMachineCode /\ word_op \in Jumps
        /\ machine_code_unchanged' = machine_code_unchanged
        /\ UNCHANGED <<arrays, registers, frames>>
    BY DEF MachineJump, Machine
  <1>2. PICK words : Proceed(words) /\ words = IF Jumping THEN 1 + word.b ELSE 1
    BY DEF MachineJump
  <1>3. PICK skip : skip = IF Jumping THEN word.b ELSE 0
    OBVIOUS
  <1>4. words = 1 + skip
    BY <1>2, <1>3
  <1>5. PICK body : body = Interpreter!Body(word_op, word, Interpreter!NoEffect)
    OBVIOUS
  <1>6. body = [Interpreter!NoEffect EXCEPT !.skip = skip]
    <2>1. Falsy(M(word.a)) <=> ~is_truthy(M(word.a))
      BY DEF Falsy, is_truthy
    <2>2. CASE word_op = "Jump"
      <3>1. skip = word.b
        BY <1>3, <2>2 DEF Jumping
      <3>2. QED  BY <1>1, <1>5, <2>2, <3>1, BodyInCode
    <2>3. CASE word_op = "JumpIfFalse"
      <3>1. skip = IF is_truthy(M(word.a)) THEN 0 ELSE word.b
        BY <1>3, <2>1, <2>3 DEF Jumping
      <3>2. QED  BY <1>1, <1>5, <2>3, <3>1, BodyInCode
    <2>4. CASE word_op = "JumpIfTrue"
      <3>1. skip = IF is_truthy(M(word.a)) THEN word.b ELSE 0
        BY <1>3, <2>1, <2>4 DEF Jumping
      <3>2. QED  BY <1>1, <1>5, <2>4, <3>1, BodyInCode
    <2>5. QED  BY <1>1, <2>2, <2>3, <2>4 DEF Jumps
  <1>7. /\ body.arrays = arrays /\ body.registers = registers /\ body.error = NoError
        /\ body.skip = skip
    BY <1>6, SameConstants DEF Interpreter!NoEffect
  <1>8. Interpreter!Continue(1 + body.skip)
    BY <1>1, <1>2, <1>4, <1>7, CodeContinues
  <1>9. Interpreter!Take(body, 1)
    BY <1>1, <1>7, <1>8, SameVariables, SameConstants DEF Interpreter!Take, machine_code_unchanged
  <1>10. Interpreter!insn = word /\ word_op = word.op /\ Interpreter!Dispatch(word_op)
    BY <1>1, SameInCode, NotFusedHere, CodeDispatches
  <1>11. QED  BY <1>1, <1>5, <1>9, <1>10, SameConstants DEF Interpreter!Jump

\* Leaving machine code is no step of the interpreter: it is where it would be.
LEMMA ExitStands ==
    ASSUME ExitToInterpreter \/ NestedBailout
    PROVE  UNCHANGED Interpreter!machine
  <1>1. /\ InMachineCode /\ activations' = <<>>
        /\ frames' = [frames EXCEPT ![Len(frames)].pc = activation.at]
        /\ machine_code_unchanged' = machine_code_unchanged /\ UNCHANGED <<arrays, registers>>
    BY DEF ExitToInterpreter, NestedBailout, Leaving
  <1>2. Interpreted' = Interpreted
    BY <1>1 DEF Interpreted, InMachineCode
  <1>3. QED  BY <1>1, <1>2 DEF Interpreter!machine, machine_code_unchanged, program_vars,
                                upvalue_vars, run_vars

\* A self-call that passes its checks is the interpreter's call of that function.
LEMMA SelfCallActsAlike ==
    ASSUME Safe, ~Fused, SelfCall, uncounted_frames \in {0, 1}
    PROVE  Interpreter!CallClosure
  <1>1. /\ InMachineCode /\ word_op = "Call" /\ SelfCallPasses
        /\ machine_code_unchanged' = machine_code_unchanged /\ UNCHANGED arrays
    BY DEF SelfCall, Machine, Exits
  <1>2. /\ activation.base = frame.base /\ frame.base \in Nat \ {0} /\ frames # <<>>
        /\ activation.at \in Nat /\ FunctionFits(function, functions)
    BY <1>1, HereInCode
  <1>3. PICK callee, base : callee = M(word.a) /\ base = NewBase
    OBVIOUS
  <1>4. /\ Interpreter!callee_value = callee /\ Interpreter!callee_base = base
        /\ Interpreter!insn = word /\ Len(Interpreted) = Len(frames)
    BY <1>1, <1>3, SameInCode DEF Interpreter!callee_value, Interpreter!callee_base, NewBase
  <1>5. Is("function", callee) /\ CodeOf(callee) = function /\ word.b = function.arity
    BY <1>1, <1>3 DEF SelfCallPasses, IsSelf, CodeOf, function
  <1>6. CallError(callee, word.b, base, Len(frames) - uncounted_frames) = NoError
    <2>1. word.a \in Nat
      BY <1>1, OperandsInCode DEF Word
    <2>2. PICK n \in Nat, b \in Nat, size \in Nat, u \in {0, 1} :
              n = Len(frames) /\ b = base /\ size = function.frame_size /\ u = uncounted_frames
      <3>1. Len(frames) \in Nat
        BY <1>1, SameInCode
      <3>2. NewBase \in Nat
        BY <1>2, <2>1 DEF NewBase
      <3>3. function.frame_size \in Nat
        BY <1>2 DEF FunctionFits
      <3>4. QED  BY <1>3, <3>1, <3>2, <3>3
    <2>3. n < MaxCallDepth + u /\ b + size <= RegisterSlots
      BY <1>1, <1>3, <2>2 DEF SelfCallPasses, DepthLeft, WindowLeft
    <2>4. ~(n - u >= MaxCallDepth) /\ ~(size > RegisterSlots - b)
      BY ONLY <2>2, <2>3, MaxCallDepthAssumption, RegisterSlotsAssumption
    <2>5. QED  BY <1>5, <2>2, <2>4 DEF CallError, Is
  <1>7. Interpreter!call_error = NoError
    BY <1>4, <1>6, SameCallError DEF Interpreter!call_error
  <1>8. registers' = Slide(callee, base, registers)
    BY <1>3 DEF SelfCall
  <1>9. PICK pc \in Nat : pc = activation.at + 1
    BY <1>2
  <1>10. frames' = Pushed(WithPc(pc), NewFrame(callee, base))
    BY <1>3, <1>9 DEF SelfCall, Pushed, WithPc
  <1>11. Interpreted' = frames'
    <2>1. StackInv /\ frames # <<>>
      BY <1>2 DEF Safe, FramesInv
    <2>2. /\ IsSequence(frames') /\ frames' # <<>> /\ Len(frames) \in Nat \ {0}
          /\ Len(frames') = Len(frames) + 1
          /\ DOMAIN frames = 1 .. Len(frames) /\ DOMAIN frames' = 1 .. Len(frames) + 1
          /\ frames'[Len(frames')] = [closure |-> callee[2], pc |-> 0, base |-> base]
          /\ frames'[Len(frames)] = [frames[Len(frames)] EXCEPT !.pc = pc]
          /\ frames'[Len(frames)].pc = pc
          /\ \A i \in 1 .. Len(frames) - 1 : frames'[i] = frames[i]
          /\ \A i \in DOMAIN frames' : IsFrame(frames'[i])
      BY ONLY <1>10, <2>1, FramePushed
    <2>3. activation'.at = 0 /\ activations' # <<>>
      <3>1. IsSequence(activations)
        BY DEF Safe, FramesInv, StackInv
      <3>2. PICK e : e = Activation(base)
        OBVIOUS
      <3>3. activations' = Pushed(activations, e)
        BY <1>3, <3>2 DEF SelfCall, Pushed
      <3>4. /\ Len(activations') = Len(activations) + 1 /\ Len(activations) \in Nat
            /\ activations'[Len(activations')] = e
        BY ONLY <3>1, <3>3, Appended
      <3>5. activations' # <<>>
        BY <3>4, Empty
      <3>6. QED  BY <3>2, <3>4, <3>5 DEF activation, Last, Activation
    <2>4. PICK fs : fs = frames'
      OBVIOUS
    <2>5. fs[Len(fs)] = NewFrame(callee, base) /\ IsSequence(fs) /\ fs # <<>>
      BY <2>2, <2>4 DEF NewFrame
    <2>6. [fs EXCEPT ![Len(fs)].pc = 0] = fs
      BY <2>5, AtFirstWord
    <2>7. QED  BY <2>3, <2>4, <2>6 DEF Interpreted, InMachineCode
  <1>12. [Interpreted EXCEPT ![Len(Interpreted)].pc = @ + 1] = WithPc(pc)
    <2>1. /\ Interpreted = WithPc(activation.at)
          /\ IsSequence(frames) /\ Len(frames) \in DOMAIN frames /\ IsFrame(frames[Len(frames)])
      <3>1. Len(frames) \in Nat \ {0} /\ IsSequence(frames)
        BY <1>1, SameInCode DEF Safe, FramesInv, StackInv
      <3>2. Len(frames) \in DOMAIN frames
        BY <3>1, SequenceIsRow
      <3>3. QED  BY <1>1, <3>1, <3>2, SameInCode DEF Safe, FramesInv, StackInv
    <2>2. PICK m, at : m = Len(frames) /\ at = activation.at
      OBVIOUS
    <2>3. [frames EXCEPT ![m].pc = at][m].pc = at
      BY <2>1, <2>2 DEF IsFrame
    <2>4. [[frames EXCEPT ![m].pc = at] EXCEPT ![m].pc = @ + 1] = [frames EXCEPT ![m].pc = at + 1]
      BY <2>1, <2>2, <2>3 DEF IsFrame
    <2>5. QED  BY <1>4, <1>9, <2>1, <2>2, <2>4 DEF WithPc
  <1>13. Interpreted' = Append([Interpreted EXCEPT ![Len(Interpreted)].pc = @ + 1],
                               NewFrame(callee, base))
    BY <1>10, <1>11, <1>12 DEF Pushed
  <1>14. Interpreter!Dispatch("Call")
    BY <1>1, CodeDispatches
  <1>15. QED  BY <1>1, <1>4, <1>5, <1>7, <1>8, <1>13, <1>14, SameSlide, SameVariables, SameConstants
              DEF Interpreter!CallClosure, machine_code_unchanged, Is, Interpreter!Is

\* Sequences of equal length with equal elements are equal.
LEMMA SameRows ==
    ASSUME NEW s, NEW t, IsSequence(s), IsSequence(t), NEW n, Len(s) = n, Len(t) = n,
           \A i \in 1 .. n : s[i] = t[i]
    PROVE  s = t
  <1>1. s = [i \in 1 .. n |-> s[i]] /\ t = [i \in 1 .. n |-> t[i]]
    BY SequenceIsRow
  <1>2. QED  BY <1>1

\* Where every open upvalue is below a register, none closes from there.
LEMMA NothingCloses ==
    ASSUME ValuesInv, NEW low \in Nat, NEW regs,
           \A i \in DOMAIN open_upvalues : location(open_upvalues[i]) < low,
           UNCHANGED upvalue_vars
    PROVE  Interpreter!close_upvalues(low, regs)
  <1>1. /\ IsSequence(upvalues) /\ IsSequence(open_upvalues)
        /\ \A i \in DOMAIN open_upvalues : open_upvalues[i] \in DOMAIN upvalues
        /\ \A u \in DOMAIN upvalues : upvalues[u].location \in Int
    BY RegisterSlotsAssumption DEF ValuesInv, UpvaluesFit, UpvalueFits, Slot, ClosedUpvalue
  <1>2. /\ Len(open_upvalues) \in Nat /\ DOMAIN open_upvalues = 1 .. Len(open_upvalues)
        /\ \A i \in DOMAIN open_upvalues : i \in Nat \ {0}
        /\ upvalues = [u \in DOMAIN upvalues |-> upvalues[u]]
    BY <1>1, SequenceIsRow
  <1>3. Interpreter!Leading(open_upvalues, upvalues, low) = {}
    <2> SUFFICES ASSUME NEW i \in DOMAIN open_upvalues,
                        \A j \in 1 .. i : upvalues[open_upvalues[j]].location >= low
                 PROVE  FALSE
      BY DEF Interpreter!Leading
    <2>1. i \in 1 .. i
      BY <1>2
    <2>2. upvalues[open_upvalues[i]].location >= low
          /\ upvalues[open_upvalues[i]].location < low
          /\ upvalues[open_upvalues[i]].location \in Int
      BY <1>1, <2>1 DEF location
    <2>3. QED  BY <2>2
  <1>4. Interpreter!Walked(open_upvalues, upvalues, low) = 0 /\ Interpreter!Closing(low) = {}
    <2>1. Interpreter!Cardinality({}) = Cardinality({})
      BY DEF Interpreter!Cardinality, Cardinality
    <2>2. Cardinality({}) = 0
      BY FS_EmptySet
    <2>3. QED  BY <1>3, <2>1, <2>2 DEF Interpreter!Walked, Interpreter!Closing
  <1>5. SubSeq(open_upvalues, 0 + 1, Len(open_upvalues)) = open_upvalues
    BY <1>1 DEF IsSequence
  <1>6. upvalues' = upvalues /\ open_upvalues' = open_upvalues
    BY DEF upvalue_vars
  <1>7. QED  BY <1>2, <1>4, <1>5, <1>6 DEF Interpreter!close_upvalues

\* A return to machine code is the interpreter's: there is no upvalue it would close.
LEMMA ReturnToCallerActsAlike ==
    ASSUME Safe, ~Fused, ReturnToCaller,
           \A i \in DOMAIN open_upvalues : location(open_upvalues[i]) < activation.base
    PROVE  Interpreter!Straight
  <1>1. /\ InMachineCode /\ ReturnsNow /\ Len(activations) > 1 /\ frames' = Front(frames)
        /\ machine_code_unchanged' = machine_code_unchanged /\ UNCHANGED arrays
    BY DEF ReturnToCaller, Leaving
  <1>2. PICK n, back : n = Len(activations) /\ back = activations[n - 1]
    OBVIOUS
  <1>3. /\ n \in Nat \ {0, 1} /\ DOMAIN activations = 1 .. n
        /\ back.at \in Nat /\ back.base \in Nat /\ function.code[back.at + 1].a \in Nat
        /\ activation.base = back.base + function.code[back.at + 1].a + 1
    BY <1>1, <1>2, CallerInCode
  <1>4. PICK v : v = IF word_op = "ReturnNil" THEN Nil
                     ELSE IF word.b_const THEN K(word.b)
                     ELSE registers[back.base + function.code[back.at + 1].a + 1 + word.b]
    OBVIOUS
  <1>5. registers' = [registers EXCEPT ![activation.base - 1] = v]
    <2>1. registers' = [registers EXCEPT ![back.base + function.code[back.at + 1].a] = v]
      BY <1>2, <1>4 DEF ReturnToCaller
    <2>2. activation.base - 1 = back.base + function.code[back.at + 1].a
      BY <1>3
    <2>3. QED  BY <2>1, <2>2
  <1>6. PICK m : m = Len(frames)
    OBVIOUS
  <1>7. /\ m \in Nat \ {0, 1} /\ n <= m /\ DOMAIN frames = 1 .. m
        /\ IsSequence(frames) /\ frames # <<>> /\ Len(Interpreted) = m
        /\ \A i \in DOMAIN frames : IsFrame(frames[i])
    <2>1. Len(activations) <= Len(frames) /\ Len(frames) \in Nat \ {0}
          /\ DOMAIN frames = 1 .. Len(frames) /\ frames # <<>>
      BY <1>1, InCode DEF Safe
    <2>2. QED  BY <1>1, <1>2, <1>3, <1>6, <2>1, SameInCode DEF Safe, FramesInv, StackInv
  <1>8. PICK rest : rest = Front(frames)
    OBVIOUS
  <1>9. IsSequence(rest) /\ Len(rest) = m - 1 /\ DOMAIN rest = 1 .. m - 1
        /\ \A i \in 1 .. m - 1 : rest[i] = frames[i]
    BY <1>6, <1>7, <1>8, Popped
  <1>10. Front(Interpreted) = rest
    <2>1. PICK fs, other, pc : fs = Interpreted /\ other = Front(fs) /\ pc = activation.at
      OBVIOUS
    <2>2. /\ IsSequence(fs) /\ fs # <<>> /\ Len(fs) = m
          /\ \A i \in 1 .. m - 1 : fs[i] = frames[i]
      <3>1. fs = WithPc(pc) /\ m \in DOMAIN frames
        BY <1>1, <1>7, <2>1, SameInCode
      <3>2. IsFrame(frames[Len(frames)])
        BY <1>6, <1>7, <3>1
      <3>3. IsSequence(frames) /\ frames # <<>>
        BY <1>7
      <3>4. /\ IsSequence(fs) /\ fs # <<>> /\ Len(fs) = Len(frames) /\ Len(frames) \in Nat \ {0}
            /\ DOMAIN fs = 1 .. Len(frames) /\ DOMAIN frames = 1 .. Len(frames)
            /\ fs[Len(frames)] = [frames[Len(frames)] EXCEPT !.pc = pc]
            /\ fs[Len(frames)].pc = pc
            /\ fs[Len(frames)].base = frames[Len(frames)].base
            /\ fs[Len(frames)].closure = frames[Len(frames)].closure
            /\ \A i \in 1 .. Len(frames) - 1 : fs[i] = frames[i]
        BY ONLY <3>1, <3>2, <3>3, MovedFrames
      <3>5. QED  BY <1>6, <3>4
    <2>3. IsSequence(other) /\ Len(other) = m - 1 /\ \A i \in 1 .. m - 1 : other[i] = fs[i]
      <3>1. /\ IsSequence(other) /\ Len(other) = Len(fs) - 1
            /\ \A i \in 1 .. Len(fs) - 1 : other[i] = fs[i]
        BY ONLY <2>1, <2>2, Popped
      <3>2. QED  BY ONLY <2>2, <3>1
    <2>4. other = rest
      BY <1>9, <2>2, <2>3, SameRows
    <2>5. QED  BY <2>1, <2>4
  <1>11. activation'.at = back.at + 1 /\ activations' # <<>>
    <2>1. PICK older, oldest, e : /\ older = Front(activations) /\ oldest = Front(older)
                                  /\ e = [back EXCEPT !.at = @ + 1]
      OBVIOUS
    <2>2. activations' = Pushed(oldest, e)
      BY <1>2, <2>1 DEF ReturnToCaller, Pushed
    <2>3. IsSequence(older) /\ Len(older) = n - 1 /\ older # <<>>
      <3>1. IsSequence(activations) /\ activations # <<>>
        BY <1>1 DEF Safe, FramesInv, StackInv, InMachineCode
      <3>2. IsSequence(older) /\ Len(older) = n - 1
        BY <1>2, <2>1, <3>1, Popped
      <3>3. QED  BY <1>3, <3>2, Empty
    <2>4. IsSequence(oldest)
      BY ONLY <2>1, <2>3, Popped
    <2>5. /\ Len(activations') = Len(oldest) + 1 /\ Len(oldest) \in Nat
          /\ activations'[Len(activations')] = e
      BY ONLY <2>2, <2>4, Appended
    <2>6. activations' # <<>>
      BY <2>5, Empty
    <2>7. IsActivation(back)
      <3>1. n - 1 \in DOMAIN activations
        BY <1>3
      <3>2. QED  BY <1>2, <3>1 DEF Safe, FramesInv, StackInv
    <2>8. e.at = back.at + 1
      BY ONLY <2>1, <2>7 DEF IsActivation
    <2>9. QED  BY <2>5, <2>6, <2>8 DEF activation, Last
  <1>12. frames[m - 1].pc = back.at + 1
    <2>1. n - 1 \in DOMAIN activations /\ m - n + (n - 1) = m - 1 /\ n - 1 < n
      BY <1>3, <1>7
    <2>2. QED  BY <1>2, <1>6, <2>1 DEF Safe, FramesInv, ActivationsMatchFrames
  <1>13. Interpreted' = rest
    <2>1. PICK at : at = back.at + 1
      OBVIOUS
    <2>2. Interpreted' = [rest EXCEPT ![m - 1].pc = at]
      BY <1>1, <1>8, <1>9, <1>11, <2>1 DEF Interpreted, InMachineCode
    <2>3. m - 1 \in DOMAIN rest /\ rest[m - 1].pc = at /\ IsFrame(rest[m - 1])
      <3>1. m - 1 \in 1 .. m - 1 /\ m - 1 \in 1 .. m
        BY <1>7
      <3>2. QED  BY <1>7, <1>9, <1>12, <2>1, <3>1
    <2>4. [rest[m - 1] EXCEPT !.pc = at] = rest[m - 1]
      BY <2>3 DEF IsFrame
    <2>5. rest = [i \in DOMAIN rest |-> rest[i]]
      BY <1>9, SequenceIsRow
    <2>6. [rest EXCEPT ![m - 1].pc = at] = rest
      BY <2>3, <2>4, <2>5
    <2>7. QED  BY <2>2, <2>6
  <1>14. Interpreter!close_upvalues(activation.base, registers)
    <2>1. UNCHANGED upvalue_vars
      BY <1>1, CodeKeeps
    <2>2. activation.base \in Nat
      BY <1>3
    <2>3. QED  BY <2>1, <2>2, NothingCloses DEF Safe
  <1>15. Interpreter!ReturnWith(v)
    <2>1. Interpreter!frame.base = activation.base
      BY <1>1, SameInCode
    <2>2. Interpreter!Front(Interpreted) = rest
      BY <1>10 DEF Interpreter!Front, Front
    <2>3. Len(Interpreted) # 1
      BY <1>7
    <2>4. QED  BY <1>1, <1>5, <1>13, <1>14, <2>1, <2>2, <2>3
               DEF Interpreter!ReturnWith, machine_code_unchanged, program_vars, run_vars,
                   Interpreter!program_vars
  <1>16. CASE word_op = "ReturnNil"
    <2>1. v = Nil
      BY <1>4, <1>16
    <2>2. Interpreter!ReturnNil
      BY <1>1, <1>15, <1>16, <2>1, CodeDispatches, SameConstants DEF Interpreter!ReturnNil
    <2>3. QED  BY <2>2 DEF Interpreter!Straight
  <1>17. CASE word_op # "ReturnNil"
    <2>1. word_op = "Return"
      BY <1>1, <1>17 DEF ReturnsNow
    <2>2. v = MRK(word.b_const, word.b)
      BY <1>3, <1>4, <1>17 DEF MRK, M
    <2>3. v = Interpreter!RK(Interpreter!insn.b_const, Interpreter!insn.b, registers)
      BY <1>1, <2>2, SameInCode
    <2>4. Interpreter!Return
      BY <1>1, <1>15, <2>1, <2>3, CodeDispatches DEF Interpreter!Return
    <2>5. QED  BY <2>4 DEF Interpreter!Straight
  <1>18. QED  BY <1>16, <1>17

-----------------------------------------------------------------------------
(* The order of the open upvalues.                                         *)

\* Closing from a register leaves the upvalues open that are below it, in order.
LEMMA ClosedBelow ==
    ASSUME ValuesInv, Falling(upvalues, open_upvalues), NEW low \in Nat, NEW regs,
           close_upvalues(low, regs)
    PROVE  /\ Falling(upvalues', open_upvalues') /\ OpenBelow(upvalues', open_upvalues', low)
           /\ IsSequence(open_upvalues')
  <1>1. PICK open, ups, n : open = open_upvalues /\ ups = upvalues /\ n = Len(open)
    OBVIOUS
  <1>2. IsSequence(open) /\ Falling(ups, open)
        /\ \A i \in DOMAIN open : open[i] \in DOMAIN ups
    BY <1>1 DEF ValuesInv, UpvaluesFit
  <1>3. /\ n \in Nat /\ DOMAIN open = 1 .. n
        /\ \A i \in 1 .. n : ups[open[i]].location \in Int
        /\ \A i, j \in 1 .. n : i < j => ups[open[i]].location > ups[open[j]].location
    BY ONLY <1>1, <1>2, FallingOf
  <1>4. PICK k \in 0 .. n :
               /\ Walked(open, ups, low) = k /\ Leading(open, ups, low) = 1 .. k
               /\ \A i \in 1 .. k : ups[open[i]].location >= low
               /\ k < n => ~(ups[open[k + 1]].location >= low)
    BY ONLY <1>1, <1>2, WalkStops
  <1>5. PICK rest, after : rest = open_upvalues' /\ after = upvalues'
    OBVIOUS
  <1>6. rest = SubSeq(open, k + 1, Len(open))
    BY <1>1, <1>4, <1>5 DEF close_upvalues
  <1>7. /\ IsSequence(rest) /\ Len(rest) = n - k
        /\ \A i \in DOMAIN rest : i + k \in DOMAIN open /\ rest[i] = open[i + k]
    <2>1. k \in 0 .. Len(open)
      BY <1>1
    <2>2. IsSequence(rest) /\ Len(rest) = Len(open) - k
          /\ \A i \in DOMAIN rest : i + k \in DOMAIN open /\ rest[i] = open[i + k]
      BY ONLY <1>2, <1>6, <2>1, RestOf
    <2>3. QED  BY <1>1, <2>2
  <1>8. DOMAIN rest = 1 .. n - k
    BY <1>7, SequenceIsRow
  <1>9. ASSUME NEW i \in 1 .. n - k
        PROVE  /\ after[rest[i]].location = ups[open[i + k]].location
               /\ ups[open[i + k]].location < low
               /\ i + k \in 1 .. n
    <2>1. i + k \in 1 .. n /\ rest[i] = open[i + k] /\ k + 1 \in 1 .. n /\ k < n
      BY <1>3, <1>7, <1>8
    <2>2. ups[open[k + 1]].location < low /\ ups[open[k + 1]].location \in Int
      BY <1>3, <1>4, <2>1
    <2>3. ups[open[i + k]].location \in Int
          /\ (i + k = k + 1 \/ ups[open[k + 1]].location > ups[open[i + k]].location)
      <3>1. i + k = k + 1 \/ k + 1 < i + k
        BY <1>3
      <3>2. QED  BY <1>3, <2>1, <3>1
    <2>4. ups[open[i + k]].location < low
      BY <2>2, <2>3
    <2>5. open[i + k] \notin {open[j] : j \in 1 .. k}
      <3> SUFFICES ASSUME NEW j \in 1 .. k, open[i + k] = open[j] PROVE FALSE
        OBVIOUS
      <3>1. ups[open[i + k]].location >= low
        BY <1>4
      <3>2. QED  BY <2>3, <2>4, <3>1
    <2>6. open[i + k] \in DOMAIN upvalues /\ open[i + k] \notin Closing(low)
      BY <1>1, <1>2, <1>3, <1>4, <2>1, <2>5 DEF Closing
    <2>7. after[open[i + k]] = ups[open[i + k]]
      BY <1>1, <1>5, <2>6 DEF close_upvalues
    <2>8. QED  BY <2>1, <2>4, <2>7
  <1>10. OpenBelow(after, rest, low)
    BY <1>8, <1>9 DEF OpenBelow
  <1>11. Falling(after, rest)
    <2>1. \A i \in 1 .. n - k : after[rest[i]].location \in Int
      BY <1>3, <1>9
    <2>2. ASSUME NEW i \in 1 .. n - k, NEW j \in 1 .. n - k, i < j
          PROVE  after[rest[i]].location > after[rest[j]].location
      <3>1. i + k < j + k
        BY <1>3, <2>2
      <3>2. ups[open[i + k]].location > ups[open[j + k]].location
        BY <1>3, <1>9, <3>1
      <3>3. QED  BY <1>9, <3>2
    <2>3. QED  BY ONLY <1>7, <1>8, <2>1, <2>2, FallingBy
  <1>12. QED  BY <1>5, <1>7, <1>10, <1>11

\* A register is captured by a new upvalue in its place of the list.
LEMMA CapturedFalling ==
    ASSUME NEW n, NEW s, CapturedFit(s, n), Falling(s.upvalues, s.open), NEW slot \in Slot,
           NEW t, t = capture_upvalue(slot, s)
    PROVE  Falling(t.upvalues, t.open)
  <1>1. PICK m, up : m = Len(s.open) /\ up = s.upvalues
    OBVIOUS
  <1>2. /\ IsSequence(s.open) /\ IsSequence(up)
        /\ \A i \in DOMAIN s.open : s.open[i] \in DOMAIN up
    BY <1>1 DEF CapturedFit, UpvaluesFit
  <1>3. /\ m \in Nat /\ DOMAIN s.open = 1 .. m
        /\ \A i \in 1 .. m : up[s.open[i]].location \in Int
    <2>1. PICK open : open = s.open
      OBVIOUS
    <2>2. IsSequence(open) /\ Falling(up, open) /\ m = Len(open)
      BY <1>1, <1>2, <2>1
    <2>3. /\ m \in Nat /\ DOMAIN open = 1 .. m
          /\ \A i \in 1 .. m : up[open[i]].location \in Int
          /\ \A i, j \in 1 .. m : i < j => up[open[i]].location > up[open[j]].location
      BY ONLY <2>2, FallingOf
    <2>4. QED  BY <2>1, <2>3
  <1>4. PICK above \in 0 .. m :
               /\ Walked(s.open, up, slot + 1) = above
               /\ \A i \in 1 .. above : up[s.open[i]].location >= slot + 1
               /\ above < m => ~(up[s.open[above + 1]].location >= slot + 1)
    BY <1>1, <1>2, WalkStops
  <1>5. slot \in Int
    BY RegisterSlotsAssumption DEF Slot
  <1>6. CASE above + 1 <= m /\ up[s.open[above + 1]].location = slot
    BY <1>1, <1>4, <1>6 DEF capture_upvalue
  <1>7. CASE ~(above + 1 <= m /\ up[s.open[above + 1]].location = slot)
    <2>1. PICK u, created : u = [location |-> slot, closed |-> Nil] /\ created = Len(up) + 1
      OBVIOUS
    <2>2. PICK ups, open : ups = Pushed(up, u) /\ open = Inserted(s.open, above, created)
      OBVIOUS
    <2>3. t.upvalues = ups /\ t.open = open
      <3>1. InsertAt(s.open, above + 1, created) = open
        <4>1. PICK k : k = above + 1
          OBVIOUS
        <4>2. k - 1 = above /\ k = above + 1
          BY ONLY <1>3, <4>1
        <4>3. QED  BY ONLY <2>2, <4>1, <4>2, InsertedAfter
      <3>2. QED  BY <1>1, <1>4, <1>7, <2>1, <2>2, <3>1 DEF capture_upvalue, Pushed
    <2>4. /\ IsSequence(ups) /\ DOMAIN up = 1 .. Len(up)
          /\ DOMAIN ups = 1 .. Len(up) + 1 /\ Len(up) \in Nat
          /\ Len(ups) = Len(up) + 1 /\ ups[Len(ups)] = u
          /\ \A i \in 1 .. Len(up) : ups[i] = up[i]
      BY ONLY <1>2, <2>2, Appended
    <2>5. ups[created].location = slot /\ created \in DOMAIN ups
          /\ \A i \in DOMAIN up : i \in DOMAIN ups /\ ups[i] = up[i]
      BY <2>1, <2>4
    <2>6. /\ IsSequence(open) /\ DOMAIN open = 1 .. m + 1
          /\ open[above + 1] = created /\ MovesUp(s.open, open, above)
      <3>1. PICK S, list : S = DOMAIN ups /\ list = s.open
        OBVIOUS
      <3>2. list \in Seq(S)
        <4>1. \A i \in 1 .. m : list[i] \in S
          BY <1>2, <1>3, <2>5, <3>1
        <4>2. list = [i \in 1 .. m |-> list[i]]
          <5>1. IsSequence(list) /\ m = Len(list)
            BY <1>1, <1>2, <3>1
          <5>2. QED  BY ONLY <5>1, SequenceIsRow
        <4>3. list \in [1 .. m -> S]
          BY ONLY <4>1, <4>2
        <4>4. QED  BY ONLY <1>3, <4>3, FunctionIsSeq
      <3>3. created \in S /\ m = Len(list) /\ open = Inserted(list, above, created)
        BY <1>1, <2>2, <2>5, <3>1
      <3>4. /\ open \in Seq(S) /\ DOMAIN open = 1 .. m + 1
            /\ open[above + 1] = created /\ MovesUp(list, open, above)
        BY ONLY <1>3, <1>4, <3>2, <3>3, InsertedAt
      <3>5. IsSequence(open)
        BY ONLY <3>4, ElementsOf
      <3>6. QED  BY <3>1, <3>4, <3>5
    <2>7. PICK f, g : f = OpenAt(up, s.open) /\ g = OpenAt(ups, open)
      OBVIOUS
    <2>8. /\ \A i \in 1 .. m : f[i] = up[s.open[i]].location
          /\ \A i \in 1 .. m + 1 : g[i] = ups[open[i]].location
      BY <1>3, <2>6, <2>7 DEF OpenAt
    <2>9. /\ \A i \in 1 .. above : i \in 1 .. m /\ i \in 1 .. m + 1 /\ i <= above
          /\ \A i \in above + 1 .. m : i \in 1 .. m /\ i + 1 \in 1 .. m + 1 /\ i > above
          /\ above + 1 \in 1 .. m + 1
          /\ above < m => above + 1 \in 1 .. m /\ above + 1 <= m
      BY <1>3, <1>4
    <2>10. \A i \in 1 .. above : f[i] > slot /\ g[i] = f[i]
      <3>1. ASSUME NEW i \in 1 .. above PROVE f[i] > slot /\ g[i] = f[i]
        <4>1. open[i] = s.open[i] /\ s.open[i] \in DOMAIN up
          BY <1>2, <1>3, <2>6, <2>9 DEF MovesUp
        <4>2. f[i] \in Int /\ f[i] >= slot + 1
          BY <1>3, <1>4, <2>8, <2>9
        <4>3. QED  BY <1>5, <2>5, <2>8, <2>9, <4>1, <4>2
      <3>2. QED  BY <3>1
    <2>11. above < m => f[above + 1] < slot
      <3>1. ASSUME above < m PROVE f[above + 1] < slot
        <4>1. /\ f[above + 1] \in Int /\ f[above + 1] # slot /\ ~(f[above + 1] >= slot + 1)
          BY <1>3, <1>4, <1>7, <2>8, <2>9, <3>1
        <4>2. QED  BY <1>5, <4>1
      <3>2. QED  BY <3>1
    <2>12. g[above + 1] = slot
      BY <2>5, <2>6, <2>8, <2>9
    <2>13. \A i \in above + 1 .. m : g[i + 1] = f[i]
      <3>1. ASSUME NEW i \in above + 1 .. m PROVE g[i + 1] = f[i]
        <4>1. open[i + 1] = s.open[i] /\ s.open[i] \in DOMAIN up
          BY <1>2, <1>3, <2>6, <2>9 DEF MovesUp
        <4>2. QED  BY <2>5, <2>8, <2>9, <4>1
      <3>2. QED  BY <3>1
    <2>14. Descending(f, m)
      BY <1>1, <2>7 DEF Falling
    <2>15. Descending(g, m + 1)
      BY ONLY <1>3, <1>4, <1>5, <2>10, <2>11, <2>12, <2>13, <2>14, InsertedInOrder
    <2>16. Len(open) = m + 1
      <3>1. Len(open) \in Nat /\ DOMAIN open = 1 .. Len(open)
        BY <2>6, SequenceIsRow
      <3>2. PICK l \in Nat : l = Len(open) /\ 1 .. l = 1 .. m + 1
        BY <2>6, <3>1
      <3>3. m + 1 \in 1 .. l /\ (l # 0 => l \in 1 .. m + 1)
        BY <1>3, <3>2
      <3>4. QED  BY <1>3, <3>2, <3>3
    <2>17. QED  BY <2>3, <2>7, <2>15, <2>16 DEF Falling
  <1>8. QED  BY <1>6, <1>7

-----------------------------------------------------------------------------
(* The invariant of the open upvalues.                                     *)

\* The open upvalues are in order; the run starts at register 1, and once it is over
\* no variable is captured above that; no call in machine code has one in its window.
OpenInv ==
    /\ Falling(upvalues, open_upvalues)
    /\ frames # <<>> => frames[1].base = 1
    /\ uncounted_frames \in {0, 1}
    /\ status # "running" => OpenBelow(upvalues, open_upvalues, 1)
    /\ \A k \in DOMAIN activations : OpenBelow(upvalues, open_upvalues, activations[k].base)

\* The part of it that only the upvalues and the status decide.
OpenAfter ==
    /\ Falling(upvalues', open_upvalues')
    /\ uncounted_frames' \in {0, 1}
    /\ status' # "running" => OpenBelow(upvalues', open_upvalues', 1)

\* An instruction that leaves upvalues alone keeps their order.
LEMMA KeepsOpen ==
    ASSUME OpenInv, UNCHANGED upvalue_vars, UNCHANGED run_vars PROVE OpenAfter
  BY DEF OpenInv, OpenAfter, upvalue_vars, run_vars

\* Where upvalues are open, or that they are closed, is a number.
LEMMA PlacesAreNumbers ==
    ASSUME ValuesInv
    PROVE  /\ \A u \in DOMAIN upvalues : upvalues[u].location \in Int
           /\ \A i \in DOMAIN open_upvalues : open_upvalues[i] \in DOMAIN upvalues
           /\ IsSequence(upvalues) /\ IsSequence(open_upvalues)
  BY RegisterSlotsAssumption DEF ValuesInv, UpvaluesFit, UpvalueFits, Slot, ClosedUpvalue

\* An error closes all.
LEMMA FailAtOpen ==
    ASSUME Safe, OpenInv, NEW m, NEW w, NEW regs, FailAt(m, w, regs) PROVE OpenAfter
  <1>1. close_upvalues(0, regs) /\ uncounted_frames' = uncounted_frames
    BY DEF FailAt
  <1>2. /\ Falling(upvalues', open_upvalues') /\ OpenBelow(upvalues', open_upvalues', 0)
        /\ IsSequence(open_upvalues')
    BY <1>1, ClosedBelow DEF Safe, OpenInv
  <1>3. OpenBelow(upvalues', open_upvalues', 1)
    <2>1. PICK ups, open, n : ups = upvalues' /\ open = open_upvalues' /\ n = Len(open)
      OBVIOUS
    <2>2. IsSequence(open)
      BY <1>2, <2>1
    <2>3. \A i \in 1 .. n : ups[open[i]].location \in Int
      BY <1>2, <2>1, <2>2, FallingOf
    <2>4. DOMAIN open = 1 .. n
      BY <2>1, <2>2, SequenceIsRow
    <2>5. \A i \in DOMAIN open : ups[open[i]].location < 0 => ups[open[i]].location < 1
      BY <2>3, <2>4
    <2>6. QED  BY <1>2, <2>1, <2>5 DEF OpenBelow
  <1>4. QED  BY <1>1, <1>2, <1>3 DEF OpenAfter, OpenInv

\* Writing a register keeps the order.
LEMMA SetOpen == ASSUME OpenInv, NEW v, Set(v) PROVE OpenAfter
  BY KeepsOpen DEF Set

\* So does taking an effect.
LEMMA TakeOpen == ASSUME Safe, OpenInv, NEW e, NEW w, Take(e, w) PROVE OpenAfter
  BY KeepsOpen, FailAtOpen DEF Take

\* So does an error.
LEMMA FailOpen == ASSUME Safe, OpenInv, NEW m, FAIL(m) PROVE OpenAfter
  BY FailAtOpen DEF FAIL

\* A return closes the upvalues of its frame, and of the run if it is the last.
LEMMA ReturnOpen ==
    ASSUME Safe, OpenInv, status = "running", NEW v, ReturnWith(v) PROVE OpenAfter
  <1>1. frames # <<>>
    BY DEF Safe, FramesInv, StackInv
  <1>2. /\ close_upvalues(frame.base, registers) /\ uncounted_frames' = uncounted_frames
        /\ status' # "running" => Len(frames) = 1
    BY DEF ReturnWith
  <1>3. frame.base \in Nat /\ frame = frames[Len(frames)]
    BY <1>1, Here
  <1>4. /\ Falling(upvalues', open_upvalues')
        /\ OpenBelow(upvalues', open_upvalues', frame.base)
    BY <1>2, <1>3, ClosedBelow DEF Safe, OpenInv
  <1>5. Len(frames) = 1 => frame.base = 1
    BY <1>1, <1>3 DEF OpenInv
  <1>6. QED  BY <1>2, <1>4, <1>5 DEF OpenAfter, OpenInv

\* A block's end closes its variables.
LEMMA CloseOpen == ASSUME Safe, OpenInv, Close PROVE OpenAfter
  <1>1. /\ close_upvalues(frame.base + insn.a, registers) /\ run_vars' = run_vars
        /\ status = "running"
    BY DEF Close, Dispatch
  <1>2. frame.base + insn.a \in Nat
    <2>1. frames # <<>> /\ insn.op = "Close" /\ insn.op \notin FusedNames
      BY <1>1 DEF Safe, FramesInv, StackInv, Close, Dispatch, FusedNames
    <2>2. frame.base + insn.a \in Slot
      BY <2>1, Plain, FusedNamesAre, OperandsHere DEF Close
    <2>3. QED  BY <2>2 DEF Slot
  <1>3. Falling(upvalues', open_upvalues')
    BY <1>1, <1>2, ClosedBelow DEF Safe, OpenInv
  <1>4. QED  BY <1>1, <1>3 DEF OpenAfter, OpenInv, run_vars

\* Writing a closed upvalue moves none.
LEMMA SetUpvalueOpen == ASSUME Safe, OpenInv, SetUpvalue PROVE OpenAfter
  <1>1. run_vars' = run_vars /\ open_upvalues' = open_upvalues
    BY DEF SetUpvalue
  <1>2. PICK u, v : upvalues' = upvalues \/ upvalues' = [upvalues EXCEPT ![u].closed = v]
    BY DEF SetUpvalue
  <1>3. \A i \in DOMAIN upvalues : upvalues'[i].location = upvalues[i].location
    <2>1. \A i \in DOMAIN upvalues :
             upvalues[i] = [location |-> upvalues[i].location, closed |-> upvalues[i].closed]
      BY DEF Safe, ValuesInv, UpvaluesFit, UpvalueFits
    <2>2. QED  BY <1>2, <2>1
  <1>4. OpenAt(upvalues', open_upvalues') = OpenAt(upvalues, open_upvalues)
    BY <1>1, <1>3, PlacesAreNumbers DEF OpenAt, Safe
  <1>5. Falling(upvalues', open_upvalues')
    BY <1>1, <1>4 DEF Falling, OpenInv
  <1>6. status' = "running"
    BY <1>1 DEF SetUpvalue, Dispatch, run_vars
  <1>7. QED  BY <1>1, <1>5, <1>6 DEF OpenAfter, OpenInv, run_vars

\* A function made captures in order.
LEMMA WordsFalling ==
    ASSUME Safe, OpenInv, frames # <<>>, NEW words, NEW N \in Nat, N = Len(words),
           \A i \in 1 .. N : CaptureFits(function, words[i])
    PROVE  Falling(Captured(words).upvalues, Captured(words).open)
  <1>1. PICK after : after = Capturing(words) /\ IsCapturing(after, words, N)
    BY CapturingSteps
  <1>2. PICK T : T = {n \in 0 .. N : /\ CapturedFit(after[n], n)
                                     /\ Falling(after[n].upvalues, after[n].open)}
    OBVIOUS
  <1>3. \A k \in 0 .. N : after[k] = IF k = 0 THEN NothingCaptured
                                     ELSE capture(words[k], after[k - 1])
    BY <1>1 DEF IsCapturing
  <1>4. 0 \in T
    <2>1. after[0] = NothingCaptured
      BY <1>3
    <2>2. CapturedFit(NothingCaptured, 0)
      <3>1. UpvaluesFit(upvalues, open_upvalues, arrays, closures)
        BY DEF Safe, ValuesInv
      <3>2. QED  BY <3>1, Empty DEF CapturedFit, CaptureState, NothingCaptured
    <2>3. Falling(NothingCaptured.upvalues, NothingCaptured.open)
      BY DEF NothingCaptured, OpenInv
    <2>4. QED  BY <1>2, <2>1, <2>2, <2>3
  <1>5. ASSUME NEW n \in 0 .. N - 1, n \in T PROVE n + 1 \in T
    <2>1. PICK k : k = n + 1
      OBVIOUS
    <2>2. k \in 1 .. N /\ k \in 0 .. N /\ k # 0 /\ k - 1 = n
      BY ONLY <2>1, n \in 0 .. N - 1, N \in Nat
    <2>3. PICK s, t, w : s = after[n] /\ t = after[k] /\ w = words[k]
      OBVIOUS
    <2>4. t = capture(w, s)
      BY <1>3, <2>2, <2>3
    <2>5. CapturedFit(s, n) /\ Falling(s.upvalues, s.open) /\ CaptureFits(function, w)
      BY <1>2, <1>5, <2>2, <2>3
    <2>6. CapturedFit(t, n + 1)
      BY <2>4, <2>5, WordCaptured
    <2>7. Falling(t.upvalues, t.open)
      <3>1. CASE w.a = 1
        <4>1. t = capture_upvalue(frame.base + w.b, s)
          BY <2>4, <3>1 DEF capture
        <4>2. frame.base + w.b \in Slot
          BY <2>5, <3>1, Here DEF CaptureFits
        <4>3. QED  BY <2>5, <4>1, <4>2, CapturedFalling
      <3>2. CASE w.a # 1
        <4>1. t = [s EXCEPT !.captured = Append(@, closure.upvalues[w.b + 1])]
          BY <2>4, <3>2 DEF capture
        <4>2. s = CaptureState(s.upvalues, s.open, s.captured)
          BY <2>5 DEF CapturedFit
        <4>3. t.upvalues = s.upvalues /\ t.open = s.open
          BY <4>1, <4>2 DEF CaptureState
        <4>4. QED  BY <2>5, <4>3
      <3>3. QED  BY <3>1, <3>2
    <2>8. QED  BY <1>2, <2>1, <2>2, <2>3, <2>6, <2>7
  <1>6. \A n \in 0 .. N : n \in T
    BY ONLY <1>4, <1>5, N \in Nat, CountUp
  <1>7. N \in T
    BY <1>6
  <1>8. QED  BY <1>1, <1>2, <1>7, CapturedIs

\* So does a function made.
LEMMA ClosureOpen == ASSUME Safe, OpenInv, Closure PROVE OpenAfter
  <1>1. frames # <<>> /\ unfused_op(insn) = "Closure"
    BY Plain, FusedNamesAre DEF Closure, FusedNames
  <1>2. PICK made : made = K(insn.b)[2]
    OBVIOUS
  <1>3. PICK words : words = SubSeq(function.code, frame.pc + 2,
                                    frame.pc + 1 + Len(functions[made].upvalues))
    OBVIOUS
  <1>4. PICK s, N : s = Captured(words) /\ N = Len(words)
    OBVIOUS
  <1>5. upvalues' = s.upvalues /\ open_upvalues' = s.open /\ run_vars' = run_vars
        /\ status = "running"
    BY <1>2, <1>3, <1>4 DEF Closure, Dispatch
  <1>6. N \in Nat /\ \A i \in 1 .. N : CaptureFits(function, words[i])
    BY <1>1, <1>2, <1>3, <1>4, WordsHere
  <1>7. Falling(s.upvalues, s.open)
    BY <1>1, <1>4, <1>6, WordsFalling
  <1>8. QED  BY <1>5, <1>7 DEF OpenAfter, OpenInv, run_vars

\* Every instruction that neither jumps nor calls keeps the order.
LEMMA StraightOpen == ASSUME Safe, OpenInv, Straight PROVE OpenAfter
  <1>1. CASE Move \/ LoadK \/ LoadNil \/ LoadTrue \/ LoadFalse \/ GetUpvalue
    BY <1>1, SetOpen DEF Move, LoadK, LoadNil, LoadTrue, LoadFalse, GetUpvalue, Load
  <1>2. CASE GetGlobal \/ Array
    BY <1>2, SetOpen DEF GetGlobal, Array
  <1>3. CASE SetGlobal \/ DefineGlobal
    BY <1>3, KeepsOpen DEF SetGlobal, DefineGlobal, StoreGlobal
  <1>4. CASE GlobalFails \/ CallFails
    BY <1>4, FailOpen DEF GlobalFails, CallFails
  <1>5. CASE Operate
    BY <1>5, TakeOpen DEF Operate
  <1>6. CASE ArrayAppend \/ PrintValue
    BY <1>6, KeepsOpen DEF ArrayAppend, PrintValue
  <1>7. CASE CallNativeFunction
    BY <1>7, FailOpen, SetOpen DEF CallNativeFunction
  <1>8. CASE Return \/ ReturnNil
    BY <1>8, ReturnOpen DEF Return, ReturnNil, Dispatch
  <1>9. QED  BY <1>1, <1>2, <1>3, <1>4, <1>5, <1>6, <1>7, <1>8, SetUpvalueOpen, ClosureOpen,
                CloseOpen DEF Straight

\* So do jumps and superinstructions.
LEMMA BranchOpen == ASSUME Safe, OpenInv, Branch PROVE OpenAfter
  BY TakeOpen DEF Branch, Jump, Superinstruction

\* The frame at the bottom stays where it is.
LEMMA BottomStays ==
    ASSUME StackInv, frames # <<>>, frames[1].base = 1,
           \/ \E pc : frames' = [frames EXCEPT ![Len(frames)].pc = pc]
           \/ frames' = <<>>
           \/ frames' = Front(frames)
           \/ \E pc, callee, base : frames' = Pushed(WithPc(pc), NewFrame(callee, base))
    PROVE  frames' # <<>> => frames'[1].base = 1
  <1>1. /\ IsSequence(frames) /\ Len(frames) \in Nat \ {0} /\ DOMAIN frames = 1 .. Len(frames)
        /\ 1 \in DOMAIN frames /\ IsFrame(frames[1])
    <2>1. IsSequence(frames) /\ Len(frames) \in Nat /\ DOMAIN frames = 1 .. Len(frames)
      BY SequenceIsRow DEF StackInv
    <2>2. Len(frames) # 0
      BY DEF StackInv, IsSequence
    <2>3. 1 \in 1 .. Len(frames)
      BY <2>1, <2>2
    <2>4. QED  BY <2>1, <2>2, <2>3 DEF StackInv
  <1>2. CASE \E pc : frames' = [frames EXCEPT ![Len(frames)].pc = pc]
    BY <1>1, <1>2 DEF IsFrame
  <1>3. CASE frames' = <<>>
    BY <1>3
  <1>4. CASE frames' = Front(frames)
    <2>1. PICK t, n : t = Front(frames) /\ n = Len(frames)
      OBVIOUS
    <2>2. /\ IsSequence(t) /\ Len(t) = n - 1 /\ DOMAIN t = 1 .. n - 1
          /\ \A i \in 1 .. n - 1 : t[i] = frames[i]
      BY <1>1, <2>1, Popped
    <2>3. t # <<>> => n - 1 # 0
      BY <2>2 DEF IsSequence
    <2>4. n - 1 # 0 => 1 \in 1 .. n - 1
      BY <1>1, <2>1
    <2>5. QED  BY <1>4, <2>1, <2>2, <2>3, <2>4
  <1>5. CASE \E pc, callee, base : frames' = Pushed(WithPc(pc), NewFrame(callee, base))
    <2>1. PICK pc, callee, base : frames' = Pushed(WithPc(pc), NewFrame(callee, base))
      BY <1>5
    <2>2. /\ IsSequence(frames') /\ frames' # <<>> /\ Len(frames) \in Nat \ {0}
          /\ Len(frames') = Len(frames) + 1
          /\ DOMAIN frames = 1 .. Len(frames) /\ DOMAIN frames' = 1 .. Len(frames) + 1
          /\ frames'[Len(frames')] = [closure |-> callee[2], pc |-> 0, base |-> base]
          /\ frames'[Len(frames)] = [frames[Len(frames)] EXCEPT !.pc = pc]
          /\ frames'[Len(frames)].pc = pc
          /\ \A i \in 1 .. Len(frames) - 1 : frames'[i] = frames[i]
          /\ \A i \in DOMAIN frames' : IsFrame(frames'[i])
      BY ONLY <2>1, StackInv, frames # <<>>, FramePushed
    <2>3. CASE Len(frames) = 1
      BY <1>1, <2>2, <2>3 DEF IsFrame
    <2>4. CASE Len(frames) # 1
      <3>1. 1 \in 1 .. Len(frames) - 1
        BY <1>1, <2>4
      <3>2. QED  BY <2>2, <3>1
    <2>5. QED  BY <2>3, <2>4
  <1>6. QED  BY <1>2, <1>3, <1>4, <1>5

\* The window of a call in machine code is where that of an earlier one is, or above.
LEMMA MachineBases ==
    ASSUME Safe, RunMachineCode, NEW k \in DOMAIN activations'
    PROVE  \E j \in DOMAIN activations :
               \/ activations'[k].base = activations[j].base
               \/ /\ activations'[k].base \in Nat /\ activations[j].base \in Nat
                  /\ activations'[k].base > activations[j].base
  <1>1. /\ InMachineCode /\ IsSequence(activations) /\ activations # <<>>
        /\ \A i \in DOMAIN activations : IsActivation(activations[i])
    BY DEF RunMachineCode, MachineLoad, MachineArithmetic, MachineIndexSet, MachineJump, Store,
           Machine, SelfCall, ExitToInterpreter, ReturnToCaller, NestedBailout, Leaving,
           Safe, FramesInv, StackInv, InMachineCode
  <1>2. PICK n : n = Len(activations)
    OBVIOUS
  <1>3. n \in Nat \ {0} /\ DOMAIN activations = 1 .. n
    <2>1. n \in Nat /\ DOMAIN activations = 1 .. n
      BY <1>1, <1>2, SequenceIsRow
    <2>2. n # 0
      BY <1>1, <1>2 DEF IsSequence
    <2>3. QED  BY <2>1, <2>2
  <1>4. CASE \E words : Proceed(words)
    <2>1. PICK words : activations' = [activations EXCEPT ![n].at = @ + words]
      BY <1>2, <1>4 DEF Proceed
    <2>2. QED  BY <1>1, <2>1 DEF IsActivation
  <1>5. CASE activations' = <<>>
    BY <1>5, Empty
  <1>6. CASE SelfCall
    <2>1. word_op = "Call" /\ activation.base \in Nat /\ activation = activations[n]
      BY <1>1, <1>2, <1>6, HereInCode DEF SelfCall, Machine, activation, Last
    <2>2. word.a \in Nat
      BY <1>1, <2>1, OperandsInCode DEF Word
    <2>3. PICK base, top : base = NewBase /\ top = activation.base
      OBVIOUS
    <2>4. base \in Nat /\ base > top /\ top \in Nat
      BY <2>1, <2>2, <2>3 DEF NewBase
    <2>5. PICK e, more : e = Activation(base) /\ more = activations'
      OBVIOUS
    <2>6. more = Pushed(activations, e)
      BY <1>6, <2>3, <2>5 DEF SelfCall, Pushed
    <2>7. /\ Len(more) = Len(activations) + 1
          /\ DOMAIN more = 1 .. Len(activations) + 1 /\ more[Len(more)] = e
          /\ \A i \in 1 .. Len(activations) : more[i] = activations[i]
      BY ONLY <1>1, <2>6, Appended
    <2>8. CASE k = n + 1
      <3>1. activations'[k].base = base
        BY <1>2, <2>5, <2>7, <2>8 DEF Activation
      <3>2. n \in DOMAIN activations /\ activations[n].base = top
        BY <1>3, <2>1, <2>3
      <3>3. QED  BY <2>4, <3>1, <3>2
    <2>9. CASE k # n + 1
      <3>1. k \in 1 .. n
        BY <1>2, <1>3, <2>5, <2>7, <2>9
      <3>2. QED  BY <1>2, <1>3, <2>5, <2>7, <3>1
    <2>10. QED  BY <2>8, <2>9
  <1>7. CASE ReturnToCaller
    <2>1. PICK back : back = activations[n - 1]
      OBVIOUS
    <2>2. n \in Nat \ {0, 1}
      BY <1>2, <1>3, <1>7 DEF ReturnToCaller
    <2>3. PICK older, oldest, e : /\ older = Front(activations) /\ oldest = Front(older)
                                  /\ e = [back EXCEPT !.at = @ + 1]
      OBVIOUS
    <2>4. activations' = Pushed(oldest, e)
      BY <1>2, <1>7, <2>1, <2>3 DEF ReturnToCaller, Pushed
    <2>5. /\ IsSequence(older) /\ Len(older) = n - 1 /\ older # <<>>
          /\ \A i \in 1 .. n - 1 : older[i] = activations[i]
      <3>1. /\ IsSequence(older) /\ Len(older) = n - 1
            /\ \A i \in 1 .. n - 1 : older[i] = activations[i]
        BY <1>1, <1>2, <2>3, Popped
      <3>2. older # <<>>
        BY <2>2, <3>1, Empty
      <3>3. QED  BY <3>1, <3>2
    <2>6. /\ IsSequence(oldest) /\ Len(oldest) = n - 2
          /\ \A i \in 1 .. n - 2 : oldest[i] = activations[i]
      <3>1. /\ IsSequence(oldest) /\ Len(oldest) = Len(older) - 1
            /\ \A i \in 1 .. Len(older) - 1 : oldest[i] = older[i]
        BY ONLY <2>3, <2>5, Popped
      <3>2. Len(older) - 1 = n - 2 /\ \A i \in 1 .. n - 2 : i \in 1 .. n - 1
        BY <2>2, <2>5
      <3>3. QED  BY <2>5, <3>1, <3>2
    <2>7. /\ DOMAIN activations' = 1 .. n - 1 /\ activations'[n - 1] = e
          /\ \A i \in 1 .. n - 2 : activations'[i] = activations[i]
      <3>1. PICK less : less = activations'
        OBVIOUS
      <3>2. /\ Len(less) = Len(oldest) + 1
            /\ DOMAIN less = 1 .. Len(oldest) + 1
            /\ less[Len(less)] = e
            /\ \A i \in 1 .. Len(oldest) : less[i] = oldest[i]
        BY ONLY <2>4, <2>6, <3>1, Appended
      <3>3. Len(oldest) + 1 = n - 1
        BY <2>2, <2>6
      <3>4. QED  BY <2>6, <3>1, <3>2, <3>3
    <2>8. e.base = back.base
      <3>1. IsActivation(back)
        <4>1. n - 1 \in DOMAIN activations
          BY <1>3, <2>2
        <4>2. QED  BY <1>1, <2>1, <4>1
      <3>2. QED  BY ONLY <2>3, <3>1 DEF IsActivation
    <2>9. k \in DOMAIN activations /\ activations'[k].base = activations[k].base
      <3>1. k \in 1 .. n - 1 /\ k \in 1 .. n /\ (k = n - 1 \/ k \in 1 .. n - 2)
        BY <2>2, <2>7
      <3>2. QED  BY <1>3, <2>1, <2>7, <2>8, <3>1
    <2>10. QED  BY <2>9
  <1>8. QED
    BY <1>4, <1>5, <1>6, <1>7 DEF RunMachineCode, MachineLoad, MachineArithmetic, MachineIndexSet,
       MachineJump, Store, ExitToInterpreter, NestedBailout

\* Machine code neither captures nor closes.
LEMMA MachineOpen == ASSUME Safe, OpenInv, RunMachineCode PROVE OpenInv'
  <1>1. /\ machine_code_unchanged' = machine_code_unchanged
        /\ InMachineCode
    BY DEF RunMachineCode, MachineLoad, MachineArithmetic, MachineIndexSet, MachineJump, Store,
           Machine, SelfCall, ExitToInterpreter, ReturnToCaller, NestedBailout, Leaving
  <1>2. /\ upvalues' = upvalues /\ open_upvalues' = open_upvalues
        /\ uncounted_frames' = uncounted_frames /\ status' = status
    BY <1>1 DEF machine_code_unchanged, upvalue_vars, run_vars
  <1>3. frames' # <<>> => frames'[1].base = 1
    <2>1. StackInv /\ frames # <<>> /\ frames[1].base = 1
      BY <1>1, HereInCode DEF Safe, FramesInv, OpenInv
    <2>2. CASE frames' = frames
      BY <2>1, <2>2
    <2>3. CASE ExitToInterpreter \/ NestedBailout
      <3>1. \E pc : frames' = [frames EXCEPT ![Len(frames)].pc = pc]
        BY <2>3 DEF ExitToInterpreter, NestedBailout
      <3>2. QED  BY ONLY <2>1, <3>1, BottomStays
    <2>4. CASE SelfCall
      <3>1. PICK pc, callee, base : pc = activation.at + 1 /\ callee = M(word.a) /\ base = NewBase
        OBVIOUS
      <3>2. frames' = Pushed(WithPc(pc), NewFrame(callee, base))
        BY <2>4, <3>1 DEF SelfCall, Pushed, WithPc
      <3>3. \E pcs, callees, bases : frames' = Pushed(WithPc(pcs), NewFrame(callees, bases))
        BY <3>2
      <3>4. QED  BY ONLY <2>1, <3>3, BottomStays
    <2>5. CASE ReturnToCaller
      <3>1. frames' = Front(frames)
        BY <2>5 DEF ReturnToCaller
      <3>2. QED  BY ONLY <2>1, <3>1, BottomStays
    <2>6. QED
      BY <2>2, <2>3, <2>4, <2>5 DEF RunMachineCode, MachineLoad, MachineArithmetic,
         MachineIndexSet, MachineJump, Store
  <1>4. ASSUME NEW k \in DOMAIN activations'
        PROVE  OpenBelow(upvalues, open_upvalues, activations'[k].base)
    <2>1. PICK j \in DOMAIN activations :
               \/ activations'[k].base = activations[j].base
               \/ /\ activations'[k].base \in Nat /\ activations[j].base \in Nat
                  /\ activations'[k].base > activations[j].base
      BY MachineBases
    <2>2. OpenBelow(upvalues, open_upvalues, activations[j].base)
      BY DEF OpenInv
    <2>3. CASE activations'[k].base = activations[j].base
      BY <2>2, <2>3
    <2>4. CASE activations'[k].base # activations[j].base
      <3>1. PICK b \in Nat, low \in Nat :
                b = activations'[k].base /\ low = activations[j].base /\ b > low
        BY <2>1, <2>4
      <3>2. \A i \in DOMAIN open_upvalues : upvalues[open_upvalues[i]].location \in Int
        BY PlacesAreNumbers DEF Safe
      <3>3. \A i \in DOMAIN open_upvalues : upvalues[open_upvalues[i]].location < b
        BY <2>2, <3>1, <3>2 DEF OpenBelow
      <3>4. QED  BY <3>1, <3>3 DEF OpenBelow
    <2>5. QED  BY <2>3, <2>4
  <1>5. QED  BY <1>2, <1>3, <1>4 DEF OpenInv

\* A function called with its window above every captured variable.
LEMMA InterpretOpen ==
    ASSUME Safe, OpenInv, CallsAboveVariables, Interpret PROVE OpenInv'
  <1>1. ~InMachineCode /\ activations = <<>> /\ StackInv
    BY DEF Interpret, InMachineCode, Safe, FramesInv
  <1>2. CASE (Straight \/ Branch) /\ UNCHANGED activations
    <2>1. OpenAfter
      BY <1>2, StraightOpen, BranchOpen
    <2>2. status = "running" /\ (GoesOn \/ Fails \/ PopsFrame)
      BY <1>2, StraightMoves, BranchMoves
    <2>3. frames # <<>> /\ frames[1].base = 1
      BY <1>1, <2>2 DEF StackInv, OpenInv
    <2>4. \/ \E pc : frames' = [frames EXCEPT ![Len(frames)].pc = pc]
          \/ frames' = <<>>
          \/ frames' = Front(frames)
      BY <2>2 DEF GoesOn, Fails, PopsFrame
    <2>5. frames' # <<>> => frames'[1].base = 1
      BY ONLY <1>1, <2>3, <2>4, BottomStays
    <2>6. DOMAIN activations' = {}
      BY <1>1, <1>2, Empty
    <2>7. QED  BY <2>1, <2>5, <2>6 DEF OpenInv, OpenAfter
  <1>3. CASE CallClosure /\ jit_frame_entry(closures[callee_value[2]].function, callee_base)
    <2>1. /\ UNCHANGED upvalue_vars /\ UNCHANGED run_vars /\ status = "running"
          /\ insn.op = "Call" /\ frames # <<>>
      BY <1>1, <1>3 DEF CallClosure, Dispatch, StackInv
    <2>2. OpenAfter
      BY <2>1, KeepsOpen
    <2>3. PICK pc, callee, base :
              base = callee_base /\ frames' = Pushed(WithPc(pc), NewFrame(callee, base))
      BY <1>3 DEF CallClosure, Pushed, WithPc
    <2>4. frames' # <<>> => frames'[1].base = 1
      <3>1. frames[1].base = 1
        BY <2>1 DEF OpenInv
      <3>2. \E pcs, callees, bases : frames' = Pushed(WithPc(pcs), NewFrame(callees, bases))
        BY <2>3
      <3>3. QED  BY ONLY <1>1, <2>1, <3>1, <3>2, BottomStays
    <2>5. OpenBelow(upvalues, open_upvalues, base)
      BY <1>1, <2>1, <2>3 DEF CallsAboveVariables, OpenBelow, location
    <2>6. activations' = <<>> \/ activations' = <<Activation(base)>>
      BY <1>3, <2>3 DEF jit_frame_entry
    <2>7. \A k \in DOMAIN activations' : activations'[k].base = base
      BY <2>6, Single, Empty DEF Activation
    <2>8. QED  BY <2>1, <2>2, <2>4, <2>5, <2>7 DEF OpenInv, OpenAfter, upvalue_vars
  <1>4. QED  BY <1>2, <1>3 DEF Interpret, jit_back_edge, jit_vars

\* A call from outside starts at register 1.
LEMMA EntryOpen == ASSUME Safe, OpenInv, call_entry PROVE OpenInv'
  <1>1. /\ status # "running" /\ upvalues' = upvalues /\ open_upvalues' = open_upvalues
        /\ activations = <<>> /\ uncounted_frames' \in {uncounted_frames, 0}
    BY DEF call_entry, call_global, upvalue_vars, Safe, FramesInv, StackInv
  <1>2. OpenBelow(upvalues, open_upvalues, 1)
    BY <1>1 DEF OpenInv
  <1>3. frames' # <<>> => frames'[1].base = 1
    <2>1. frames' = frames \/ frames' = <<NewFrame(globals[Entry], 1)>>
      BY DEF call_entry, call_global
    <2>2. QED  BY <2>1, Single DEF OpenInv, NewFrame
  <1>4. \A k \in DOMAIN activations' : activations'[k].base = 1
    <2>1. activations' = <<>> \/ activations' = <<Activation(1)>>
      BY <1>1 DEF call_entry, jit_frame_entry, jit_vars
    <2>2. QED  BY <2>1, Single, Empty DEF Activation
  <1>5. QED  BY <1>1, <1>2, <1>3, <1>4 DEF OpenInv

\* At first nothing is captured.
LEMMA OpenInit == MachineInit => OpenInv
  <1> SUFFICES ASSUME MachineInit PROVE OpenInv
    OBVIOUS
  <1>1. /\ upvalues = <<>> /\ open_upvalues = <<>> /\ uncounted_frames = 1 /\ activations = <<>>
        /\ frames = <<[closure |-> 1, pc |-> 0, base |-> 1]>> /\ status = "running"
    BY DEF MachineInit, run, attach_jit
  <1>2. Falling(upvalues, open_upvalues)
    BY <1>1, Empty DEF Falling, Descending
  <1>3. QED  BY <1>1, <1>2, Single, Empty DEF OpenInv

\* Every step keeps the order while calls are above the variables.
LEMMA OpenNext ==
    ASSUME Safe, OpenInv, CallsAboveVariables, [MachineNext]_machine_vars PROVE OpenInv'
  <1>1. CASE MachineNext
    BY <1>1, InterpretOpen, MachineOpen, EntryOpen DEF MachineNext
  <1>2. CASE UNCHANGED machine_vars
    BY <1>2 DEF machine_vars, machine, jit_vars, OpenInv
  <1>3. QED  BY <1>1, <1>2

-----------------------------------------------------------------------------
(* Machine code acts as the interpreter.                                   *)

\* Every step is the interpreter's.
LEMMA ActsAlike ==
    ASSUME Safe, CompiledInv, inline_cache \in BOOLEAN, OpenInv, LengthsFit, FramesInv', ~Fused,
           [MachineNext]_machine_vars
    PROVE  [Interpreter!Step \/ Interpreter!call_global]_Interpreter!machine
  <1>1. CASE Interpret
    BY <1>1, InterpretsAlone, InterpretActsAlike
  <1>2. CASE call_entry
    <2>1. AsOne /\ call_global
      BY <1>2, EntersAlone DEF call_entry
    <2>2. QED  BY <2>1, EntryActsAlike
  <1>3. CASE RunMachineCode
    <2>1. CASE MachineLoad
      BY <2>1, MachineLoadActsAlike DEF Interpreter!Step
    <2>2. CASE MachineArithmetic
      BY <2>2, MachineArithmeticActsAlike DEF Interpreter!Step, Interpreter!Straight
    <2>3. CASE MachineIndexSet
      BY <2>3, MachineIndexSetActsAlike DEF Interpreter!Step, Interpreter!Straight
    <2>4. CASE MachineJump
      BY <2>4, MachineJumpActsAlike DEF Interpreter!Step, Interpreter!Branch
    <2>5. CASE SelfCall
      BY <2>5, SelfCallActsAlike DEF Interpreter!Step, OpenInv
    <2>6. CASE ReturnToCaller
      <3>1. InMachineCode
        BY <2>6 DEF ReturnToCaller, Leaving
      <3>2. OpenBelow(upvalues, open_upvalues, activation.base)
        <4>1. Len(activations) \in DOMAIN activations /\ activation = activations[Len(activations)]
          <5>1. /\ Len(activations) \in Nat \ {0} /\ DOMAIN activations = 1 .. Len(activations)
                /\ activation = activations[Len(activations)]
            BY <3>1, InCode DEF Safe
          <5>2. QED  BY <5>1
        <4>2. QED  BY <4>1 DEF OpenInv
      <3>3. \A i \in DOMAIN open_upvalues : location(open_upvalues[i]) < activation.base
        BY <3>2 DEF OpenBelow, location
      <3>4. QED  BY <2>6, <3>3, ReturnToCallerActsAlike DEF Interpreter!Step
    <2>7. CASE ExitToInterpreter \/ NestedBailout
      BY <2>7, ExitStands
    <2>8. QED  BY <1>3, <2>1, <2>2, <2>3, <2>4, <2>5, <2>6, <2>7 DEF RunMachineCode
  <1>4. CASE UNCHANGED machine_vars
    <2>1. Interpreted' = Interpreted
      BY <1>4 DEF machine_vars, machine, jit_vars, Interpreted, InMachineCode, activation
    <2>2. QED  BY <1>4, <2>1 DEF machine_vars, machine, Interpreter!machine
  <1>5. QED  BY <1>1, <1>2, <1>3, <1>4 DEF MachineNext

\* The machine with machine code acts as the interpreter.
THEOREM AlwaysActsAsInterpreter ==
    MachineSpec /\ []LengthsFit /\ []CallsAboveVariables => ActsAsInterpreter
  <1>1. SafeInv /\ LengthsFit /\ [MachineNext]_machine_vars => SafeInv'
    BY SafeNext
  <1>2. SafeInv /\ OpenInv /\ CallsAboveVariables /\ [MachineNext]_machine_vars => OpenInv'
    BY OpenNext DEF SafeInv
  <1>3. SafeInv /\ OpenInv /\ LengthsFit /\ [MachineNext]_machine_vars /\ SafeInv'
        => [Fused \/ Interpreter!Step \/ Interpreter!call_global]_Interpreter!machine
    <2> SUFFICES ASSUME SafeInv, OpenInv, LengthsFit, [MachineNext]_machine_vars, SafeInv', ~Fused
                 PROVE  [Interpreter!Step \/ Interpreter!call_global]_Interpreter!machine
      OBVIOUS
    <2>1. FramesInv'
      BY DEF SafeInv, Safe
    <2>2. QED  BY <2>1, ActsAlike DEF SafeInv
  <1>4. QED  BY <1>1, <1>2, <1>3, SafeInit, OpenInit, PTL DEF MachineSpec, ActsAsInterpreter

=============================================================================
