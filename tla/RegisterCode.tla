---------------------------- MODULE RegisterCode ----------------------------
(* The register machine (vm_reg.cpp) running the code of RegisterCompiler:    *)
(* one action per instruction, a run of the script first and calls of a       *)
(* global function after it. RegisterVM has the same machine's windows and    *)
(* upvalues under the collector; here every instruction computes its value.   *)
(* Machine code is in MachineCode.                                            *)
EXTENDS RegisterInstructions, Operations, OpenUpvalues

CONSTANT RegisterSlots      \* kRegisterSlots: the size of the register file

VARIABLES functions,        \* the compiled functions, the script last
          inline_cache,     \* whether this engine has the inline cache
          caches,           \* for every function, the name each word has cached, or NoName
          globals, arrays,
          closures,         \* each with its function and its upvalues
          upvalues,         \* each with the register it is open on, or its value
          open_upvalues,    \* the open ones, by falling location
          registers, frames,
          uncounted_frames, \* 1 while the script's frame is not a call
          status,           \* "running", "finished" or "failed"
          result, error, out,
          calls             \* calls of Entry so far

program_vars == <<functions, inline_cache>>
upvalue_vars == <<upvalues, open_upvalues>>
run_vars == <<uncounted_frames, status, result, error, calls>>
machine == <<functions, inline_cache, caches, globals, arrays, closures, upvalues, open_upvalues,
             registers, frames, uncounted_frames, status, result, error, out, calls>>

Slot == 0 .. RegisterSlots - 1

frame == Last(frames)
closure == closures[frame.closure]
function == functions[closure.function]
insn == function.code[frame.pc + 1]

K(index) == function.constants[index + 1]
R(index) == registers[frame.base + index]
RK(is_const, index, regs) == IF is_const THEN K(index) ELSE regs[frame.base + index]

\* With the inline cache, a function and those among its constants have a cache
\* slot for every word. A slot holds the name of the global whose cell it has.
NoName == ""

Nested(script, compiled) ==
    LET Closed(fs) == \A f \in fs : \A v \in ToSet(compiled[f].constants) :
                          Is("code", v) => v[2] \in fs
    IN {f \in DOMAIN compiled :
            \A fs \in SUBSET DOMAIN compiled : script \in fs /\ Closed(fs) => f \in fs}

attach_global_caches(script, compiled) ==
    [f \in Nested(script, compiled) |-> [word \in DOMAIN compiled[f].code |-> NoName]]

\* The script's closure is in slot 0 and its window starts above it.
run(compiled, cached) ==
    /\ functions = compiled
    /\ inline_cache = cached
    /\ caches = IF cached THEN attach_global_caches(Len(compiled), compiled) ELSE <<>>
    /\ globals = [x \in DOMAIN Natives |-> NativeRef(x)]
    /\ arrays = <<>>
    /\ closures = <<[function |-> Len(compiled), upvalues |-> <<>>]>>
    /\ upvalues = <<>>
    /\ open_upvalues = <<>>
    /\ registers = [s \in Slot |-> IF s = 0 THEN FunctionRef(1) ELSE Nil]
    /\ frames = <<[closure |-> 1, pc |-> 0, base |-> 1]>>
    /\ uncounted_frames = 1
    /\ status = "running"
    /\ result = Nil
    /\ error = NoError
    /\ out = <<>>
    /\ calls = 0

-----------------------------------------------------------------------------
\* Upvalues.

location(u) == upvalues[u].location
UpvalueContents(u) ==
    IF location(u) = ClosedUpvalue THEN upvalues[u].closed ELSE registers[location(u)]

\* Those that close: from the head of the list, the ones at or above `last`.
Closing(last) == {open_upvalues[i] : i \in Leading(open_upvalues, upvalues, last)}

\* (mutant) A closed upvalue stays in the list.
close_upvalues_listed(last, regs) ==
    /\ upvalues' = [u \in DOMAIN upvalues |->
                       IF u \in Closing(last)
                       THEN [location |-> ClosedUpvalue, closed |-> regs[location(u)]]
                       ELSE upvalues[u]]
    /\ UNCHANGED open_upvalues

close_upvalues(last, regs) ==
    /\ upvalues' = [u \in DOMAIN upvalues |->
                       IF u \in Closing(last)
                       THEN [location |-> ClosedUpvalue, closed |-> regs[location(u)]]
                       ELSE upvalues[u]]
    /\ open_upvalues' = SubSeq(open_upvalues, Walked(open_upvalues, upvalues, last) + 1,
                               Len(open_upvalues))

\* One captured register: the open upvalue that is already on it, or a new one
\* in its place in the list. `s` has the upvalues, the list and those captured.
capture_upvalue(slot, s) ==
    LET above == Walked(s.open, s.upvalues, slot + 1)
        next == above + 1
        shared == next <= Len(s.open) /\ s.upvalues[s.open[next]].location = slot
        created == Len(s.upvalues) + 1
    IN IF shared THEN [s EXCEPT !.captured = Append(@, s.open[next])]
       ELSE [upvalues |-> Append(s.upvalues, [location |-> slot, closed |-> Nil]),
             open |-> InsertAt(s.open, next, created),
             captured |-> Append(s.captured, created)]

-----------------------------------------------------------------------------
\* How an instruction ends.

Dispatch(op) == status = "running" /\ insn.op = op

Continue(words) == frames' = [frames EXCEPT ![Len(frames)].pc = @ + words]

\* The error is on the line of the last word read. The machine is empty again.
FailAt(message, words, regs) ==
    /\ status' = "failed"
    /\ error' = <<function.code[frame.pc + words].line, message>>
    /\ close_upvalues(0, regs)
    /\ frames' = <<>>
    /\ registers' = [regs EXCEPT ![0] = Nil]
    /\ UNCHANGED <<program_vars, globals, closures, uncounted_frames, result, out, calls>>

FAIL(message) == FailAt(message, 1, registers) /\ UNCHANGED <<caches, arrays>>

\* R[A] = v, and on to the next instruction.
Set(v) == /\ registers' = [registers EXCEPT ![frame.base + insn.a] = v]
          /\ Continue(1)
          /\ UNCHANGED <<program_vars, globals, closures, upvalue_vars, out, run_vars>>

Load(op, v) == Dispatch(op) /\ Set(v) /\ UNCHANGED <<caches, arrays>>

-----------------------------------------------------------------------------
\* Loads, moves and variables.

Move == Load("Move", R(insn.b))
LoadK == Load("LoadK", K(insn.b))
LoadNil == Load("LoadNil", Nil)
LoadTrue == Load("LoadTrue", True)
LoadFalse == Load("LoadFalse", False)

\* The global an access reaches: with the inline cache, the one its word has
\* cached, if any; else the one its constant names, if it is defined.
cache_slot == caches[closure.function][frame.pc + 1]
GlobalName == IF inline_cache /\ cache_slot # NoName THEN cache_slot ELSE K(insn.b)[2]
found == (inline_cache /\ cache_slot # NoName) \/ GlobalName \in DOMAIN globals
\* (mutant) The slot of the next word is filled.
RememberNext == caches' = IF inline_cache
                          THEN [caches EXCEPT ![closure.function][frame.pc + 2] = GlobalName]
                          ELSE caches
Remember == caches' = IF inline_cache
                      THEN [caches EXCEPT ![closure.function][frame.pc + 1] = GlobalName]
                      ELSE caches

GetGlobal ==
    /\ Dispatch("GetGlobal")
    /\ found
    /\ Set(globals[GlobalName])
    /\ Remember
    /\ UNCHANGED arrays

StoreGlobal(name) ==
    /\ globals' = [x \in DOMAIN globals \cup {name} |->
                      IF x = name THEN R(insn.a) ELSE globals[x]]
    /\ Continue(1)
    /\ UNCHANGED <<program_vars, arrays, closures, upvalue_vars, registers, out, run_vars>>

SetGlobal == Dispatch("SetGlobal") /\ found /\ StoreGlobal(GlobalName) /\ Remember

GlobalFails == /\ \E op \in {"GetGlobal", "SetGlobal"} : Dispatch(op)
               /\ ~found
               /\ FAIL(undefined_variable(GlobalName))

DefineGlobal == Dispatch("DefineGlobal") /\ StoreGlobal(K(insn.b)[2]) /\ UNCHANGED caches

GetUpvalue == Load("GetUpvalue", UpvalueContents(closure.upvalues[insn.b + 1]))

SetUpvalue ==
    LET u == closure.upvalues[insn.b + 1]
    IN /\ Dispatch("SetUpvalue")
       /\ IF location(u) = ClosedUpvalue
          THEN upvalues' = [upvalues EXCEPT ![u].closed = R(insn.a)] /\ UNCHANGED registers
          ELSE registers' = [registers EXCEPT ![location(u)] = R(insn.a)] /\ UNCHANGED upvalues
       /\ Continue(1)
       /\ UNCHANGED <<program_vars, caches, globals, arrays, closures, open_upvalues, out,
                      run_vars>>

-----------------------------------------------------------------------------
\* Operations. A body is what the instruction i does to the registers and the
\* arrays; `skip` is how far it jumps. Plain instructions and the halves of the
\* superinstructions share the bodies.

Jumps == {"Jump", "JumpIfFalse", "JumpIfTrue"}

NoEffect == [registers |-> registers, arrays |-> arrays, skip |-> 0, error |-> NoError]

\* R[A] is the value of an operation, if it has one.
Checked(i, operation, effect) ==
    IF operation.error # NoError THEN [effect EXCEPT !.error = operation.error]
    ELSE [effect EXCEPT !.registers[frame.base + i.a] = operation.value]

BodyIndexSet(array, index, value, effect) ==
    LET wrong == resolve_index(effect.arrays, array, index)
    IN IF wrong # NoError THEN [effect EXCEPT !.error = wrong]
       ELSE [effect EXCEPT !.arrays = array_set(@, array, index, value)]

\* What the instruction i, decoded as `op`, does after `effect`.
Body(op, i, effect) ==
    LET a == effect.registers[frame.base + i.a]
        b == RK(i.b_const, i.b, effect.registers)
        c == RK(i.c_const, i.c, effect.registers)
    IN CASE op \in Arithmetic -> Checked(i, BinaryOperation(op, b, c), effect)
         [] op \in Unaries -> Checked(i, UnaryOperation(op, b), effect)
         [] op = "IndexGet" -> Checked(i, array_get(effect.arrays, b, c), effect)
         [] op = "IndexSet" -> BodyIndexSet(a, b, c, effect)
         [] op = "Jump" -> [effect EXCEPT !.skip = i.b]
         [] op = "JumpIfFalse" -> [effect EXCEPT !.skip = IF is_truthy(a) THEN 0 ELSE i.b]
         [] op = "JumpIfTrue" -> [effect EXCEPT !.skip = IF is_truthy(a) THEN i.b ELSE 0]

\* The machine after an effect that took this many words.
Take(effect, words) ==
    /\ arrays' = effect.arrays
    /\ UNCHANGED caches
    /\ IF effect.error # NoError THEN FailAt(effect.error, words, effect.registers)
       ELSE /\ registers' = effect.registers
            /\ Continue(words + effect.skip)
            /\ UNCHANGED <<program_vars, globals, closures, upvalue_vars, out, run_vars>>

Operate == /\ \E op \in Arithmetic \cup Unaries \cup {"IndexGet", "IndexSet"} : Dispatch(op)
           /\ Take(Body(insn.op, insn, NoEffect), 1)

Jump == /\ \E op \in Jumps : Dispatch(op)
        /\ Take(Body(insn.op, insn, NoEffect), 1)

\* Both halves of a pair, the second decoded from the next word.
Superinstruction ==
    \E pair \in FusedPairs :
        LET first == Body(pair[2], insn, NoEffect)
            second == Body(pair[3], function.code[frame.pc + 2], first)
        IN /\ Dispatch(pair[1])
           /\ IF first.error # NoError THEN Take(first, 1) ELSE Take(second, 2)

-----------------------------------------------------------------------------
\* Arrays and output.

Window(first, count) == [i \in 1 .. count |-> R(first + i - 1)]

Array == /\ Dispatch("Array")
         /\ arrays' = Append(arrays, Window(insn.b, insn.c))
         /\ Set(ArrayRef(Len(arrays) + 1))
         /\ UNCHANGED caches

ArrayAppend ==
    /\ Dispatch("ArrayAppend")
    /\ arrays' = [arrays EXCEPT ![R(insn.a)[2]] = @ \o Window(insn.b, insn.c)]
    /\ Continue(1)
    /\ UNCHANGED <<program_vars, caches, globals, closures, upvalue_vars, registers, out,
                   run_vars>>

Names == [id \in DOMAIN closures |-> functions[closures[id].function].name]

PrintValue ==
    /\ Dispatch("Print")
    /\ out' = Append(out, print_value(RK(insn.b_const, insn.b, registers), arrays, Names))
    /\ Continue(1)
    /\ UNCHANGED <<program_vars, caches, globals, arrays, closures, upvalue_vars, registers,
                   run_vars>>

-----------------------------------------------------------------------------
\* Calls.

\* What a word after a Closure captures, after what `s` has: a register of this
\* frame, or an upvalue of this function.
capture(word, s) ==
    IF word.a = 1 THEN capture_upvalue(frame.base + word.b, s)
    ELSE [s EXCEPT !.captured = Append(@, closure.upvalues[word.b + 1])]

NothingCaptured == [upvalues |-> upvalues, open |-> open_upvalues, captured |-> <<>>]

Captured(words) ==
    LET After[n \in 0 .. Len(words)] ==
            IF n = 0 THEN NothingCaptured ELSE capture(words[n], After[n - 1])
    IN After[Len(words)]

\* The closure goes into R[A] first: a function may capture its own register.
Closure ==
    LET made == K(insn.b)[2]
        words == SubSeq(function.code, frame.pc + 2,
                        frame.pc + 1 + Len(functions[made].upvalues))
        captured == Captured(words)
    IN /\ Dispatch("Closure")
       /\ registers' = [registers EXCEPT ![frame.base + insn.a] = FunctionRef(Len(closures) + 1)]
       /\ closures' = Append(closures, [function |-> made, upvalues |-> captured.captured])
       /\ upvalues' = captured.upvalues
       /\ open_upvalues' = captured.open
       /\ Continue(1 + Len(words))
       /\ UNCHANGED <<program_vars, caches, globals, arrays, out, run_vars>>

Close == /\ Dispatch("Close")
         /\ close_upvalues(frame.base + insn.a, registers)
         /\ Continue(1)
         /\ UNCHANGED <<program_vars, caches, globals, arrays, closures, registers, out,
                        run_vars>>

CodeOf(callee) == functions[closures[callee[2]].function]

\* Why a value cannot be called with argc arguments when its window would
\* start at `base` and this many frames are calls.
CallError(callee, argc, base, depth) ==
    IF Is("native", callee)
    THEN IF Natives[callee[2]] # argc THEN arity_error(Natives[callee[2]], argc) ELSE NoError
    ELSE IF ~Is("function", callee) THEN NotCallable
    ELSE IF CodeOf(callee).arity # argc THEN arity_error(CodeOf(callee).arity, argc)
    ELSE IF depth >= MaxCallDepth \/ CodeOf(callee).frame_size > RegisterSlots - base
    THEN StackOverflow
    ELSE NoError

\* The registers with the callee's window at `base`: nil above its parameters.
Slide(callee, base, regs) ==
    LET f == CodeOf(callee)
    IN [s \in Slot |-> IF s \in base + f.arity .. base + f.frame_size - 1 THEN Nil ELSE regs[s]]

NewFrame(callee, base) == [closure |-> callee[2], pc |-> 0, base |-> base]

callee_value == R(insn.a)
callee_base == frame.base + insn.a + 1
call_error == CallError(callee_value, insn.b, callee_base, Len(frames) - uncounted_frames)

\* A closure's frame is pushed above its callee register.
CallClosure ==
    /\ Dispatch("Call")
    /\ Is("function", callee_value)
    /\ call_error = NoError
    /\ registers' = Slide(callee_value, callee_base, registers)
    /\ frames' = Append([frames EXCEPT ![Len(frames)].pc = @ + 1],
                        NewFrame(callee_value, callee_base))
    /\ UNCHANGED <<program_vars, caches, globals, arrays, closures, upvalue_vars, out, run_vars>>

\* A native's result replaces the callee at once.
CallNativeFunction ==
    LET called == CallNative(callee_value[2], Window(insn.a + 1, insn.b), arrays)
    IN /\ Dispatch("Call")
       /\ Is("native", callee_value)
       /\ call_error = NoError
       /\ IF called.result.error # NoError THEN FAIL(called.result.error)
          ELSE arrays' = called.arrays /\ Set(called.result.value) /\ UNCHANGED caches

CallFails == Dispatch("Call") /\ call_error # NoError /\ FAIL(call_error)

\* The result replaces the callee in the caller's register; the end of the
\* entry frame ends the run.
ReturnWith(v) ==
    /\ close_upvalues(frame.base, registers)
    /\ frames' = Front(frames)
    /\ IF Len(frames) = 1
       THEN status' = "finished" /\ result' = v /\ registers' = [registers EXCEPT ![0] = Nil]
       ELSE /\ registers' = [registers EXCEPT ![frame.base - 1] = v]
            /\ UNCHANGED <<status, result>>
    /\ UNCHANGED <<program_vars, caches, globals, arrays, closures, uncounted_frames, error, out,
                   calls>>

Return == Dispatch("Return") /\ ReturnWith(RK(insn.b_const, insn.b, registers))
ReturnNil == Dispatch("ReturnNil") /\ ReturnWith(Nil)

\* The instructions that neither jump nor push a frame, those that may jump, and
\* the call that pushes a frame.
Straight == \/ Move \/ LoadK \/ LoadNil \/ LoadTrue \/ LoadFalse
            \/ GetGlobal \/ SetGlobal \/ GlobalFails \/ DefineGlobal \/ GetUpvalue \/ SetUpvalue
            \/ Operate \/ Array \/ ArrayAppend \/ PrintValue \/ Closure \/ Close
            \/ CallNativeFunction \/ CallFails \/ Return \/ ReturnNil

Branch == Jump \/ Superinstruction

Step == Straight \/ Branch \/ CallClosure

-----------------------------------------------------------------------------
\* call_global: a call of the global Entry without arguments, once the run or
\* the call before it has ended, with an error or not. Unlike the script it
\* counts as a call; no native of Natives takes no arguments.

Undefined == Entry \notin DOMAIN globals
EntryError == IF Undefined THEN undefined_variable(Entry)
              ELSE CallError(globals[Entry], 0, 1, 0)

call_global ==
    /\ status # "running"
    /\ calls' = calls + 1
    /\ result' = Nil
    /\ uncounted_frames' = IF Undefined THEN uncounted_frames ELSE 0
    /\ IF EntryError # NoError
       THEN /\ status' = "failed"
            /\ error' = <<NoLine, EntryError>>
            /\ UNCHANGED <<registers, frames>>
       ELSE /\ status' = "running"
            /\ error' = NoError
            /\ registers' = Slide(globals[Entry], 1, [registers EXCEPT ![0] = globals[Entry]])
            /\ frames' = <<NewFrame(globals[Entry], 1)>>
    /\ UNCHANGED <<program_vars, caches, globals, arrays, closures, upvalue_vars, out>>
=============================================================================
