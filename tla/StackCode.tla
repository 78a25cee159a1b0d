------------------------------ MODULE StackCode ------------------------------
(* The stack machine (vm_stack.cpp) running the code of StackCompiler: one    *)
(* action per instruction, a run of the script first and calls of a global    *)
(* function after it. `stack` is the part of the value stack below sp; what    *)
(* the code leaves above it is never read again.                               *)
EXTENDS Operations, OpenUpvalues

CONSTANTS FrameSlots,       \* kFrameSlots: 256 in the program
          TempSlack         \* kTempSlack: room for the temporaries of one frame

ASSUME FrameSlotsAssumption == FrameSlots \in Nat \ {0}
ASSUME TempSlackAssumption == TempSlack \in Nat

VARIABLES functions,        \* the compiled functions, the script last
          globals, arrays,
          closures,         \* each with its function and its upvalues
          upvalues,         \* each with the slot it is open on, or its value
          open_upvalues,    \* the open ones, by falling location
          stack, frames,
          uncounted_frames, \* 1 while the script's frame is not a call
          status,           \* "running", "finished" or "failed"
          result, error, out,
          calls             \* calls of Entry so far

object_vars == <<functions, closures>>
upvalue_vars == <<upvalues, open_upvalues>>
run_vars == <<uncounted_frames, status, result, error, calls>>
machine == <<functions, globals, arrays, closures, upvalues, open_upvalues, stack, frames,
             uncounted_frames, status, result, error, out, calls>>

\* Room for MaxCallDepth frames; a call needs room below the slack.
StackSlots == MaxCallDepth * FrameSlots + TempSlack
call_limit == StackSlots - TempSlack

frame == Last(frames)
closure == closures[frame.closure]
function == functions[closure.function]
insn == function.code[frame.ip + 1]
constant == function.constants[insn.operand + 1]

\* sp[-1 - distance], and what is left below the upper n values.
Peek(distance) == stack[Len(stack) - distance]
Lower(n) == SubSeq(stack, 1, Len(stack) - n)

\* The script's closure is slot 0 of its frame.
run(compiled) ==
    /\ functions = compiled
    /\ globals = [x \in DOMAIN Natives |-> NativeRef(x)]
    /\ arrays = <<>>
    /\ closures = <<[function |-> Len(compiled), upvalues |-> <<>>]>>
    /\ upvalues = <<>>
    /\ open_upvalues = <<>>
    /\ stack = <<FunctionRef(1)>>
    /\ frames = <<[closure |-> 1, ip |-> 0, base |-> 0]>>
    /\ uncounted_frames = 1
    /\ status = "running"
    /\ result = Nil
    /\ error = NoError
    /\ out = <<>>
    /\ calls = 0

-----------------------------------------------------------------------------
\* Upvalues. A location is the index of a slot, from 0.

location(u) == upvalues[u].location
UpvalueContents(u) ==
    IF location(u) = ClosedUpvalue THEN upvalues[u].closed ELSE stack[location(u) + 1]

\* Those that close: from the head of the list, the ones at or above `last`.
Closing(last) == {open_upvalues[i] : i \in Leading(open_upvalues, upvalues, last)}

Close(u) == [location |-> ClosedUpvalue, closed |-> stack[location(u) + 1]]

\* (mutant) A closed upvalue stays in the list.
close_upvalues_listed(last) ==
    /\ upvalues' = [u \in DOMAIN upvalues |-> IF u \in Closing(last) THEN Close(u) ELSE upvalues[u]]
    /\ UNCHANGED open_upvalues

close_upvalues(last) ==
    /\ upvalues' = [u \in DOMAIN upvalues |-> IF u \in Closing(last) THEN Close(u) ELSE upvalues[u]]
    /\ open_upvalues' = SubSeq(open_upvalues, Walked(open_upvalues, upvalues, last) + 1,
                               Len(open_upvalues))

\* One captured slot: the open upvalue that is already on it, or a new one in
\* its place in the list. `s` has the upvalues, the list and those captured.
capture_upvalue(slot, s) ==
    LET above == Walked(s.open, s.upvalues, slot + 1)
        next == above + 1
        shared == next <= Len(s.open) /\ s.upvalues[s.open[next]].location = slot
        created == Len(s.upvalues) + 1
    IN IF shared THEN [s EXCEPT !.captured = Append(@, s.open[next])]
       ELSE [upvalues |-> Append(s.upvalues, [location |-> slot, closed |-> Nil]),
             open |-> InsertAt(s.open, next, created),
             captured |-> Append(s.captured, created)]

-----------------------------------------------------------------------------
\* How an instruction ends.

Dispatch(op) == status = "running" /\ insn.op = op

Continue(words) == frames' = [frames EXCEPT ![Len(frames)].ip = @ + words]

\* The error is on the instruction's line. The machine is empty again.
FAIL(message) ==
    /\ status' = "failed"
    /\ error' = <<insn.line, message>>
    /\ close_upvalues(0)
    /\ frames' = <<>>
    /\ stack' = <<>>
    /\ UNCHANGED <<object_vars, globals, arrays, uncounted_frames, result, out, calls>>

\* The stack afterwards, and on to the next instruction.
Leaves_(values) == /\ stack' = values
                   /\ Continue(1)
                   /\ UNCHANGED <<object_vars, upvalue_vars, run_vars>>
Only(values) == Leaves_(values) /\ UNCHANGED <<globals, arrays, out>>

\* The result of an operation replaces its n operands, if it has one.
Replace(n, operation) ==
    IF operation.error # NoError THEN FAIL(operation.error)
    ELSE Only(Append(Lower(n), operation.value))

-----------------------------------------------------------------------------
\* Constants and variables.

Push(op, v) == Dispatch(op) /\ Only(Append(stack, v))

Const == Push("Const", constant)
Literals == Push("Nil", Nil) \/ Push("True", True) \/ Push("False", False)
Pop == Dispatch("Pop") /\ Only(Lower(1))

Local_ == frame.base + insn.operand + 1
GetLocal == Push("GetLocal", stack[Local_])
SetLocal == Dispatch("SetLocal") /\ Only([stack EXCEPT ![Local_] = Peek(0)])

name == constant[2]
GetGlobal == /\ Dispatch("GetGlobal")
             /\ name \in DOMAIN globals
             /\ Only(Append(stack, globals[name]))

StoreGlobal(values) ==
    /\ globals' = [x \in DOMAIN globals \cup {name} |-> IF x = name THEN Peek(0) ELSE globals[x]]
    /\ Leaves_(values)
    /\ UNCHANGED <<arrays, out>>
SetGlobal == Dispatch("SetGlobal") /\ name \in DOMAIN globals /\ StoreGlobal(stack)
DefineGlobal == Dispatch("DefineGlobal") /\ StoreGlobal(Lower(1))

GlobalFails == /\ \E op \in {"GetGlobal", "SetGlobal"} : Dispatch(op)
               /\ name \notin DOMAIN globals
               /\ FAIL(undefined_variable(name))

upvalue == closure.upvalues[insn.operand + 1]
GetUpvalue == Push("GetUpvalue", UpvalueContents(upvalue))
SetUpvalue ==
    /\ Dispatch("SetUpvalue")
    /\ IF location(upvalue) = ClosedUpvalue
       THEN upvalues' = [upvalues EXCEPT ![upvalue].closed = Peek(0)] /\ UNCHANGED stack
       ELSE stack' = [stack EXCEPT ![location(upvalue) + 1] = Peek(0)] /\ UNCHANGED upvalues
    /\ Continue(1)
    /\ UNCHANGED <<object_vars, globals, arrays, open_upvalues, out, run_vars>>

-----------------------------------------------------------------------------
\* Operations, jumps, arrays and output.

BINARY_OP == /\ \E op \in Arithmetic : Dispatch(op)
             /\ Replace(2, BinaryOperation(insn.op, Peek(1), Peek(0)))
UnaryOp == /\ \E op \in Unaries : Dispatch(op)
           /\ Replace(1, UnaryOperation(insn.op, Peek(0)))

Skip(words) == Continue(1 + words) /\ UNCHANGED <<object_vars, upvalue_vars, globals, arrays,
                                                  stack, out, run_vars>>
Jump == Dispatch("Jump") /\ Skip(insn.operand)
JumpIfFalse == Dispatch("JumpIfFalse") /\ Skip(IF is_truthy(Peek(0)) THEN 0 ELSE insn.operand)
Loop == Dispatch("Loop") /\ Skip(-insn.operand)

Array == LET count == insn.operand
         IN /\ Dispatch("Array")
            /\ arrays' = Append(arrays, SubSeq(stack, Len(stack) - count + 1, Len(stack)))
            /\ Leaves_(Append(Lower(count), ArrayRef(Len(arrays) + 1)))
            /\ UNCHANGED <<globals, out>>

IndexGet == Dispatch("IndexGet") /\ Replace(2, array_get(arrays, Peek(1), Peek(0)))

\* The value stays on the stack as the value of the assignment.
IndexSet ==
    LET wrong == resolve_index(arrays, Peek(2), Peek(1))
    IN /\ Dispatch("IndexSet")
       /\ IF wrong # NoError THEN FAIL(wrong)
          ELSE /\ arrays' = array_set(arrays, Peek(2), Peek(1), Peek(0))
               /\ Leaves_(Append(Lower(3), Peek(0)))
               /\ UNCHANGED <<globals, out>>

Names == [id \in DOMAIN closures |-> functions[closures[id].function].name]
PrintValue == /\ Dispatch("Print")
              /\ out' = Append(out, print_value(Peek(0), arrays, Names))
              /\ Leaves_(Lower(1))
              /\ UNCHANGED <<globals, arrays>>

-----------------------------------------------------------------------------
\* Calls.

\* The words after a Closure each capture a slot of the frame, or an upvalue of
\* the running function. `s` is as for capture_upvalue.
capture(word, s) ==
    IF word.op = "CaptureLocal" THEN capture_upvalue(frame.base + word.operand, s)
    ELSE [s EXCEPT !.captured = Append(@, closure.upvalues[word.operand + 1])]

NothingCaptured == [upvalues |-> upvalues, open |-> open_upvalues, captured |-> <<>>]

Captured(words) ==
    LET After[n \in 0 .. Len(words)] ==
            IF n = 0 THEN NothingCaptured ELSE capture(words[n], After[n - 1])
    IN After[Len(words)]

\* The closure goes on the stack first: a function may capture its own slot.
Closure ==
    LET made == constant[2]
        words == SubSeq(function.code, frame.ip + 2,
                        frame.ip + 1 + Len(functions[made].upvalues))
        captured == Captured(words)
    IN /\ Dispatch("Closure")
       /\ stack' = Append(stack, FunctionRef(Len(closures) + 1))
       /\ closures' = Append(closures, [function |-> made, upvalues |-> captured.captured])
       /\ upvalues' = captured.upvalues
       /\ open_upvalues' = captured.open
       /\ Continue(1 + Len(words))
       /\ UNCHANGED <<functions, globals, arrays, out, run_vars>>

CloseUpvalue == /\ Dispatch("CloseUpvalue")
                /\ close_upvalues(Len(stack) - 1)
                /\ stack' = Lower(1)
                /\ Continue(1)
                /\ UNCHANGED <<object_vars, globals, arrays, out, run_vars>>

CodeOf(callee) == functions[closures[callee[2]].function]

\* Whether a call on a stack of this height has no room for its frame.
\* (mutant) Only the number of frames counts.
FullOfFrames(height, depth) == depth >= MaxCallDepth
Full(height, depth) == depth >= MaxCallDepth \/ height + FrameSlots > call_limit

\* Why a value cannot be called with argc arguments on a stack of this height
\* when this many frames are calls.
CallError(callee, argc, height, depth) ==
    IF Is("native", callee)
    THEN IF Natives[callee[2]] # argc THEN arity_error(Natives[callee[2]], argc) ELSE NoError
    ELSE IF ~Is("function", callee) THEN NotCallable
    ELSE IF CodeOf(callee).arity # argc THEN arity_error(CodeOf(callee).arity, argc)
    ELSE IF Full(height, depth) THEN StackOverflow
    ELSE NoError

NewFrame(callee, base) == [closure |-> callee[2], ip |-> 0, base |-> base]

argc == insn.operand
callee == Peek(argc)
counted_frames == Len(frames) - uncounted_frames
call_error == CallError(callee, argc, Len(stack), counted_frames)

\* The callee is slot 0 of the new frame, its arguments are the next ones.
CallClosure ==
    /\ Dispatch("Call")
    /\ Is("function", callee)
    /\ call_error = NoError
    /\ frames' = Append([frames EXCEPT ![Len(frames)].ip = @ + 1],
                        NewFrame(callee, Len(stack) - argc - 1))
    /\ UNCHANGED <<object_vars, globals, arrays, upvalue_vars, stack, out, run_vars>>

\* A native's result replaces the callee and its arguments at once.
CallNativeFunction ==
    LET arguments == SubSeq(stack, Len(stack) - argc + 1, Len(stack))
        called == CallNative(callee[2], arguments, arrays)
    IN /\ Dispatch("Call")
       /\ Is("native", callee)
       /\ call_error = NoError
       /\ IF called.result.error # NoError THEN FAIL(called.result.error)
          ELSE /\ arrays' = called.arrays
               /\ Leaves_(Append(Lower(argc + 1), called.result.value))
               /\ UNCHANGED <<globals, out>>

CallFails == Dispatch("Call") /\ call_error # NoError /\ FAIL(call_error)

\* The result replaces the callee and all above it; the end of the entry frame
\* ends the run.
Return ==
    /\ Dispatch("Return")
    /\ close_upvalues(frame.base)
    /\ frames' = Front(frames)
    /\ IF Len(frames) = 1
       THEN /\ status' = "finished"
            /\ result' = Peek(0)
            /\ stack' = SubSeq(stack, 1, frame.base)
       ELSE /\ stack' = Append(SubSeq(stack, 1, frame.base), Peek(0))
            /\ UNCHANGED <<status, result>>
    /\ UNCHANGED <<object_vars, globals, arrays, uncounted_frames, error, out, calls>>

Step == \/ Const \/ Literals \/ Pop
        \/ GetLocal \/ SetLocal \/ GetGlobal \/ SetGlobal \/ DefineGlobal \/ GlobalFails
        \/ GetUpvalue \/ SetUpvalue
        \/ BINARY_OP \/ UnaryOp \/ Jump \/ JumpIfFalse \/ Loop
        \/ Array \/ IndexGet \/ IndexSet \/ PrintValue
        \/ Closure \/ CloseUpvalue \/ CallClosure \/ CallNativeFunction \/ CallFails \/ Return

-----------------------------------------------------------------------------
\* call_global: a call of the global Entry without arguments, once the run or
\* the call before it has ended, with an error or not. Unlike the script it
\* counts as a call; no native of Natives takes no arguments.

Undefined == Entry \notin DOMAIN globals
EntryError == IF Undefined THEN undefined_variable(Entry)
              ELSE CallError(globals[Entry], 0, Len(stack) + 1, 0)

call_global ==
    /\ status # "running"
    /\ calls' = calls + 1
    /\ result' = Nil
    /\ uncounted_frames' = IF Undefined THEN uncounted_frames ELSE 0
    /\ IF EntryError # NoError
       THEN /\ status' = "failed"
            /\ error' = <<NoLine, EntryError>>
            /\ stack' = IF Undefined THEN stack ELSE <<>>
            /\ UNCHANGED frames
       ELSE /\ status' = "running"
            /\ error' = NoError
            /\ stack' = Append(stack, globals[Entry])
            /\ frames' = <<NewFrame(globals[Entry], Len(stack))>>
    /\ UNCHANGED <<object_vars, globals, arrays, upvalue_vars, out>>
=============================================================================
