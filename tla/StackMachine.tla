----------------------------- MODULE StackMachine -----------------------------
(* The stack machine as a machine for any code, and what it keeps to. What the  *)
(* machine does not check is in its code: how high the stack of the running     *)
(* frame is at a word, and which of its slots may be captured, is the same      *)
(* whenever a run comes by. StackEngines runs the compiler and checks that.     *)
EXTENDS StackCode

-----------------------------------------------------------------------------
\* Code that fits. The shape of a word has the number of values its frame has on
\* the stack when it runs, slot 0 included, and the slots that may be captured.

\* How many values a word takes off the stack, and puts on it.
Takes(w) ==
    CASE w.op \in {"Pop", "DefineGlobal", "Print", "CloseUpvalue", "SetLocal", "SetGlobal",
                   "SetUpvalue", "JumpIfFalse", "Return"} \cup Unaries -> 1
      [] w.op \in Arithmetic \cup {"IndexGet"} -> 2
      [] w.op = "IndexSet" -> 3
      [] w.op = "Array" -> w.operand
      [] w.op = "Call" -> w.operand + 1
      [] OTHER -> 0

Gives(w) == IF w.op \in {"Pop", "DefineGlobal", "Print", "CloseUpvalue", "Jump", "Loop"} THEN 0
            ELSE 1

\* The words after a Closure, one for each variable it captures.
Captures(f, i, fs) ==
    LET made == f.constants[f.code[i].operand + 1][2]
    IN i + 1 .. i + Len(fs[made].upvalues)
CapturedSlots(f, i, fs) ==
    {f.code[j].operand : j \in {j \in Captures(f, i, fs) : f.code[j].op = "CaptureLocal"}}

\* The height after a word, the slots that may be captured then, and the words
\* that may follow.
HeightAfter(w, height) == height - Takes(w) + Gives(w)

CapturedAfter(f, i, fs, shape) ==
    CASE f.code[i].op = "CloseUpvalue" -> shape.captured \ {shape.height - 1}
      [] f.code[i].op = "Closure" -> shape.captured \cup CapturedSlots(f, i, fs)
      [] OTHER -> shape.captured

Follows(f, i, fs) ==
    LET w == f.code[i]
    IN CASE w.op = "Return" -> {}
         [] w.op = "Jump" -> {i + 1 + w.operand}
         [] w.op = "Loop" -> {i + 1 - w.operand}
         [] w.op = "JumpIfFalse" -> {i + 1, i + 1 + w.operand}
         [] w.op = "Closure" -> {i + 1 + Len(fs[f.constants[w.operand + 1][2]].upvalues)}
         [] OTHER -> {i + 1}

HasUpvalue(f, index) == index + 1 \in DOMAIN f.upvalues
HasConstant(f, index) == index + 1 \in DOMAIN f.constants
HasScalar(f, index) == HasConstant(f, index) /\ IsScalar(f.constants[index + 1])
HasName(f, index) == HasConstant(f, index)
                     /\ f.constants[index + 1] = Str(f.constants[index + 1][2])
HasCode(f, index, fs) == HasConstant(f, index) /\ f.constants[index + 1][2] \in DOMAIN fs

\* A closure may capture the slot it is put into, the one above the others.
CaptureFits(f, w, shape) == /\ w.op \in {"CaptureLocal", "CaptureUpvalue"}
                            /\ w.operand \in Nat
                            /\ w.op = "CaptureLocal" => w.operand <= shape.height
                            /\ w.op = "CaptureUpvalue" => HasUpvalue(f, w.operand)

\* What the operand of the word i names is there.
OperandFits(f, i, fs, shape) ==
    LET w == f.code[i]
    IN /\ w.operand \in Nat
       /\ w.op = "Const" => HasScalar(f, w.operand)
       /\ w.op \in {"GetLocal", "SetLocal"} => w.operand < shape.height
       /\ w.op \in {"GetGlobal", "SetGlobal", "DefineGlobal"} => HasName(f, w.operand)
       /\ w.op \in {"GetUpvalue", "SetUpvalue"} => HasUpvalue(f, w.operand)
       /\ w.op = "Closure" => /\ HasCode(f, w.operand, fs)
                              /\ \A j \in Captures(f, i, fs) : /\ j \in DOMAIN f.code
                                                               /\ CaptureFits(f, f.code[j], shape)

\* The values a word takes are there, and only the end of a scope or of the frame
\* takes one that may be captured.
ShapeFits(w, shape) ==
    /\ shape.height \in Nat
    /\ Takes(w) <= shape.height
    /\ shape.captured \subseteq
           0 .. shape.height - 1 - (IF w.op \in {"CloseUpvalue", "Return"} THEN 0 ELSE Takes(w))

\* The words that have a shape are those a run may be at.
WordFits(f, i, fs, shapes) ==
    /\ i \in DOMAIN f.code
    /\ ShapeFits(f.code[i], shapes[i])
    /\ OperandFits(f, i, fs, shapes[i])
    /\ \A j \in Follows(f, i, fs) :
           /\ j \in DOMAIN shapes
           /\ shapes[j].height = HeightAfter(f.code[i], shapes[i].height)
           /\ CapturedAfter(f, i, fs, shapes[i]) \subseteq shapes[j].captured

\* A function begins with itself and its arguments on the stack.
FunctionFits(f, fs, shapes) ==
    /\ f.code \in Seq(Range(f.code))
    /\ f.upvalues \in Seq(Range(f.upvalues))
    /\ f.arity \in Nat
    /\ 1 \in DOMAIN shapes
    /\ shapes[1].height = f.arity + 1
    /\ \A i \in DOMAIN shapes : WordFits(f, i, fs, shapes)

Shaped(fs, shapes) ==
    /\ fs \in Seq(Range(fs)) /\ fs # <<>>
    /\ \A k \in DOMAIN fs : FunctionFits(fs[k], fs, shapes[k])
    /\ Last(fs).upvalues = <<>> /\ Last(fs).arity = 0

\* Code has shapes; and no more temporaries on a frame than there is room for
\* without a check: "reaching that limit takes an array literal of millions of
\* elements, or nesting far past what the front end allows" (vm_stack.h:54).
WellFormed(fs) == \E shapes : Shaped(fs, shapes)

Low(fs, shapes) ==
    \A k \in DOMAIN fs : \A i \in DOMAIN shapes[k] : shapes[k][i].height <= FrameSlots + TempSlack
FewTemporaries(fs) == \E shapes : Shaped(fs, shapes) /\ Low(fs, shapes)

-----------------------------------------------------------------------------
\* The machine with such code. StackEngines has its runs from the command line;
\* here a host may call Entry any number of times.

MachineInit == WellFormed(functions) /\ run(functions)

MachineNext == Step \/ call_global

MachineSpec == MachineInit /\ [][MachineNext]_machine

\* The lengths of strings are numbers: a string of TLA+ need not be a sequence.
LengthsFit == \A i \in DOMAIN stack : Is("str", stack[i]) => Len(stack[i][2]) \in Nat

-----------------------------------------------------------------------------
\* Properties.

\* The values of the variables are what the machine can hold; the last conjunct is
\* what the proofs about the machine take from its inputs.
TypeOK ==
    /\ status \in {"running", "finished", "failed"}
    /\ calls \in Nat
    /\ \A f \in ToSet(frames) : f.closure \in DOMAIN closures /\ f.base \in Nat
    /\ ToSet(open_upvalues) = {u \in DOMAIN upvalues : location(u) # ClosedUpvalue}
    /\ LengthsFit

\* An open upvalue is a raw pointer into the stack: it is on a slot in use, and
\* the list is by falling location, which close_upvalues stops by.
OpenUpvaluesOnStack ==
    \A i \in DOMAIN open_upvalues :
        /\ location(open_upvalues[i]) \in 0 .. Len(stack) - 1
        /\ \A j \in 1 .. i - 1 : location(open_upvalues[j]) > location(open_upvalues[i])

\* The machine never leaves its code, and an instruction takes no value and names
\* no slot that is not its frame's: what is below belongs to the callers, what is
\* above is not there. Neither is checked.
StaysInFrame ==
    status = "running" =>
        /\ frame.ip < Len(function.code)
        /\ Takes(insn) <= Len(stack) - frame.base
        /\ insn.op \in {"GetLocal", "SetLocal"} => frame.base + insn.operand < Len(stack)

\* Nor are pushes: the room a call leaves is enough for the locals and the
\* temporaries of its frame (vm_stack.h:50), and the frames fit their array.
StackHasRoom == Len(stack) <= StackSlots /\ Len(frames) <= MaxCallDepth + 1
=============================================================================
