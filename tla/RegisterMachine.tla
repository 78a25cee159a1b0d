--------------------------- MODULE RegisterMachine ---------------------------
(* The register machine with its JIT as a machine for any code, and what it    *)
(* keeps to. The words of the code have to fit one another and their function, *)
(* as those of the compiler do: Engines runs the compiler and checks that.     *)
EXTENDS MachineCode

ASSUME RegisterSlotsAssumption == RegisterSlots \in Nat \ {0}

machine_vars == <<machine, jit_vars>>

-----------------------------------------------------------------------------
\* Code that fits. A fused word is taken as the word it was.

Word == [op : STRING, a : Nat, b : Int, c : Nat, b_const : BOOLEAN, c_const : BOOLEAN, line : Nat]
unfused(w) == [w EXCEPT !.op = unfused_op(w)]

Windows(f) == 0 .. f.frame_size - 1
HasUpvalue(f, index) == index + 1 \in DOMAIN f.upvalues

HasConstant(f, index) == index + 1 \in DOMAIN f.constants
HasScalar(f, index) == HasConstant(f, index) /\ IsScalar(f.constants[index + 1])
HasName(f, index) == HasConstant(f, index)
                     /\ f.constants[index + 1] = Str(f.constants[index + 1][2])
HasCode(f, index, fs) == HasConstant(f, index) /\ Is("code", f.constants[index + 1])
                         /\ f.constants[index + 1][2] \in DOMAIN fs

\* The words after word i of f that say what the closure it makes captures.
Captures(f, i, fs) ==
    LET made == f.constants[f.code[i].b + 1][2]
    IN i + 1 .. i + Len(fs[made].upvalues)

CaptureFits(f, w) == /\ w.op = "Capture"
                     /\ w.a = 1 => w.b \in Windows(f)
                     /\ w.a # 1 => HasUpvalue(f, w.b)

\* The registers a word uses.
UsesA(w) == w.op \notin {"Print", "Jump", "Return", "ReturnNil"}
Used(w) ==
    (IF UsesA(w) THEN {w.a} ELSE {})
    \cup (IF w.op = "Call" THEN {w.a + i : i \in 0 .. w.b}
          ELSE IF w.op \in {"Array", "ArrayAppend"} THEN {w.b + i : i \in 0 .. w.c - 1}
          ELSE IF w.op = "Move" THEN {w.b} ELSE {})
    \cup (IF w.op \in Arithmetic \cup Unaries \cup {"IndexGet", "IndexSet", "Print", "Return"}
          THEN (IF w.b_const THEN {} ELSE {w.b})
               \cup (IF w.c_const \/ w.op \in Unaries \cup {"Print", "Return"} THEN {}
                     ELSE {w.c})
          ELSE {})

\* What the operands of the word i of f name is there.
OperandsFit(f, i, fs) ==
    LET w == unfused(f.code[i])
    IN /\ f.code[i] \in Word
       /\ Used(w) \subseteq Windows(f)
       /\ w.b_const \/ w.op = "LoadK" => HasScalar(f, w.b)
       /\ w.c_const => HasScalar(f, w.c)
       /\ w.op \in {"GetGlobal", "SetGlobal", "DefineGlobal"} => HasName(f, w.b)
       /\ w.op \in {"GetUpvalue", "SetUpvalue"} => HasUpvalue(f, w.b)
       /\ w.op = "Closure" => /\ HasCode(f, w.b, fs)
                              /\ \A j \in Captures(f, i, fs) : /\ j \in DOMAIN f.code
                                                               /\ CaptureFits(f, f.code[j])

\* A fused word is followed by the other of its pair.
PairFits(f, i) ==
    \A pair \in FusedPairs :
        f.code[i].op = pair[1] => i + 1 \in DOMAIN f.code /\ f.code[i + 1].op = pair[3]

\* The words a run may be at, and those that may follow the word i.
Starts(f) == {i \in DOMAIN f.code : f.code[i].op # "Capture"}

Follows(f, i, fs) ==
    LET w == unfused(f.code[i])
    IN CASE w.op \in {"Return", "ReturnNil"} -> {}
         [] w.op = "Jump" -> {i + 1 + w.b}
         [] w.op \in {"JumpIfFalse", "JumpIfTrue"} -> {i + 1, i + 1 + w.b}
         [] w.op = "Closure" -> {i + 1 + Cardinality(Captures(f, i, fs))}
         [] OTHER -> {i + 1}

FunctionFits(f, fs) ==
    /\ f.code \in Seq(Range(f.code))
    /\ 1 \in Starts(f)
    /\ f.upvalues \in Seq(Range(f.upvalues))
    /\ f.arity \in Nat /\ f.frame_size \in Nat /\ f.arity <= f.frame_size
    /\ \A i \in Starts(f) : /\ OperandsFit(f, i, fs)
                            /\ PairFits(f, i)
                            /\ Follows(f, i, fs) \subseteq Starts(f)

\* The script captures nothing, and its window fits the register file.
ScriptFits(script) == script.upvalues = <<>> /\ 1 + script.frame_size <= RegisterSlots

WellFormed(fs) ==
    /\ fs \in Seq(Range(fs)) /\ fs # <<>>
    /\ \A k \in DOMAIN fs : FunctionFits(fs[k], fs)
    /\ ScriptFits(fs[Len(fs)])

-----------------------------------------------------------------------------
\* The machine with such code. Engines has its runs from the command line; here
\* a host may call Entry any number of times.

MachineInit ==
    /\ WellFormed(functions)
    /\ inline_cache \in BOOLEAN
    /\ run(functions, inline_cache)
    /\ jit \in {"off", "at_once", "background"}
    /\ attach_jit(jit, functions)

MachineNext == Interpret \/ RunMachineCode \/ call_entry

MachineSpec == MachineInit /\ [][MachineNext]_machine_vars

-----------------------------------------------------------------------------
\* Lengths are numbers, and an array has less elements than a 64-bit index that
\* is a negative int would need. No memory could hold more.
LengthsFit ==
    /\ \A id \in DOMAIN arrays : Len(arrays[id]) <= 4 * Half * Half - Half
    /\ \A s \in Slot : Is("str", registers[s]) => Len(registers[s][2]) \in Nat

\* A call's window is above every captured variable: a compiler has the callee in a
\* temporary, and temporaries are above the variables (compiler_reg.cpp, call).
CallsAboveVariables ==
    status = "running" /\ ~InMachineCode /\ insn.op = "Call" =>
        \A i \in DOMAIN open_upvalues : location(open_upvalues[i]) < callee_base

-----------------------------------------------------------------------------
\* Properties.

\* The machine never leaves its code, and an instruction only names registers
\* inside the window its function asked for, which lies in the register file: the
\* collector marks nothing above the window of the newest frame (vm_reg.cpp:62).
\* The same of the word that machine code has reached.
StaysInside(w) == Used(unfused(w)) \subseteq Windows(function)

InsideWindow ==
    status = "running" =>
        /\ frame.pc < Len(function.code) /\ StaysInside(insn)
        /\ frame.base + function.frame_size <= RegisterSlots
        /\ InMachineCode => activation.at < Len(function.code) /\ StaysInside(word)

\* A cached cell is the cell of the global its own instruction names, and that
\* global is defined: a slot "never goes stale" (vm_reg.cpp, GetGlobal).
CacheNeverStale ==
    \A f \in DOMAIN caches : \A w \in DOMAIN caches[f] :
        caches[f][w] # NoName =>
            /\ functions[f].code[w].op \in {"GetGlobal", "SetGlobal"}
            /\ Str(caches[f][w]) = functions[f].constants[functions[f].code[w].b + 1]
            /\ caches[f][w] \in DOMAIN globals

\* "At any instruction boundary the frame holds exactly what the register VM
\* would have in it" (jit_compiler.cpp:303): seen with the newest frame at the
\* word that machine code has reached, every step of machine code is the step
\* of an interpreter without a JIT and without an inline cache, or no step. Not
\* said of fused code, whose pairs the interpreter takes in one step.
Interpreted == IF InMachineCode THEN [frames EXCEPT ![Len(frames)].pc = activation.at] ELSE frames
Interpreter == INSTANCE RegisterCode WITH frames <- Interpreted, caches <- <<>>,
                                          inline_cache <- FALSE
Fused == \E f \in DOMAIN functions : \E w \in ToSet(functions[f].code) : is_fused(w.op)

ActsAsInterpreter ==
    [][Fused \/ Interpreter!Step \/ Interpreter!call_global]_Interpreter!machine

\* What a nested bail-out relies on (jit_compiler.h:66): the newest frames are
\* those of the calls in machine code, all of one function that was compiled,
\* each at the window its call has, and every frame but the newest is past its
\* CALL, so that the interpreter only reloads the newest.
ActivationsMatchFrames ==
    \A i \in DOMAIN activations :
        LET f == frames[Len(frames) - Len(activations) + i]
        IN /\ f.base = activations[i].base
           /\ closures[f.closure].function = closure.function
           /\ jit_status[closure.function] = "compiled"
           /\ i < Len(activations) => /\ f.pc = activations[i].at + 1
                                      /\ function.code[f.pc].op = "Call"
=============================================================================
