----------------------------- MODULE MachineCode -----------------------------
(* The register machine with a JIT (vm_reg.cpp, jit/jit_compiler.cpp): calls  *)
(* and loops are counted, a function that is hot and only uses what machine   *)
(* code can do is compiled, and its next call runs machine code. The machine  *)
(* code works on the machine's own registers, one instruction of the register *)
(* code after the other. Where a check fails it leaves for the interpreter,   *)
(* which goes on at that very instruction. A function may call itself: the    *)
(* machine code then pushes and pops frames of the interpreter. JitBackground *)
(* has how code is handed over; here it arrives at some call.                 *)
EXTENDS RegisterCode

CONSTANTS JitThreshold,     \* --jit-threshold
          MaxFrameSize,     \* kMaxFrameSize: 4,096 in the program
          MaxSelfCallFrameSize  \* kMaxSelfCallFrameSize: 2,047 in the program

ASSUME JitThresholdAssumption == JitThreshold \in Nat \ {0}

VARIABLES jit,              \* "off", "at_once" or "background"
          jit_hotness,      \* for every function, its calls and back-edges
          jit_status,       \* for every function, "cold", "queued", "compiled" or "rejected"
          jit_self_global,  \* the functions whose name was a global when they became hot
          activations       \* the calls in machine code, on the stack of the processor

jit_vars == <<jit, jit_hotness, jit_status, jit_self_global, activations>>

\* One activation per call: its register 0, and the word it is at. In all but
\* the newest that word is the CALL of the next.
Activation(base) == [base |-> base, at |-> 0]
activation == Last(activations)
word == function.code[activation.at + 1]

InMachineCode == activations # <<>>

\* The JIT of an engine that has run nothing.
attach_jit(mode, compiled) ==
    /\ jit = mode
    /\ jit_hotness = [f \in DOMAIN compiled |-> 0]
    /\ jit_status = [f \in DOMAIN compiled |-> "cold"]
    /\ jit_self_global = {}
    /\ activations = <<>>

-----------------------------------------------------------------------------
\* The whitelist. The first half of a fused pair is read as it was before; the
\* second half is an ordinary word.

unfused_op(w) ==
    IF is_fused(w.op) THEN (CHOOSE pair \in FusedPairs : pair[1] = w.op)[2] ELSE w.op

\* A constant that machine code can load, or compute with.
Loadable(v) == \E type \in {"int", "nil", "bool"} : Is(type, v)
Computable(v) == Is("int", v)

names_self(f, w) == functions[f].constants[w.b + 1] = Str(functions[f].name)

SelfCallFits(f, knows_itself) ==
    /\ knows_itself
    /\ functions[f].frame_size <= MaxSelfCallFrameSize
    /\ \E w \in ToSet(functions[f].code) : w.op = "GetGlobal" /\ names_self(f, w)

\* Whether the word w, number `index` of f, can be compiled.
Compiles(f, w, index, knows_itself) ==
    LET op == unfused_op(w)
        Rk(Fine(_)) == /\ w.b_const => Fine(functions[f].constants[w.b + 1])
                       /\ w.c_const => Fine(functions[f].constants[w.c + 1])
    IN \/ op \in {"Move", "LoadNil", "LoadTrue", "LoadFalse", "ReturnNil"}
       \/ op = "LoadK" /\ Loadable(functions[f].constants[w.b + 1])
       \/ op \in Arithmetic \cup {"Neg"} /\ Rk(Computable)
       \/ op \in {"Return", "IndexGet", "IndexSet"} /\ Rk(Loadable)
       \/ op \in Jumps /\ index + w.b \in 0 .. Len(functions[f].code) - 1
       \/ op = "GetGlobal" /\ knows_itself /\ names_self(f, w)
       \/ op = "Call" /\ SelfCallFits(f, knows_itself)

check_whitelist(f, knows_itself) ==
    /\ functions[f].frame_size <= MaxFrameSize
    /\ \A i \in DOMAIN functions[f].code : Compiles(f, functions[f].code[i], i, knows_itself)

-----------------------------------------------------------------------------
\* The hooks of the interpreter.

Cold(f) == jit # "off" /\ jit_status[f] = "cold" /\ functions[f].name # NoName

\* At the threshold the function is compiled at once, or queued.
Built(f, knows_itself) == IF jit = "background" THEN "queued"
                          ELSE IF check_whitelist(f, knows_itself) THEN "compiled"
                          ELSE "rejected"

\* What a call or a back-edge of f makes of its counter and its status.
jit_count(f) ==
    LET hot == jit_hotness[f] + 1 >= JitThreshold
        knows_itself == functions[f].name \in DOMAIN globals
    IN IF ~Cold(f) THEN [hotness |-> jit_hotness, status |-> jit_status, self |-> jit_self_global]
       ELSE [hotness |-> [jit_hotness EXCEPT ![f] = @ + 1],
             status |-> IF hot THEN [jit_status EXCEPT ![f] = Built(f, knows_itself)]
                        ELSE jit_status,
             self |-> IF hot /\ knows_itself THEN jit_self_global \cup {f} ELSE jit_self_global]

\* The code of a queued function may be there by now, if it can be compiled.
Arrives(f, counted) == counted.status[f] = "queued" /\ check_whitelist(f, f \in counted.self)

\* The frame of a call of f has just been pushed with its window at `base`.
jit_frame_entry(f, base) ==
    LET counted == jit_count(f)
    IN \E published \in IF Arrives(f, counted) THEN BOOLEAN ELSE {FALSE} :
          /\ jit_hotness' = counted.hotness
          /\ jit_self_global' = counted.self
          /\ jit_status' = IF published THEN [counted.status EXCEPT ![f] = "compiled"]
                           ELSE counted.status
          /\ activations' = IF jit_status'[f] = "compiled" THEN <<Activation(base)>> ELSE <<>>
          /\ UNCHANGED jit

\* Only a plain jump backwards is counted, also as the second half of a pair.
JumpWord == IF insn.op = "AddJump" THEN function.code[frame.pc + 2] ELSE insn
BackEdge == JumpWord.op = "Jump" /\ JumpWord.b < 0 /\ status' = "running"

jit_back_edge ==
    /\ LET counted == jit_count(closure.function)
       IN IF BackEdge THEN /\ jit_hotness' = counted.hotness
                           /\ jit_status' = counted.status
                           /\ jit_self_global' = counted.self
          ELSE UNCHANGED <<jit_hotness, jit_status, jit_self_global>>
    /\ UNCHANGED <<jit, activations>>

-----------------------------------------------------------------------------
\* What machine code computes: 32-bit registers wrap, SDIV truncates and gives 0
\* for a divisor 0, and a remainder is MSUB of the quotient.

SDIV(n, m) == IF m = 0 THEN 0 ELSE Wrap(Truncated(n, m))
MSUB(q, m, n) == Wrap(n - q * m)

MachineBinary(op, n, m) ==
    CASE op = "Add" -> make_int(Wrap(n + m))
      [] op = "Sub" -> make_int(Wrap(n - m))
      [] op = "Mul" -> make_int(Wrap(n * m))
      [] op = "Div" -> make_int(SDIV(n, m))
      [] op = "Mod" -> make_int(MSUB(SDIV(n, m), m, n))
      [] op = "Eq" -> make_bool(n = m)
      [] op = "Ne" -> make_bool(n # m)
      [] op = "Lt" -> make_bool(n < m)
      [] op = "Le" -> make_bool(n <= m)
      [] op = "Gt" -> make_bool(n > m)
      [] op = "Ge" -> make_bool(n >= m)

\* An int as the 64-bit unsigned number that SXTW makes of it.
Unsigned(n) == n % (4 * Half * Half)

\* The operands of the word, in the registers of the newest activation.
M(index) == registers[activation.base + index]
MRK(is_const, index) == IF is_const THEN K(index) ELSE M(index)
word_b == MRK(word.b_const, word.b)
word_c == MRK(word.c_const, word.c)
word_op == unfused_op(word)

\* One comparison for both ends of the array.
InArray(array, index) ==
    /\ Is("array", array)
    /\ Is("int", index)
    /\ Unsigned(index[2]) < Len(arrays[array[2]])

\* The checks of a self-call: a closure of this very function, the arguments it
\* takes, room for a frame and for its window.
NewBase == activation.base + word.a + 1
IsSelf(callee) == Is("function", callee) /\ closures[callee[2]].function = closure.function
\* Mutant: the frame about to be pushed is not counted.
DepthLeft_OffByOne == Len(frames) <= MaxCallDepth + uncounted_frames

DepthLeft == Len(frames) < MaxCallDepth + uncounted_frames
WindowLeft == NewBase + function.frame_size <= RegisterSlots
SelfCallPasses == word.b = function.arity /\ IsSelf(M(word.a)) /\ DepthLeft /\ WindowLeft

\* Whether a check of the word fails, or it is the end of the function.
\* Mutant: the register of the dividend is tested.
DivisorIsZero_Dividend == word_op \in {"Div", "Mod"} /\ word_b = make_int(0)

DivisorIsZero == word_op \in {"Div", "Mod"} /\ word_c = make_int(0)
Exits ==
    \/ word_op \in Arithmetic /\ (~Is("int", word_b) \/ ~Is("int", word_c) \/ DivisorIsZero)
    \/ word_op = "Neg" /\ ~Is("int", word_b)
    \/ word_op = "IndexGet" /\ ~InArray(word_b, word_c)
    \/ word_op = "IndexSet" /\ ~InArray(M(word.a), word_b)
    \/ word_op = "Call" /\ ~SelfCallPasses
    \/ word_op \in {"Return", "ReturnNil"}

-----------------------------------------------------------------------------
\* Machine code at work. All checks of a word come before its first write.

Machine(ops) == InMachineCode /\ word_op \in ops /\ ~Exits

Proceed(words) == activations' = [activations EXCEPT ![Len(activations)].at = @ + words]

machine_code_unchanged == <<program_vars, caches, globals, closures, upvalue_vars, out, run_vars,
                            jit, jit_hotness, jit_status, jit_self_global>>

\* Register A becomes v.
Store(ops, v) ==
    /\ Machine(ops)
    /\ registers' = [registers EXCEPT ![activation.base + word.a] = v]
    /\ Proceed(1)
    /\ UNCHANGED <<machine_code_unchanged, arrays, frames>>

MachineLoad ==
    \/ Store({"Move"}, M(word.b))
    \/ Store({"LoadK"}, K(word.b))
    \/ Store({"LoadNil"}, Nil)
    \/ Store({"LoadTrue"}, True)
    \/ Store({"LoadFalse"}, False)
    \/ Store({"GetGlobal"}, globals[function.name])

MachineArithmetic ==
    \/ Store(Arithmetic, MachineBinary(word_op, word_b[2], word_c[2]))
    \/ Store({"Neg"}, make_int(Wrap(-word_b[2])))
    \/ Store({"IndexGet"}, arrays[word_b[2]][word_c[2] + 1])

MachineIndexSet ==
    /\ Machine({"IndexSet"})
    /\ arrays' = [arrays EXCEPT ![M(word.a)[2]][word_b[2] + 1] = word_c]
    /\ Proceed(1)
    /\ UNCHANGED <<machine_code_unchanged, registers, frames>>

\* Falsy are the bits of nil and of false, and nothing else.
Falsy(v) == v = Nil \/ v = False
Jumping == \/ word_op = "Jump"
           \/ word_op = "JumpIfFalse" /\ Falsy(M(word.a))
           \/ word_op = "JumpIfTrue" /\ ~Falsy(M(word.a))

MachineJump ==
    /\ Machine(Jumps)
    /\ Proceed(IF Jumping THEN 1 + word.b ELSE 1)
    /\ UNCHANGED <<machine_code_unchanged, arrays, registers, frames>>

\* The caller's frame is to go on after the CALL, and the callee's registers
\* above its arguments are nil, as the interpreter makes them.
SelfCall ==
    /\ Machine({"Call"})
    /\ frames' = Append([frames EXCEPT ![Len(frames)].pc = activation.at + 1],
                        NewFrame(M(word.a), NewBase))
    /\ registers' = Slide(M(word.a), NewBase, registers)
    /\ activations' = Append(activations, Activation(NewBase))
    /\ UNCHANGED <<machine_code_unchanged, arrays>>

\* Back in the interpreter, at the word that the code of the called function
\* has reached: a return, or a failed check.
Leaving == InMachineCode /\ Exits
ReturnsNow == word_op \in {"Return", "ReturnNil"}

ExitToInterpreter ==
    /\ Leaving
    /\ Len(activations) = 1
    /\ frames' = [frames EXCEPT ![Len(frames)].pc = activation.at]
    /\ activations' = <<>>
    /\ UNCHANGED <<machine_code_unchanged, arrays, registers>>

\* Mutant: the frame is left to the interpreter to pop.
ReturnToCaller_KeepsFrame ==
    LET caller == activations[Len(activations) - 1]
        called == function.code[caller.at + 1]
        value == IF word_op = "ReturnNil" THEN Nil
                 ELSE IF word.b_const THEN K(word.b)
                 ELSE registers[caller.base + called.a + 1 + word.b]
    IN /\ Leaving /\ ReturnsNow
       /\ Len(activations) > 1
       /\ registers' = [registers EXCEPT ![caller.base + called.a] = value]
       /\ activations' = Append(Front(Front(activations)), [caller EXCEPT !.at = @ + 1])
       /\ UNCHANGED <<machine_code_unchanged, arrays, frames>>

\* A self-call has reached its return: its caller takes the result from the
\* callee's window into its register A and pops the callee's frame.
ReturnToCaller ==
    LET caller == activations[Len(activations) - 1]
        called == function.code[caller.at + 1]
        value == IF word_op = "ReturnNil" THEN Nil
                 ELSE IF word.b_const THEN K(word.b)
                 ELSE registers[caller.base + called.a + 1 + word.b]
    IN /\ Leaving /\ ReturnsNow
       /\ Len(activations) > 1
       /\ registers' = [registers EXCEPT ![caller.base + called.a] = value]
       /\ frames' = Front(frames)
       /\ activations' = Append(Front(Front(activations)), [caller EXCEPT !.at = @ + 1])
       /\ UNCHANGED <<machine_code_unchanged, arrays>>

\* A check failed in a self-call: the word becomes its frame's, every calling
\* activation just returns, and the interpreter goes on in the newest frame.
NestedBailout ==
    /\ Leaving /\ ~ReturnsNow
    /\ Len(activations) > 1
    /\ frames' = [frames EXCEPT ![Len(frames)].pc = activation.at]
    /\ activations' = <<>>
    /\ UNCHANGED <<machine_code_unchanged, arrays, registers>>

RunMachineCode ==
    \/ MachineLoad \/ MachineArithmetic \/ MachineIndexSet \/ MachineJump
    \/ SelfCall \/ ExitToInterpreter \/ ReturnToCaller \/ NestedBailout

-----------------------------------------------------------------------------
\* The interpreter, with its hooks.
Interpret ==
    /\ ~InMachineCode
    /\ \/ Straight /\ UNCHANGED jit_vars
       \/ Branch /\ jit_back_edge
       \/ CallClosure /\ jit_frame_entry(closures[callee_value[2]].function, callee_base)

\* A call from outside, once the machine has stopped.
call_entry ==
    /\ call_global
    /\ IF status' = "running"
       THEN jit_frame_entry(closures[globals[Entry][2]].function, 1)
       ELSE UNCHANGED jit_vars
=============================================================================
