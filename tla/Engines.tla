------------------------------- MODULE Engines -------------------------------
(* A run of a program from the command line (main.cpp, bench.cpp): the program *)
(* is resolved, perhaps simplified, and compiled, then the register machine    *)
(* runs it, with a JIT or without, and calls its global Entry a number of      *)
(* times. Bench mode stops at the first error; here the calls go on after one, *)
(* as a host of the Engine interface may. The tree-walking engine is the       *)
(* reference: `expected` is what it shows for the same program, unsimplified.  *)
EXTENDS RegisterMachine, RegisterCompiler, EngineInterface

CONSTANT Suites             \* sets of programs, each with the switches they are run with

Switches == [fold : BOOLEAN, superinstructions : BOOLEAN, inline_cache : BOOLEAN,
             jit : {"off", "at_once", "background"}]

ASSUME MaxLocalLimitAssumption == MaxLocalLimit = MaxOperand
ASSUME SuitesAssumption == \A suite \in Suites : suite.options \subseteq Switches

VARIABLES expected,         \* what the tree-walker shows after the run and each call
          faults            \* the assertions of the compiler that failed

vars == <<machine, jit_vars, expected, faults>>

-----------------------------------------------------------------------------
\* A program the resolver accepts, prepared to run with some options.
Loaded(compiled, options, shown) ==
    [functions |-> compiled.functions, faults |-> compiled.faults,
     inline_cache |-> options.inline_cache, jit |-> options.jit, shown |-> shown]

Prepared(program, options, shown) ==
    Loaded(compile_register(Given(program, options.fold), options.superinstructions),
           options, shown)

PreparedAll(program, suite, shown) ==
    {Prepared(program, options, shown) : options \in suite.options}

Cases == UNION {UNION {PreparedAll(program, suite, Expected(program)) :
                          program \in Accepted(suite.programs)} : suite \in Suites}

Init == \E case \in Cases :
           /\ run(case.functions, case.inline_cache)
           /\ attach_jit(case.jit, case.functions)
           /\ expected = case.shown
           /\ faults = case.faults

Run == (Interpret \/ RunMachineCode) /\ UNCHANGED <<expected, faults>>

Bench == calls < MaxCalls /\ call_entry /\ UNCHANGED <<expected, faults>>

\* The process is over.
Ended == status # "running" /\ calls = MaxCalls
Over == Ended /\ UNCHANGED vars

Next == Run \/ Bench \/ Over

Fairness == WF_vars(Run) /\ WF_vars(Bench)

Spec == Init /\ [][Next]_vars /\ Fairness

-----------------------------------------------------------------------------
\* The values of the variables are what the machine can hold; the last two are
\* what the proofs about the machine take from its inputs and from its compiler.
TypeOK ==
    /\ status \in {"running", "finished", "failed"}
    /\ calls \in 0 .. MaxCalls
    /\ \A f \in ToSet(frames) : f.closure \in DOMAIN closures /\ f.base \in Slot
    /\ \A u \in DOMAIN upvalues : location(u) \in Slot \cup {ClosedUpvalue}
    /\ ToSet(open_upvalues) = {u \in DOMAIN upvalues : location(u) # ClosedUpvalue}
    /\ \A f \in DOMAIN caches : f \in DOMAIN functions
    /\ \A f \in DOMAIN functions : /\ jit_hotness[f] \in 0 .. JitThreshold
                                   /\ jit_status[f] # "cold" <=> jit_hotness[f] = JitThreshold
    /\ LengthsFit
    /\ CallsAboveVariables

\* The switches "change how an engine runs a program without changing what it
\* computes" (engine.h:68), and every engine prints the same: when the register
\* machine stops, after the run and after each call, its output, its error with
\* its line, its globals and the value returned are the tree-walker's, for every
\* choice of folding, superinstructions, the inline cache and the JIT.
SameOutcome ==
    status # "running" =>
        Shown(error, out, globals, result, arrays, Names) = expected[calls + 1]

\* The register compiler's own assertions: a temporary never outlives its
\* statement, a local lives in the register reserved just before it, arguments
\* are right above their callee, and every captured name is found.
CompilerAssertions == faults = {}

\* The words of the compiler's code fit one another and their function: no operand
\* names a register outside the window, a constant or an upvalue that is not there,
\* and no jump or end leads out of the code. What RegisterMachine asks of code.
CompilesWellFormed == WellFormed(functions)

\* A program the tree-walker finishes is finished: no compiled or fused jump
\* makes a loop of it.
Halts == <>Ended
=============================================================================
