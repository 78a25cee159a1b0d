----------------------------- MODULE StackEngines -----------------------------
(* A run of a program from the command line (main.cpp, bench.cpp) with the     *)
(* stack engine: resolved, perhaps simplified, compiled to stack code and run, *)
(* then its global Entry is called a number of times, also after an error.     *)
(* Engines does the same with the register engine.                             *)
EXTENDS StackMachine, StackCompiler, EngineInterface

CONSTANTS Programs,         \* the programs, as the parser leaves them
          Folds             \* whether they are simplified first

ASSUME LimitsAssumption == MaxLocalLimit = MaxOperand /\ FrameSlots = MaxLocalLimit + 1
ASSUME FoldsAssumption == Folds \subseteq BOOLEAN

VARIABLES expected,         \* what the tree-walker shows after the run and each call
          faults            \* the assertions of the compiler that failed

vars == <<machine, expected, faults>>

-----------------------------------------------------------------------------
\* A program the resolver accepts, prepared to run.
Loaded(compiled, shown) ==
    [functions |-> compiled.functions, faults |-> compiled.faults, shown |-> shown]

PreparedAll(program, shown) ==
    {Loaded(compile_stack(Given(program, fold)), shown) : fold \in Folds}

Cases == UNION {PreparedAll(program, Expected(program)) : program \in Accepted(Programs)}

Init == \E case \in Cases :
           /\ run(case.functions)
           /\ expected = case.shown
           /\ faults = case.faults

Run == Step /\ UNCHANGED <<expected, faults>>

Bench == calls < MaxCalls /\ call_global /\ UNCHANGED <<expected, faults>>

\* The process is over.
Ended == status # "running" /\ calls = MaxCalls
Over == Ended /\ UNCHANGED vars

Next == Run \/ Bench \/ Over

Fairness == WF_vars(Run) /\ WF_vars(Bench)

Spec == Init /\ [][Next]_vars /\ Fairness

-----------------------------------------------------------------------------
\* The stack engine prints, reports, leaves in the globals and returns what the
\* tree-walker does, after the run and after each call, with a program
\* simplified or not.
SameOutcome ==
    status # "running" =>
        Shown(error, out, globals, result, arrays, Names) = expected[calls + 1]

\* The shapes of the words of f that a run may be at: that of the first word, and
\* from each word, in order and again as long as there is a change, those of the
\* words that may follow it.
Join(shapes, j, shape) ==
    IF j \in DOMAIN shapes THEN [shapes EXCEPT ![j].captured = @ \cup shape.captured]
    ELSE (j :> shape) @@ shapes

Pass(f, fs, first) ==
    LET After(shapes, i) == [height |-> HeightAfter(f.code[i], shapes[i].height),
                             captured |-> CapturedAfter(f, i, fs, shapes[i])]
        Onwards(shapes, i) == FoldSet(LAMBDA j, joined : Join(joined, j, After(shapes, i)),
                                      shapes, Follows(f, i, fs))
    IN FoldLeft(LAMBDA shapes, i : IF i \in DOMAIN shapes THEN Onwards(shapes, i) ELSE shapes,
                first, [i \in DOMAIN f.code |-> i])

RECURSIVE Spread(_, _, _)
Spread(f, fs, shapes) ==
    LET passed == Pass(f, fs, shapes)
    IN IF passed = shapes THEN shapes ELSE Spread(f, fs, passed)

Shapes(fs) ==
    [k \in DOMAIN fs |-> Spread(fs[k], fs, 1 :> [height |-> fs[k].arity + 1, captured |-> {}])]

\* The stack compiler's own assertions hold: locals, captures, slots and argument
\* counts fit their operands, and every captured name is found. Then its code has
\* shapes: on every way to a word the stack is as high, whatever is captured is
\* closed before its slot is taken off, and there is room for the temporaries.
\* What StackMachine asks of code.
CompilesWellFormed ==
    /\ faults = {}
    /\ calls = 0 /\ Len(frames) = 1 /\ frame.ip = 0 =>
           LET shapes == Shapes(functions)
           IN Shaped(functions, shapes) /\ Low(functions, shapes)

\* A program the tree-walker finishes is finished: no jump makes a loop of it.
Halts == <>Ended

\* "The most Rung calls that may be active at once, in every engine. The
\* 10,001st is the runtime error" (ops.h:90): no call fails for want of room
\* while fewer are active.
OverflowAtLimit ==
    Dispatch("Call") /\ call_error = StackOverflow => counted_frames = MaxCallDepth
=============================================================================
