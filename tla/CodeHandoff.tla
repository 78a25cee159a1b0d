---------------------------- MODULE CodeHandoff ----------------------------
(***************************************************************************)
(* What the JIT promises the register VM, with one compiler thread or      *)
(* without: a function is compiled at most once, machine code is entered   *)
(* only after it has been published, and the collector leaves a function   *)
(* alone while its compilation is pending.  JitBackground implements this  *)
(* with a queue, a mutex, two condition variables and an atomic pointer.   *)
(***************************************************************************)
CONSTANTS Function,    \* the compiled functions (ObjFunction)
          NoFunction   \* "no function"; not a member of Function

VARIABLES stage,     \* where each function stands
          running,   \* the function whose machine code runs, or NoFunction
          alive      \* the functions the collector has not freed

vars == <<stage, running, alive>>

Stage == {"interpreted", "pending", "compiled", "refused"}

Init ==
    /\ stage = [f \in Function |-> "interpreted"]
    /\ running = NoFunction
    /\ alive = Function

\* The function became hot and its compilation was asked for.
Request(f) ==
    /\ stage[f] = "interpreted"
    /\ stage' = [stage EXCEPT ![f] = "pending"]
    /\ UNCHANGED <<running, alive>>

\* A pending compilation ends with code.
Publish(f) ==
    /\ stage[f] = "pending"
    /\ stage' = [stage EXCEPT ![f] = "compiled"]
    /\ UNCHANGED <<running, alive>>

\* Pending compilations end without code: one is rejected, or what still
\* waits at the end is cancelled.
Refuse(given_up) ==
    /\ \A f \in given_up : stage[f] = "pending"
    /\ stage' = [f \in Function |-> IF f \in given_up THEN "refused" ELSE stage[f]]
    /\ UNCHANGED <<running, alive>>

\* The synchronous JIT asks and resolves in one step of the engine's thread.
CompileAtOnce(f, outcome) ==
    /\ stage[f] = "interpreted"
    /\ stage' = [stage EXCEPT ![f] = outcome]
    /\ UNCHANGED <<running, alive>>

\* The engine's thread jumps into published code of a live function.
Enter(f) ==
    /\ running = NoFunction
    /\ stage[f] = "compiled"
    /\ f \in alive
    /\ running' = f
    /\ UNCHANGED <<stage, alive>>

Leave ==
    /\ running # NoFunction
    /\ running' = NoFunction
    /\ UNCHANGED <<stage, alive>>

\* A collection frees functions, none of them pending and none running.
Free(dead) ==
    /\ \A f \in dead : stage[f] # "pending" /\ f # running
    /\ alive' = alive \ dead
    /\ UNCHANGED <<stage, running>>

Next ==
    \/ \E f \in Function : Request(f) \/ Publish(f) \/ Enter(f)
    \/ \E f \in Function, outcome \in {"compiled", "refused"} : CompileAtOnce(f, outcome)
    \/ \E S \in SUBSET Function : Refuse(S) \/ Free(S)
    \/ Leave

Spec == Init /\ [][Next]_vars

=============================================================================
