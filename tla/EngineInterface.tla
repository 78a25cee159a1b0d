--------------------------- MODULE EngineInterface ---------------------------
(* What every engine offers (engine.h): it runs a program, then calls a       *)
(* global function of it a number of times, and what a user can see of that.   *)
(* The tree-walking engine is the reference the compiled ones are held to.     *)
EXTENDS SyntaxTree

CONSTANTS MaxLocalLimit,    \* kMaxLocalLimit: 255 in the program
          MaxCalls          \* the iterations of bench mode

ASSUME MaxCallsAssumption == MaxCalls \in Nat

Front_ == INSTANCE Resolver
Tree == INSTANCE TreeEngine
Folder == INSTANCE Folding

\* Of these programs, as the parser leaves them, those an engine is given: the
\* resolver accepts them.
Accepted(programs) ==
    {resolved.program : resolved \in {resolved \in {Front_!resolve(program) : program \in programs} :
                                          resolved.error = NoError}}

\* A program as an engine gets it, simplified or not.
Given(program, fold) == IF fold THEN Folder!fold(program) ELSE program

\* What a user sees when a run or a call has ended.
Shown(error_, out_, globals_, value, arrays_, names) ==
    [error |-> error_, out |-> out_,
     globals |-> [x \in DOMAIN globals_ |-> print_value(globals_[x], arrays_, names)],
     value |-> print_value(value, arrays_, names)]

\* What the tree-walker shows after the run r and after n calls, each begun
\* when the one before it has ended, with an error or not.
RECURSIVE Benched(_, _)
ShownBy(s, value) == Shown(s.error, s.out, s.globals, value, s.arrays, s.names)
Benched(r, n) ==
    <<ShownBy(r.state, r.value)>>
    \o (IF n = 0 THEN <<>> ELSE Benched(Tree!call_global(Entry, r.state), n - 1))

\* What every engine must show for a program, given to it simplified or not.
Expected(program) == Benched([value |-> Nil, state |-> Tree!run(program)], MaxCalls)
=============================================================================
