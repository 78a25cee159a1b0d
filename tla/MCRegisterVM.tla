---------------------------- MODULE MCRegisterVM ----------------------------
(* RegisterVM for TLC, with three functions: the script declares `outer`,    *)
(* and `outer` declares `inner`.                                             *)
EXTENDS RegisterVM, TLC

CONSTANTS script, outer, inner

ThreeFunctions(s, o, i) == (script :> s) @@ (outer :> o) @@ (inner :> i)

FromEnclosing(i) == [is_local |-> TRUE, index |-> i]
FromFurtherOut(i) == [is_local |-> FALSE, index |-> i]

MCObject == 1..4
MCFunction == {script, outer, inner}
MCNested == ThreeFunctions({outer}, {inner}, {})

\* `inner` captures the parameter of `outer`.
ParameterArity == ThreeFunctions(0, 1, 0)
ParameterFrameSize == ThreeFunctions(2, 2, 1)
ParameterCaptures == ThreeFunctions(<<>>, <<>>, <<FromEnclosing(0)>>)

\* `inner` captures a variable of the script, through `outer`; the variable
\* can be `outer` itself.  `inner` has no register, so its window can end
\* below its caller's.
NestedArity == ThreeFunctions(0, 0, 0)
NestedFrameSize == ThreeFunctions(2, 1, 0)
NestedCaptures == ThreeFunctions(<<>>, <<FromEnclosing(0)>>, <<FromFurtherOut(0)>>)
=============================================================================
