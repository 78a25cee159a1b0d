---------------------------- MODULE MCStackEngines ----------------------------
(* The programs the stack engine is run on.                                    *)
EXTENDS StackEngines, SamplePrograms

\* A function with as many locals as may be that calls itself from inside an
\* array, without end: the stack is full before the frames are.
WideForever ==
    {<<Function("wide", <<"a">>,
           Lets(SubSeq(Named, 2, MaxLocalLimit))
           \o <<ReturnStmt(ArrayLiteral(<<Yes, Var("b"), Var("c"), CallWith("wide", No)>>))>>),
       PrintStmt(CallWith("wide", Yes))>>}

StackPrograms == ExpressionPrograms \cup StatementPrograms \cup LimitPrograms
    \cup NestedAssignment \cup WideForever

\* The same function calling itself just as often as calls may be nested.
WideToTheLimit ==
    {<<Function("wide", <<"a">>,
           Lets(SubSeq(Named, 2, MaxLocalLimit))
           \o <<If(Less(Var("a"), 1), ReturnStmt(Var("b")), Absent),
                ReturnStmt(CallWith("wide", Binary("Sub", Var("a"), Num(1))))>>),
       PrintStmt(CallWith("wide", Num(MaxCallDepth - 1)))>>}
=============================================================================
