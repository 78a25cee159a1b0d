------------------------------ MODULE MCEngines ------------------------------
(* The programs the register engine is run with, and the switches for them.    *)
EXTENDS Engines, SamplePrograms

Plain == {[fold |-> FALSE, superinstructions |-> FALSE, inline_cache |-> FALSE, jit |-> "off"]}
WithoutJit == {options \in Switches : options.jit = "off"}
WithJit == {options \in Switches : options.jit # "off"}
OnlyJit == {options \in WithJit : options.inline_cache = FALSE /\ options.superinstructions = FALSE
                                  /\ options.fold = FALSE}

Suite(programs, options) == [programs |-> programs, options |-> options]

NestedSuites == {Suite(NestedAssignment, Plain)}

\* Statements with every switch; expressions, and functions at the limits.
RegisterSuites == {Suite(StatementPrograms, WithoutJit),
                   Suite(ExpressionPrograms \cup LimitPrograms, Plain)}

-----------------------------------------------------------------------------
\* Functions for machine code. `run` calls one twice, and is called twice.

Neg1 == Unary("Negate", Num(1))
Lowest == Binary("Sub", Unary("Negate", Num(7)), Num(1))
Scalars == {Num(0), Num(3), Neg1, Lowest, Yes, Text("s")}
Constants_ == {Num(0), Num(3), Yes, Text("s")}
Pair == ArrayLiteral(<<Num(1), Num(2)>>)

Hot(params, body, args) ==
    <<Function("id", <<"x">>, <<ReturnStmt(Var("x"))>>),
      Function("f", params, body),
      Run_(<<PrintStmt(Call(Var("f"), args)), PrintStmt(Call(Var("f"), args))>>)>>

ArithmeticPrograms ==
    {Hot(<<"x", "y">>, <<ReturnStmt(Binary(op, Var("x"), Var("y")))>>, <<x, y>>) :
        op \in Operators, x, y \in Scalars}
    \cup {Hot(<<"x">>, <<ReturnStmt(Binary(op, Var("x"), c))>>, <<x>>) :
             op \in Operators, c \in Constants_, x \in {Num(3), Yes}}
    \cup {Hot(<<"x">>, <<ReturnStmt(Binary(op, c, Var("x")))>>, <<x>>) :
             op \in Operators, c \in Constants_, x \in {Num(3), Neg1}}
    \cup {Hot(<<"x">>, <<ReturnStmt(Unary(op, Var("x")))>>, <<x>>) :
             op \in {"Negate", "Not"}, x \in Scalars}
    \cup {Hot(<<"x">>, <<ReturnStmt(Binary("Add", Binary(op, Var("x"), Num(3)), Num(1)))>>, <<x>>) :
             op \in {"Div", "Mod"}, x \in Scalars}

ArrayPrograms ==
    {Hot(<<"c", "i">>, <<ReturnStmt(Index(Var("c"), i))>>, <<c, j>>) :
        c \in {Pair, Num(3), Text("s")}, i \in {Var("i"), Num(1), Num(2), Text("s")},
        j \in {Neg1, Num(0), Num(2), Yes}}
    \cup {Hot(<<"c", "i">>, <<SetAt(Var("c"), i, v), Let("d", Plus(Var("i"), 1)),
                              ReturnStmt(Index(Var("c"), Num(0)))>>, <<c, j>>) :
             c \in {Pair, Yes}, i \in {Var("i"), Num(1)}, v \in {Var("c"), Num(3), Literal(Nil)},
             j \in {Neg1, Num(0), Num(2)}}

\* Every truth value, loops that end at once, later, or in an error.
Sum == <<Let("s", Num(0)), Let("i", Num(0)),
         While(Less(Var("i"), 3), Block(<<Set_("s", Binary("Add", Var("s"), Var("x"))),
                                          Set_("i", Plus(Var("i"), 1))>>)),
         ReturnStmt(Var("s"))>>

BranchPrograms ==
    {Hot(<<"x">>, body, <<x>>) :
        body \in {<<If(Var("x"), ReturnStmt(Num(1)), Absent)>>,
                  <<If(Logical("And", Var("x"), Yes), ReturnStmt(No), Block(<<>>)), ReturnStmt(Literal(Nil))>>,
                  <<ReturnStmt(Logical("Or", Var("x"), Num(1)))>>,
                  <<While(Binary("Le", Var("x"), Num(1)), Set_("x", Plus(Var("x"), 1))), ReturnStmt(Var("x"))>>,
                  Sum},
        x \in Scalars \cup {No, Literal(Nil)}}

\* Functions that call themselves: to the end, until a check fails in a call or
\* after one, beyond the depth and the register file, with wrong arguments.
Self(n) == CallWith("f", Binary("Sub", Var("n"), Num(n)))
With(n, x) == Call(Var("f"), <<Binary("Sub", Var("n"), Num(n)), Var(x)>>)
AtEnd(e) == If(Less(Var("n"), 1), ReturnStmt(e), Absent)

SelfBodies ==
    {<<AtEnd(Num(1)), ReturnStmt(Binary("Add", Var("n"), Self(1)))>>,
     <<AtEnd(Literal(Nil)), ReturnStmt(Self(1))>>,
     <<AtEnd(Var("n")), ReturnStmt(Binary("Add", Self(1), Self(2)))>>,
     <<AtEnd(Absent), ExprStmt(Self(1)), ReturnStmt(Var("n"))>>,
     <<AtEnd(Yes), Let("r", Self(1)), If(Binary("Eq", Var("r"), Yes), ReturnStmt(Var("n")), Absent)>>,
     <<AtEnd(CallOf("f")), ReturnStmt(Self(1))>>,
     <<AtEnd(Var("f")), ReturnStmt(Call(Self(1), <<Num(0)>>))>>,
     <<AtEnd(Num(1)), Let("a", Num(1)), Let("b", Num(2)), ReturnStmt(Binary("Add", Var("a"), Self(1)))>>}

\* Windows so wide that the register file ends before the depth does. Called
\* only to a depth that no engine allows: the tree-walker has no such file.
WideBodies ==
    {<<AtEnd(Num(1)), Let("a", Num(1)), Let("b", Num(2)), Let("c", Num(2)),
       ReturnStmt(Binary("Add", Var("a"), Self(1)))>>,
     <<AtEnd(Num(1)), Let("a", Num(1)), Let("b", Num(2)), Let("c", Num(2)), Let("d", Num(2)),
       ReturnStmt(Binary("Add", Var("a"), Self(1)))>>}

EndBodies ==
    {<<AtEnd(e), ReturnStmt(Binary("Add", Var("n"), With(1, "b")))>> :
        e \in {Var("b"), Binary("Div", Num(1), Var("b")), Index(Var("b"), Num(0)),
               Logical("And", Binary("Eq", Var("b"), Var("b")), Num(1))}}

\* The name of the function is another value's while its code runs.
Renamed(value) ==
    <<Function("id", <<"x">>, <<ReturnStmt(Var("x"))>>),
      Function("f", <<"n">>, <<AtEnd(Num(1)), ReturnStmt(Binary("Add", Var("n"), Self(1)))>>),
      Run_(<<PrintStmt(CallWith("f", Num(1))), Let("h", Var("f")), Set_("f", value),
             PrintStmt(CallWith("h", Num(2))), Set_("f", Var("h"))>>)>>

SelfCallPrograms ==
    {Hot(<<"n">>, body, <<Num(n)>>) : body \in SelfBodies, n \in {0, 2, 5}}
    \cup {Hot(<<"n">>, body, <<Num(5)>>) : body \in WideBodies}
    \cup {Hot(<<"n", "b">>, body, <<Num(n), b>>) : body \in EndBodies, n \in {0, 1, 2},
             b \in {Num(0), Yes, Text("s"), Pair}}
    \cup {Renamed(value) : value \in {Var("id"), Num(3), Var("len")}}

MachineSuites == {Suite(ArithmeticPrograms \cup ArrayPrograms, OnlyJit),
                  Suite(BranchPrograms \cup SelfCallPrograms, WithJit)}
=============================================================================
