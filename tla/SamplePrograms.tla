--------------------------- MODULE SamplePrograms ---------------------------
(* The programs the engines are compared on, whichever engine it is.           *)
EXTENDS EngineInterface

Var(x) == Variable(x)
Num(n) == Literal(make_int(n))
CallOf(f) == Call(Var(f), <<>>)
CallWith(f, x) == Call(Var(f), <<x>>)

-----------------------------------------------------------------------------
\* Every expression of these forms, over a captured local a, a local array c, a
\* global g, a function that assigns a, and one that returns its argument.

Leaves == {Num(1), Var("a"), Var("g"), CallOf("bump")}

Simple == Leaves
    \cup {Assign(x, l) : x \in {"a", "g"}, l \in Leaves}
    \cup {Binary("Sub", l, m) : l, m \in Leaves}
    \cup {Logical(op, l, m) : op \in {"And", "Or"}, l, m \in {Var("a"), CallOf("bump"), Literal(Nil)}}
    \cup {Unary("Negate", l) : l \in Leaves}
    \cup {CallWith("id", l) : l \in Leaves}
    \cup {Index(Var("c"), l) : l \in Leaves}
    \cup {IndexAssign(Var("c"), Num(1), l) : l \in Leaves}

Expressions == Simple
    \cup {Binary("Sub", l, e) : l \in Leaves, e \in Simple}

\* Where the value of an expression is wanted.
Contexts(e) ==
    {<<PrintStmt(e)>>, <<ExprStmt(Assign("a", e))>>, <<Let("r", e), PrintStmt(Var("r"))>>,
     <<ExprStmt(IndexAssign(Var("c"), Num(0), e))>>, <<ReturnStmt(e)>>}

ExpressionProgram(use) ==
    <<Let("g", Num(5)),
      Function("run", <<>>,
          <<Let("a", Num(1)),
            Let("c", ArrayLiteral(<<Num(2), Num(3)>>)),
            Function("bump", <<>>, <<ExprStmt(Assign("a", Binary("Add", Var("a"), Num(1)))),
                                     ReturnStmt(Var("a"))>>),
            Function("id", <<"x">>, <<ReturnStmt(Var("x"))>>)>>
          \o use
          \o <<PrintStmt(Var("a")), PrintStmt(Var("c"))>>)>>

ExpressionPrograms == {ExpressionProgram(use) : use \in UNION {Contexts(e) : e \in Expressions}}

-----------------------------------------------------------------------------
\* Statements, each tried in a function, in a loop of it, and in a block of the
\* script, over a local a, a global g and the function id.

Set_(x, e) == ExprStmt(Assign(x, e))
SetAt(e, i, v) == ExprStmt(IndexAssign(e, i, v))
Plus(e, n) == Binary("Add", e, Num(n))
Less(e, n) == Binary("Lt", e, Num(n))
Text(string) == Literal(Str(string))
Yes == Literal(True)
No == Literal(False)

Conditions == {Yes, Literal(Nil), Text("s"), Less(Var("a"), 2), Unary("Not", No),
               Logical("And", Num(1), Var("g")), Logical("Or", No, Binary("Le", Var("a"), Num(1)))}

Branches ==
    {<<If(c, Block(<<Let("b", Num(1)), PrintStmt(Var("b"))>>), Absent), Set_("a", Num(2))>> :
        c \in Conditions}
    \cup {<<If(c, Set_("a", Num(3)), If(No, PrintStmt(Num(4)), Block(<<>>))), PrintStmt(c)>> :
             c \in Conditions}
    \cup {<<While(Logical("And", c, Less(Var("a"), 3)),
                  Block(<<Set_("a", Plus(Var("a"), 1)), PrintStmt(Var("a"))>>))>> : c \in Conditions}
    \cup {<<While(c, PrintStmt(Num(1)))>> : c \in {No, Literal(Nil)}}

Operands == {Num(3), Unary("Negate", Num(7)), Num(0), Yes}
Operators == {"Add", "Sub", "Mul", "Div", "Mod", "Eq", "Ne", "Lt", "Le", "Gt", "Ge"}

Arithmetics == {<<PrintStmt(Binary(op, x, y))>> : op \in Operators, x, y \in Operands}
    \cup {<<PrintStmt(Binary(op, Var("a"), y))>> : op \in Operators, y \in Operands}
    \cup {<<PrintStmt(Unary(op, x))>> : op \in {"Negate", "Not"}, x \in {Text("s"), Var("a")}}
    \cup {<<PrintStmt(Binary(op, Text("s"), Text("t")))>> : op \in {"Add", "Sub", "Eq"}}
    \cup {<<PrintStmt(Binary(op, Binary("Sub", Unary("Negate", Num(7)), x), Unary("Negate", x)))>> :
             op \in {"Div", "Mod", "Mul"}, x \in {Num(1), Var("a")}}

Get(x) == Function("get", <<>>, <<Set_(x, Plus(Var(x), 1)), ReturnStmt(Var(x)), PrintStmt(No)>>)

Errors ==
    {<<PrintStmt(Var("nowhere"))>>, <<Set_("nowhere", Var("a"))>>, <<Set_("a", CallOf("id"))>>,
     <<PrintStmt(CallWith("g", Num(1)))>>, <<PrintStmt(Call(Var("len"), <<>>))>>,
     <<PrintStmt(CallWith("len", Var("a")))>>, <<PrintStmt(Call(Var("array"), <<Yes, Num(1)>>))>>,
     <<PrintStmt(Index(Var("a"), Num(0)))>>, <<Let("c", ArrayLiteral(<<>>)), SetAt(Var("c"), Num(0), Yes)>>,
     <<Let("c", ArrayLiteral(<<Yes>>)), PrintStmt(Index(Var("c"), No))>>,
     <<If(Var("unset"), PrintStmt(CallOf("unset")), Absent), Get("a"), Set_("unset", Var("get")),
       Set_("a", Num(6)), PrintStmt(Var("nowhere"))>>}

Arrays ==
    {<<Let("c", ArrayLiteral(<<Var("a"), Num(1), CallWith("id", Num(2)), ArrayLiteral(<<>>), Yes>>)),
       SetAt(Var("c"), Num(1), Var("c")), PrintStmt(Var("c")), PrintStmt(CallWith("len", Var("c")))>>,
     <<Let("c", Call(Var("array"), <<Num(2), ArrayLiteral(<<Text("s")>>)>>)),
       SetAt(Index(Var("c"), Num(0)), Num(0), Var("id")), Set_("a", Plus(Var("a"), 1)),
       PrintStmt(Var("c")), PrintStmt(Binary("Eq", Index(Var("c"), Num(0)), Index(Var("c"), Num(1))))>>,
     <<Let("c", ArrayLiteral(<<Num(1), Num(2)>>)), SetAt(Var("c"), Num(0), Num(3)),
       Let("d", Plus(Var("a"), 1)),
       PrintStmt(Binary("Add", Binary("Mod", Index(Var("c"), Num(0)), Num(2)), Var("d"))),
       PrintStmt(Binary("Add", Binary("Div", Var("d"), Num(2)), Index(Var("c"), Num(2))))>>}

Closures ==
    {<<Block(<<Let("a", Num(2)), Get("a"), Set_("g", Var("get")), Set_("a", Num(4))>>),
       Let("over", Num(6)), PrintStmt(CallOf("g")), PrintStmt(Var("a"))>>,
     <<Get("a"), Set_("g", Var("get")), PrintStmt(Binary("Sub", Var("a"), CallOf("g")))>>,
     <<Function("outer", <<"x">>,
           <<Function("get", <<>>, <<Set_("x", Plus(Var("x"), 1)),
                                     ReturnStmt(Binary("Add", Var("a"), Var("x")))>>),
             ReturnStmt(Var("get"))>>),
       Let("first", CallWith("outer", Num(1))), Let("second", CallWith("outer", Num(2))),
       PrintStmt(CallOf("first")), PrintStmt(CallOf("second")), PrintStmt(CallOf("first"))>>,
     <<Function("down", <<"n">>, <<If(Less(Var("n"), 1), ReturnStmt(Absent), Absent),
                                   ExprStmt(CallWith("down", Binary("Sub", Var("n"), Num(1)))),
                                   ReturnStmt(Var("n"))>>),
       PrintStmt(CallWith("down", Num(1))), PrintStmt(CallWith("down", Num(4)))>>}

Pieces == Branches \cup Arithmetics \cup Errors \cup Arrays \cup Closures

Counted(body) == While(Less(Var("i"), 2), Block(body \o <<Set_("i", Plus(Var("i"), 1))>>))

Globals == <<Let("g", Num(5)), Let("unset", Absent), Function("id", <<"x">>, <<ReturnStmt(Var("x"))>>)>>
Started == <<Let("a", Num(1)), Let("i", Num(0))>>
Run_(body) == Function("run", <<>>, body)

StatementPrograms ==
    UNION {{Globals \o <<Run_(Started \o piece)>>,
            Globals \o <<Run_(Started \o <<Counted(piece)>>)>>,
            Globals \o <<Block(Started \o <<Counted(piece)>>)>>} : piece \in Pieces}

-----------------------------------------------------------------------------
\* Functions with as many variables, parameters, arguments or captures as may
\* be, one fewer and one more: variables one after the other or in blocks that
\* free theirs again, and captures carried by a function between.

Near == MaxLocalLimit - 1 .. MaxLocalLimit + 1
Named == <<"a", "b", "c", "d", "e", "f">>
Some(n) == SubSeq(Named, 1, n)
Lets(names) == [i \in DOMAIN names |-> Let(names[i], Num(i))]
Total(names) == FoldLeft(LAMBDA e, x : Binary("Add", e, Var(x)), Num(0), names)
Inner(name, names) == Function(name, <<>>, <<ReturnStmt(Total(names))>>)
CallAll(f, n) == Call(Var(f), [i \in 1 .. n |-> Num(i)])

LimitPieces ==
    {Lets(Some(n)) \o <<ReturnStmt(Total(Some(n)))>> : n \in Near}
    \cup {Lets(Some(n)) \o <<PrintStmt(Total(Some(n))), Let("z", Absent)>> : n \in Near}
    \cup {<<Block(Lets(Some(n))), Block(Lets(Some(m))), Let("a", No)>> : n, m \in Near}
    \cup {<<Function("all", Some(n), <<ReturnStmt(Total(Some(n)))>>),
            PrintStmt(CallAll("all", m))>> : n, m \in Near}
    \cup {<<Function("outer", Some(2),
               <<Function("middle", SubSeq(Named, 3, n),
                     <<Inner("get", Some(n)), ReturnStmt(CallOf("get"))>>),
                 ReturnStmt(CallAll("middle", n - 2))>>),
            PrintStmt(CallAll("outer", 2))>> : n \in Near}
    \cup {Lets(Some(3)) \o
          <<Function("middle", SubSeq(Named, 4, 6),
                <<Function("carrier", <<>>,
                      <<Inner("first", SubSeq(Named, 1, n)), Inner("second", SubSeq(Named, m, l)),
                        ReturnStmt(Binary("Add", CallOf("first"), CallOf("second")))>>),
                  ReturnStmt(CallOf("carrier"))>>),
            ReturnStmt(CallAll("middle", 3))>> : n, m \in 1 .. 6, l \in 5 .. 6}

LimitPrograms == {<<Run_(piece)>> : piece \in LimitPieces} \cup {<<Block(piece)>> : piece \in LimitPieces}

-----------------------------------------------------------------------------
\* A variable of a failed call, read by a closure that outlives it, when the
\* call failed in an assignment to a global nested in one to the variable.

NestedAssignment ==
    {<<Let("saved", Absent),
       Run_(<<If(Var("saved"), ReturnStmt(CallOf("saved")), Absent),
              Let("x", Num(1)),
              Function("get", <<>>, <<ReturnStmt(Var("x"))>>),
              Set_("saved", Var("get")),
              Set_("x", Assign("nowhere", Num(5)))>>)>>}
=============================================================================
