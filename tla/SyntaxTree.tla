----------------------------- MODULE SyntaxTree -----------------------------
(* The syntax tree (ast.h): one constructor per node kind. The parser leaves  *)
(* every use of a name unresolved, and the resolver fills in its binding. The *)
(* line of a node is where the source has its token; here every node stands   *)
(* on a line of its own, numbered by the resolver's walk, so that an error    *)
(* reported on a wrong line is always seen.                                   *)
EXTENDS Operations

Unresolved == [kind |-> "Unresolved", hops |-> 0]
Global == [kind |-> "Global", hops |-> 0]
Local(hops) == [kind |-> "Local", hops |-> hops]

Literal(v) == [node |-> "Literal", value |-> v, line |-> NoLine]
Variable(name) ==
    [node |-> "Variable", name |-> name, binding |-> Unresolved, line |-> NoLine]
Assign(name, value) ==
    [node |-> "Assign", name |-> name, value |-> value, binding |-> Unresolved,
     line |-> NoLine]
Unary(op, operand) ==
    [node |-> "Unary", op |-> op, operand |-> operand, line |-> NoLine]
Binary(op, left, right) ==
    [node |-> "Binary", op |-> op, left |-> left, right |-> right, line |-> NoLine]
Logical(op, left, right) ==
    [node |-> "Logical", op |-> op, left |-> left, right |-> right, line |-> NoLine]
Call(callee, args) ==
    [node |-> "Call", callee |-> callee, args |-> args, line |-> NoLine]
ArrayLiteral(elements) ==
    [node |-> "ArrayLiteral", elements |-> elements, line |-> NoLine]
Index(object, index) ==
    [node |-> "Index", object |-> object, index |-> index, line |-> NoLine]
IndexAssign(object, index, value) ==
    [node |-> "IndexAssign", object |-> object, index |-> index, value |-> value,
     line |-> NoLine]

\* A part that is not there: the initializer of a let, a return's value, an
\* else branch.
Absent == [node |-> "Absent"]
Present(part) == part.node # "Absent"

PrintStmt(value) == [node |-> "Print", value |-> value, line |-> NoLine]
ExprStmt(expr) == [node |-> "ExprStmt", expr |-> expr, line |-> NoLine]
Let(name, init) == [node |-> "Let", name |-> name, init |-> init, line |-> NoLine]
Block(statements) == [node |-> "Block", statements |-> statements, line |-> NoLine]
If(condition, then_branch, else_branch) ==
    [node |-> "If", condition |-> condition, then_branch |-> then_branch,
     else_branch |-> else_branch, line |-> NoLine]
While(condition, body) ==
    [node |-> "While", condition |-> condition, body |-> body, line |-> NoLine]
\* The statements of its body.
Function(name, params, statements) ==
    [node |-> "Function", name |-> name, params |-> params, statements |-> statements,
     line |-> NoLine]
ReturnStmt(value) == [node |-> "Return", value |-> value, line |-> NoLine]

\* The fields of a node that hold other nodes, in the order they are evaluated
\* or run. Those of Lists hold a sequence of nodes.
Parts == [Literal |-> <<>>, Variable |-> <<>>, Assign |-> <<"value">>,
          Unary |-> <<"operand">>, Binary |-> <<"left", "right">>,
          Logical |-> <<"left", "right">>, Call |-> <<"callee", "args">>,
          ArrayLiteral |-> <<"elements">>, Index |-> <<"object", "index">>,
          IndexAssign |-> <<"object", "index", "value">>,
          ExprStmt |-> <<"expr">>, Let |-> <<"init">>,
          Block |-> <<"statements">>, If |-> <<"condition", "then_branch", "else_branch">>,
          While |-> <<"condition", "body">>, Function |-> <<"statements">>,
          Return |-> <<"value">>, Absent |-> <<>>] @@ ("Print" :> <<"value">>)
Lists == {"args", "elements", "statements"}
=============================================================================
