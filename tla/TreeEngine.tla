----------------------------- MODULE TreeEngine -----------------------------
(* The tree-walking evaluator (engine_tree.cpp), the simplest of the engines, *)
(* as an operator from a resolved program to what a run of it shows. The      *)
(* engine state s has the globals, the environments created so far (each with *)
(* its variables and the environment around it), the arrays, the functions,   *)
(* the output, the first runtime error and the calls that are active. An      *)
(* evaluation returns a value and the state after it; after an error nothing  *)
(* more is evaluated.                                                         *)
EXTENDS SyntaxTree, SequencesExt

LOCAL GlobalScope == 0      \* the null environment

\* names[f] and functions[f] are function f's name and declaration.
TreeState ==
    [globals |-> [x \in DOMAIN Natives |-> NativeRef(x)], envs |-> <<>>, arrays |-> <<>>,
     functions |-> <<>>, names |-> <<>>, out |-> <<>>, error |-> NoError, depth |-> 0]

failed(s) == s.error # NoError
fail(s, line, message) == [s EXCEPT !.error = <<line, message>>]

Value(v, s) == [value |-> v, state |-> s]
Failure(s, line, message) == Value(Nil, fail(s, line, message))

\* What an operation of Operations yields, its error reported on `line`.
Finish(result, s, line) ==
    IF result.error = NoError THEN Value(result.value, s)
    ELSE Failure(s, line, result.error)

NewScope(vars, enclosing, s) ==
    [s EXCEPT !.envs = Append(@, [vars |-> vars, enclosing |-> enclosing])]

define_in(env, name, v, s) ==
    IF env = GlobalScope THEN [s EXCEPT !.globals = (name :> v) @@ @]
    ELSE [s EXCEPT !.envs[env].vars = (name :> v) @@ @]

RECURSIVE Enclosing(_, _, _)
Enclosing(env, hops, s) == IF hops = 0 THEN env ELSE Enclosing(s.envs[env].enclosing, hops - 1, s)

\* The scope that holds a variable the resolver bound, or the globals.
scope_of(binding, env, s) ==
    IF binding.kind = "Global" THEN GlobalScope ELSE Enclosing(env, binding.hops, s)

defined(scope, name, s) == scope # GlobalScope \/ name \in DOMAIN s.globals
contents(scope, name, s) ==
    IF scope = GlobalScope THEN s.globals[name] ELSE s.envs[scope].vars[name]

-----------------------------------------------------------------------------
RECURSIVE Eval(_, _, _), Exec(_, _, _)

\* The values of several expressions, in order, after those in `acc`; stops at
\* the first error.
RECURSIVE EvalAll(_, _, _)
Pushed(values, r) == Value(Append(values, r.value), r.state)
EvalAll(exprs, env, acc) ==
    IF failed(acc.state) \/ Len(acc.value) = Len(exprs) THEN acc
    ELSE EvalAll(exprs, env, Pushed(acc.value, Eval(exprs[Len(acc.value) + 1], env, acc.state)))

\* The operands an expression evaluates before it does anything itself.
Operands(e) ==
    CASE e.node = "Call" -> <<e.callee>> \o e.args
      [] e.node = "ArrayLiteral" -> e.elements
      [] e.node = "Logical" -> <<e.left>>
      [] OTHER -> [i \in DOMAIN Parts[e.node] |-> e[Parts[e.node][i]]]

EvalVariable(n, scope, s) ==
    IF defined(scope, n.name, s) THEN Value(contents(scope, n.name, s), s)
    ELSE Failure(s, n.line, undefined_variable(n.name))

EvalAssign(n, scope, v, s) ==
    IF defined(scope, n.name, s) THEN Value(v, define_in(scope, n.name, v, s))
    ELSE Failure(s, n.line, undefined_variable(n.name))

\* The deciding operand's value.
EvalLogical(n, env, left, s) ==
    IF is_truthy(left) = (n.op = "Or") THEN Value(left, s) ELSE Eval(n.right, env, s)

EvalArrayLiteral(values, s) ==
    Value(ArrayRef(Len(s.arrays) + 1), [s EXCEPT !.arrays = Append(@, values)])

EvalIndexAssign(n, v, s) ==
    IF resolve_index(s.arrays, v[1], v[2]) # NoError
    THEN Failure(s, n.line, resolve_index(s.arrays, v[1], v[2]))
    ELSE Value(v[3], [s EXCEPT !.arrays = array_set(@, v[1], v[2], v[3])])

-----------------------------------------------------------------------------
\* How a statement ended, the value it returns, and the state after it.
Ended(flow, value, s) == [flow |-> flow, value |-> value, state |-> s]
Normal(s) == Ended(IF failed(s) THEN "Error" ELSE "Normal", Nil, s)

RECURSIVE ExecAll(_, _, _)
ExecRest(statements, env, last) ==
    IF last.flow # "Normal" THEN last ELSE ExecAll(statements, env, last.state)
ExecAll(statements, env, s) ==
    IF statements = <<>> THEN Normal(s)
    ELSE ExecRest(Tail(statements), env, Exec(Head(statements), env, s))

\* A call of a function of the program: a scope inside its closure for the
\* parameters and the body, and nil if the body falls off its end.
Arguments(params, args) ==
    [x \in ToSet(params) |-> args[CHOOSE i \in DOMAIN params : params[i] = x]]

Entered(f, args, s) ==
    [NewScope(Arguments(f.declaration.params, args), f.closure, s) EXCEPT !.depth = @ + 1]

Returned(body) ==
    Value(IF body.flow = "Return" THEN body.value ELSE Nil, [body.state EXCEPT !.depth = @ - 1])

call_function(f, args, line, s) ==
    IF Len(f.declaration.params) # Len(args)
    THEN Failure(s, line, arity_error(Len(f.declaration.params), Len(args)))
    ELSE IF s.depth >= MaxCallDepth THEN Failure(s, line, StackOverflow)
    ELSE Returned(ExecAll(f.declaration.statements, Len(s.envs) + 1, Entered(f, args, s)))

call_native(name, args, line, s) ==
    IF Natives[name] # Len(args) THEN Failure(s, line, arity_error(Natives[name], Len(args)))
    ELSE Finish(CallNative(name, args, s.arrays).result,
                [s EXCEPT !.arrays = CallNative(name, args, @).arrays], line)

call_value(callee, args, line, s) ==
    CASE Is("function", callee) -> call_function(s.functions[callee[2]], args, line, s)
      [] Is("native", callee) -> call_native(callee[2], args, line, s)
      [] OTHER -> Failure(s, line, NotCallable)

\* An expression whose operands have the values v.
EvalNode(e, env, v, s) ==
    CASE e.node = "Literal" -> Value(e.value, s)
      [] e.node = "Variable" -> EvalVariable(e, scope_of(e.binding, env, s), s)
      [] e.node = "Assign" -> EvalAssign(e, scope_of(e.binding, env, s), v[1], s)
      [] e.node = "Unary" -> Finish(UnaryOperation(e.op, v[1]), s, e.line)
      [] e.node = "Binary" -> Finish(BinaryOperation(e.op, v[1], v[2]), s, e.line)
      [] e.node = "Logical" -> EvalLogical(e, env, v[1], s)
      [] e.node = "Call" -> call_value(v[1], Tail(v), e.line, s)
      [] e.node = "ArrayLiteral" -> EvalArrayLiteral(v, s)
      [] e.node = "Index" -> Finish(array_get(s.arrays, v[1], v[2]), s, e.line)
      [] e.node = "IndexAssign" -> EvalIndexAssign(e, v, s)

Evaluated(e, env, r) ==
    IF failed(r.state) THEN Value(Nil, r.state) ELSE EvalNode(e, env, r.value, r.state)

Eval(e, env, s) == Evaluated(e, env, EvalAll(Operands(e), env, Value(<<>>, s)))

-----------------------------------------------------------------------------
\* Statements. Most evaluate one expression first, which may be absent.
FirstExpr(n) ==
    CASE n.node \in {"If", "While"} -> n.condition
      [] n.node \in {"Print", "Return"} -> n.value
      [] n.node = "ExprStmt" -> n.expr
      [] n.node = "Let" -> n.init
      [] OTHER -> Absent

EvalOr(part, env, s) == IF Present(part) THEN Eval(part, env, s) ELSE Value(Nil, s)

ExecPrint(v, s) ==
    Normal([s EXCEPT !.out = Append(@, print_value(v, s.arrays, s.names))])

ExecIf(n, env, v, s) ==
    IF is_truthy(v) THEN Exec(n.then_branch, env, s)
    ELSE IF Present(n.else_branch) THEN Exec(n.else_branch, env, s)
    ELSE Normal(s)

\* After an iteration that ended normally, the loop again.
Again(n, env, body) == IF body.flow = "Normal" THEN Exec(n, env, body.state) ELSE body
ExecWhile(n, env, v, s) ==
    IF is_truthy(v) THEN Again(n, env, Exec(n.body, env, s)) ELSE Normal(s)

\* The scope the statement runs in becomes the function's closure.
ExecFunction(n, env, s) ==
    Normal(define_in(env, n.name, FunctionRef(Len(s.functions) + 1),
                     [s EXCEPT !.functions = Append(@, [declaration |-> n, closure |-> env]),
                               !.names = Append(@, n.name)]))

\* A statement whose first expression has the value v.
ExecNode(n, env, v, s) ==
    CASE n.node = "Print" -> ExecPrint(v, s)
      [] n.node = "ExprStmt" -> Normal(s)
      [] n.node = "Let" -> Normal(define_in(env, n.name, v, s))
      [] n.node = "Block" -> ExecAll(n.statements, Len(s.envs) + 1, NewScope(<<>>, env, s))
      [] n.node = "If" -> ExecIf(n, env, v, s)
      [] n.node = "While" -> ExecWhile(n, env, v, s)
      [] n.node = "Function" -> ExecFunction(n, env, s)
      [] n.node = "Return" -> Ended("Return", v, s)

Executed(n, env, r) ==
    IF failed(r.state) THEN Normal(r.state) ELSE ExecNode(n, env, r.value, r.state)

Exec(n, env, s) == Executed(n, env, EvalOr(FirstExpr(n), env, s))

-----------------------------------------------------------------------------
\* The entry points: a run of a program, then calls of one of its globals. Each
\* hands its error over and leaves the engine without one.

run(program) == ExecAll(program, GlobalScope, TreeState).state

call_global(name, s) ==
    LET usable == [s EXCEPT !.error = NoError]
    IN IF name \in DOMAIN s.globals THEN call_value(s.globals[name], <<>>, NoLine, usable)
       ELSE Failure(usable, NoLine, undefined_variable(name))
=============================================================================
