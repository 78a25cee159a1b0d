---------------------------- MODULE StackCompiler ----------------------------
(* The stack compiler (compiler_stack.cpp): an operator from a resolved       *)
(* program to the stack code of its functions (bytecode/chunk.h). A word of    *)
(* code here is an instruction with its operand, or one captured variable of a *)
(* Closure; a jump counts words where the code counts bytes. The state k of a  *)
(* compilation has the functions being compiled, outermost first, the          *)
(* finished ones, and the assertions of the code that failed. In a function    *)
(* locals[i] lives in slot i - 1, and slot 0 is the function itself.           *)
EXTENDS SyntaxTree

CONSTANT MaxOperand         \* what a one-byte operand holds: 255 in the program

Instruction(op, operand, line) == [op |-> op, operand |-> operand, line |-> line]

NewLocal(name, depth) == [name |-> name, depth |-> depth, captured |-> FALSE]

begin_function(name) ==
    [name |-> name, arity |-> 0, code |-> <<>>, constants |-> <<>>,
     locals |-> <<NewLocal("", 0)>>, upvalues |-> <<>>, scope_depth |-> 0]

Top(k) == Last(k.functions)
Level(k) == Len(k.functions)
at_global_scope(k) == Level(k) = 1 /\ Top(k).scope_depth = 0

\* An assertion of the code: that it failed is remembered.
Assert_(holds, what, k) == IF holds THEN k ELSE [k EXCEPT !.faults = @ \cup {what}]

emit_operand(op, operand, line, k) ==
    [k EXCEPT !.functions[Level(k)].code = Append(@, Instruction(op, operand, line))]
emit(op, line, k) == emit_operand(op, 0, line, k)
emit_u8(op, operand, line, k) ==
    emit_operand(op, operand, line, Assert_(operand <= MaxOperand, "operand <= 255", k))

\* One entry for each distinct string, and one for each use of anything else,
\* numbered from 0.
add_constant(v, k) ==
    IF Is("str", v) /\ v \in ToSet(Top(k).constants) THEN k
    ELSE [k EXCEPT !.functions[Level(k)].constants = Append(@, v)]
constant_index(v, k) == SelectLastInSeq(Top(k).constants, LAMBDA c : c = v) - 1

\* An instruction whose operand is the constant v.
emit_held(op, v, line, k) == emit_operand(op, constant_index(v, k), line, k)
emit_constant(op, v, line, k) == emit_held(op, v, line, add_constant(v, k))

\* Jumps: a distance counts from the instruction after the jump.
here(k) == Len(Top(k).code)
emit_jump(op, line, k) == emit(op, line, k)
patch_jump(jump, k) == [k EXCEPT !.functions[Level(k)].code[jump].operand = here(k) - jump]
\* (mutant) The target is taken where the loop ends.
emit_loop_late(start, line, k) == emit_operand("Loop", 1, line, k)
emit_loop(start, line, k) == emit_operand("Loop", here(k) + 1 - start, line, k)

-----------------------------------------------------------------------------
\* Locals and upvalues.

add_local(name, k) ==
    LET asserted == Assert_(Len(Top(k).locals) <= MaxOperand, "locals.size() <= 255", k)
    IN [asserted EXCEPT !.functions[Level(k)].locals =
            Append(@, NewLocal(name, Top(k).scope_depth))]

\* The slot of the innermost local of that name in the function at `level`, or -1.
resolve_local(name, level, k) ==
    SelectLastInSeq(k.functions[level].locals, LAMBDA l : l.name = name) - 1

add_upvalue(index, is_local, level, k) ==
    LET up == [index |-> index, is_local |-> is_local]
        upvalues == k.functions[level].upvalues
    IN IF up \in ToSet(upvalues)
       THEN [index |-> (CHOOSE i \in DOMAIN upvalues : upvalues[i] = up) - 1, state |-> k]
       ELSE [index |-> Len(upvalues),
             state |-> [Assert_(Len(upvalues) < MaxOperand, "upvalues.size() < 255", k)
                           EXCEPT !.functions[level].upvalues = Append(@, up)]]

\* Every function between the owner of a variable and its user captures it.
RECURSIVE resolve_upvalue(_, _, _)

carry_upvalue(outer, level) ==
    IF outer.index = -1 THEN outer ELSE add_upvalue(outer.index, FALSE, level, outer.state)

resolve_upvalue(name, level, k) ==
    LET slot == resolve_local(name, level - 1, k)
    IN IF level = 1 THEN [index |-> -1, state |-> k]
       ELSE IF slot # -1
       THEN add_upvalue(slot, TRUE, level,
                        [k EXCEPT !.functions[level - 1].locals[slot + 1].captured = TRUE])
       ELSE carry_upvalue(resolve_upvalue(name, level - 1, k), level)

EmitUpvalue(up, store, line) ==
    emit_u8(IF store THEN "SetUpvalue" ELSE "GetUpvalue", up.index, line,
            Assert_(up.index # -1, "resolver bound a variable to a local that is not in scope",
                    up.state))

emit_local_access(name, store, line, k) ==
    LET slot == resolve_local(name, Level(k), k)
    IN IF slot # -1 THEN emit_u8(IF store THEN "SetLocal" ELSE "GetLocal", slot, line, k)
       ELSE EmitUpvalue(resolve_upvalue(name, Level(k), k), store, line)

\* Leaving a scope takes its locals off the stack, the newest first; a captured
\* one is copied into its upvalue on the way.
\* (mutant) A captured local is only popped.
LeavingPop(local) == "Pop"
Leaving(local) == IF local.captured THEN "CloseUpvalue" ELSE "Pop"
end_scope(line, k) ==
    LET depth == Top(k).scope_depth - 1
        ends == SelectSeq(Top(k).locals, LAMBDA l : l.depth > depth)
    IN FoldLeft(LAMBDA kk, l : emit(Leaving(l), line, kk),
                [k EXCEPT !.functions[Level(k)].scope_depth = depth,
                          !.functions[Level(k)].locals =
                              SelectSeq(@, LAMBDA l : l.depth <= depth)],
                Reverse(ends))

-----------------------------------------------------------------------------
\* Expressions: the code of one leaves its value on top of the stack.

RECURSIVE CompileExpr(_, _)
CompileAll(exprs, k) == FoldLeft(LAMBDA kk, e : CompileExpr(e, kk), k, exprs)

CompileLiteral(e, k) ==
    CASE e.value = Nil -> emit("Nil", e.line, k)
      [] e.value = True -> emit("True", e.line, k)
      [] e.value = False -> emit("False", e.line, k)
      [] OTHER -> emit_constant("Const", e.value, e.line, k)

CompileVariable(e, k) ==
    IF e.binding.kind = "Global" THEN emit_constant("GetGlobal", Str(e.name), e.line, k)
    ELSE emit_local_access(e.name, FALSE, e.line, k)

\* The value stays on the stack as the value of the assignment.
CompileAssign(e, k) ==
    IF e.binding.kind = "Global" THEN emit_constant("SetGlobal", Str(e.name), e.line, k)
    ELSE emit_local_access(e.name, TRUE, e.line, k)

\* The left value stays if it decides, and is popped if the right one does.
DecideBy(e, k) == emit_jump("JumpIfFalse", e.line, CompileExpr(e.left, k))
Otherwise(e, end, k) == patch_jump(end, CompileExpr(e.right, emit("Pop", e.line, k)))

CompileAnd(e, k) == Otherwise(e, here(k), k)
CompileOr(e, k) ==
    Otherwise(e, here(k) + 1, patch_jump(here(k), emit_jump("Jump", e.line, k)))

CompileExpr(e, k) ==
    CASE e.node = "Literal" -> CompileLiteral(e, k)
      [] e.node = "Variable" -> CompileVariable(e, k)
      [] e.node = "Assign" -> CompileAssign(e, CompileExpr(e.value, k))
      [] e.node = "Unary" ->
             emit(IF e.op = "Negate" THEN "Neg" ELSE "Not", e.line, CompileExpr(e.operand, k))
      [] e.node = "Binary" -> emit(e.op, e.line, CompileAll(<<e.left, e.right>>, k))
      [] e.node = "Logical" ->
             IF e.op = "And" THEN CompileAnd(e, DecideBy(e, k)) ELSE CompileOr(e, DecideBy(e, k))
      [] e.node = "Call" ->
             emit_u8("Call", Len(e.args), e.line, CompileAll(<<e.callee>> \o e.args, k))
      [] e.node = "ArrayLiteral" ->
             emit_operand("Array", Len(e.elements), e.line, CompileAll(e.elements, k))
      [] e.node = "Index" -> emit("IndexGet", e.line, CompileAll(<<e.object, e.index>>, k))
      [] e.node = "IndexAssign" ->
             emit("IndexSet", e.line, CompileAll(<<e.object, e.index, e.value>>, k))

-----------------------------------------------------------------------------
\* Statements: the code of one leaves the locals of its scope on the stack.
\* A failed assertion is the end of the compilation.
RECURSIVE CompileStmt(_, _), CompileStmts(_, _)

CompileStmts(statements, k) ==
    IF k.faults # {} \/ statements = <<>> THEN k
    ELSE CompileStmts(Tail(statements), CompileStmt(Head(statements), k))

ValueOrNil(part, line, k) ==
    IF Present(part) THEN CompileExpr(part, k) ELSE emit("Nil", line, k)

CompileLet(n, k) ==
    IF at_global_scope(k)
    THEN emit_constant("DefineGlobal", Str(n.name), n.line, ValueOrNil(n.init, n.line, k))
    ELSE add_local(n.name, ValueOrNil(n.init, n.line, k))

CompileBlock(n, k) ==
    end_scope(n.line,
        CompileStmts(n.statements, [k EXCEPT !.functions[Level(k)].scope_depth = @ + 1]))

\* A condition is tested and left on the stack: both ways pop it.
Test(n, k) == emit_jump("JumpIfFalse", n.line, CompileExpr(n.condition, k))
Taken(line, k) == emit("Pop", line, k)
\* (mutant) The condition stays when it is false.
NotTakenKept(jump, line, k) == patch_jump(jump, k)
NotTaken(jump, line, k) == emit("Pop", line, patch_jump(jump, k))

\* `to_end` is the jump after the then branch.
CompileElse(n, to_end, k) ==
    patch_jump(to_end, IF Present(n.else_branch) THEN CompileStmt(n.else_branch, k) ELSE k)
CompileThen(n, to_else, k) ==
    CompileElse(n, here(k) + 1, NotTaken(to_else, n.line, emit_jump("Jump", n.line, k)))
CompileIf(n, k) ==
    LET tested == Test(n, k)
    IN CompileThen(n, here(tested), CompileStmt(n.then_branch, Taken(n.line, tested)))

CompileWhile(n, k) ==
    LET tested == Test(n, k)
    IN NotTaken(here(tested), n.line,
           emit_loop(here(k), n.line, CompileStmt(n.body, Taken(n.line, tested))))

\* A function's own code, then in the enclosing function the instruction that
\* makes its closure, followed by a word for each upvalue.
Enter(n, k) ==
    FoldLeft(LAMBDA kk, p : add_local(p, kk),
             [k EXCEPT !.functions = Append(@, [begin_function(n.name) EXCEPT
                                                   !.scope_depth = 1, !.arity = Len(n.params)])],
             n.params)

ReturnsNil(line, k) == emit("Return", line, emit("Nil", line, k))

Leave(k) == [k EXCEPT !.done = Append(@, Top(k)), !.functions = Front(@)]

Capture(up) == IF up.is_local THEN "CaptureLocal" ELSE "CaptureUpvalue"
EmitClosure(n, k) ==
    FoldLeft(LAMBDA kk, up : emit_operand(Capture(up), up.index, n.line, kk),
             emit_constant("Closure", <<"code", Len(k.done)>>, n.line, k),
             Last(k.done).upvalues)

compile_function(n, k) ==
    EmitClosure(n, Leave(ReturnsNil(n.line, CompileStmts(n.statements, Enter(n, k)))))

\* A local function is declared before its body, so it can call itself.
CompileFunction(n, k) ==
    IF at_global_scope(k)
    THEN emit_constant("DefineGlobal", Str(n.name), n.line, compile_function(n, k))
    ELSE compile_function(n, add_local(n.name, k))

CompileStmt(n, k) ==
    CASE n.node = "Print" -> emit("Print", n.line, CompileExpr(n.value, k))
      [] n.node = "ExprStmt" -> emit("Pop", n.line, CompileExpr(n.expr, k))
      [] n.node = "Let" -> CompileLet(n, k)
      [] n.node = "Block" -> CompileBlock(n, k)
      [] n.node = "If" -> CompileIf(n, k)
      [] n.node = "While" -> CompileWhile(n, k)
      [] n.node = "Function" -> CompileFunction(n, k)
      [] n.node = "Return" -> emit("Return", n.line, ValueOrNil(n.value, n.line, k))

\* The functions of a program, the script last, and the failed assertions.
Compiled(k) == [functions |-> Append(k.done, Top(k)), faults |-> k.faults]

compile_stack(program) ==
    Compiled(ReturnsNil(NoLine,
        CompileStmts(program, [functions |-> <<begin_function("")>>, done |-> <<>>,
                               faults |-> {}])))
=============================================================================
