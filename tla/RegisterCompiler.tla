-------------------------- MODULE RegisterCompiler --------------------------
(* The register compiler (compiler_reg.cpp): an operator from a resolved      *)
(* program to the register code of its functions (bytecode/register_code.h).  *)
(* The state k of a compilation has the functions being compiled, outermost   *)
(* first, the finished ones, and the assertions of the code that failed. In a *)
(* function locals[i] lives in register i - 1, registers from there up to     *)
(* free_reg are temporaries, and `dest` is the register a value is wanted in. *)
EXTENDS SyntaxTree, RegisterInstructions, SequencesExt

CONSTANTS MaxRkConstant,    \* kMaxRkConstant: 65,535 in the program
          ArrayBatch,       \* kArrayBatch: 50 in the program
          MaxOperand        \* locals and upvalues a function may have: 255

\* A register, or the index of a constant.
InRegister(index) == [index |-> index, is_const |-> FALSE]
Constant(index) == [index |-> index, is_const |-> TRUE]

NewFunction(name) ==
    [name |-> name, arity |-> 0, code |-> <<>>, constants |-> <<>>, locals |-> <<>>,
     upvalues |-> <<>>, scope_depth |-> 0, free_reg |-> 0, frame_size |-> 0]

Top(k) == Last(k.functions)
Level(k) == Len(k.functions)
local_count(k) == Len(Top(k).locals)
at_global_scope(k) == Level(k) = 1 /\ Top(k).scope_depth = 0

\* An assertion of the code: that it failed is remembered.
Assert_(holds, what, k) == IF holds THEN k ELSE [k EXCEPT !.faults = @ \cup {what}]

emit(insn, k) == [k EXCEPT !.functions[Level(k)].code = Append(@, insn)]
emit_abc(op, a, b, c, line, k) == emit(Instruction(op, a, b, c, line), k)
emit_rk(op, a, b, c, line, k) ==
    emit([Instruction(op, a, b.index, c.index, line) EXCEPT !.b_const = b.is_const,
                                                           !.c_const = c.is_const], k)
emit_rk_b(op, a, b, line, k) == emit_rk(op, a, b, InRegister(0), line, k)

\* The next temporary, below the frame's size afterwards.
Reserved(k) == Top(k).free_reg
\* (mutant) The frame's size is taken before the register.
reserve_uncounted(k) ==
    [k EXCEPT !.functions[Level(k)].free_reg = @ + 1,
              !.functions[Level(k)].frame_size =
                  IF Top(k).free_reg > @ THEN Top(k).free_reg ELSE @]
reserve(k) ==
    LET next == Top(k).free_reg + 1
    IN [k EXCEPT !.functions[Level(k)].free_reg = next,
                 !.functions[Level(k)].frame_size = IF next > @ THEN next ELSE @]
set_free_reg(reg, k) == [k EXCEPT !.functions[Level(k)].free_reg = reg]

\* One entry for each distinct constant, numbered from 0.
add_constant(v, k) ==
    IF v \in ToSet(Top(k).constants) THEN k
    ELSE [k EXCEPT !.functions[Level(k)].constants = Append(@, v)]
constant_index(v, k) == (CHOOSE i \in DOMAIN Top(k).constants : Top(k).constants[i] = v) - 1

\* An instruction whose operand is the constant v.
emit_held(op, a, v, line, k) == emit_abc(op, a, constant_index(v, k), 0, line, k)
emit_abx(op, a, v, line, k) == emit_held(op, a, v, line, add_constant(v, k))

\* Jumps: an offset counts from the instruction after the jump.
here(k) == Len(Top(k).code)
emit_jump(op, reg, line, k) == emit_abc(op, reg, 0, 0, line, k)
\* (mutant) A jump lands one instruction early.
patch_jump_early(jump, k) ==
    [k EXCEPT !.functions[Level(k)].code[jump].b = here(k) - jump - 1]
patch_jump(jump, k) ==
    [k EXCEPT !.functions[Level(k)].code[jump].b = here(k) - jump]
emit_loop(target, line, k) == emit_abc("Jump", 0, target - (here(k) + 1), 0, line, k)

-----------------------------------------------------------------------------
\* Superinstructions (superinstructions.cpp): the opcode of the first of two
\* adjacent instructions says that the second follows; no word moves.

\* Fuses the pairs of `code` from its word `index` on.
RECURSIVE fuse_superinstructions(_, _)
fuse_superinstructions(code, index) ==
    LET pairs == {pair \in FusedPairs : /\ pair[2] = code[index].op
                                        /\ pair[3] = code[index + 1].op}
    IN IF index >= Len(code) THEN code
       ELSE IF is_fused(code[index].op) THEN fuse_superinstructions(code, index + 2)
       ELSE IF pairs = {} THEN fuse_superinstructions(code, index + 1)
       ELSE fuse_superinstructions(
                [code EXCEPT ![index].op = (CHOOSE pair \in pairs : TRUE)[1]], index + 2)

-----------------------------------------------------------------------------
\* Locals and upvalues.

add_local(name, k) ==
    LET asserted == Assert_(local_count(k) < MaxOperand, "locals.size() < 255",
                       Assert_(Top(k).free_reg = local_count(k) + 1,
                               "declare a local right after reserving its register", k))
    IN [asserted EXCEPT !.functions[Level(k)].locals =
            Append(@, [name |-> name, depth |-> Top(k).scope_depth, captured |-> FALSE])]

\* The innermost local of that name in the function at `level`, or -1.
resolve_local(name, level, k) ==
    LET locals == k.functions[level].locals
    IN SelectLastInSeq(locals, LAMBDA l : l.name = name) - 1

add_upvalue(index, is_local, level, k) ==
    LET up == [index |-> index, is_local |-> is_local]
        upvalues == k.functions[level].upvalues
    IN IF up \in ToSet(upvalues)
       THEN [index |-> (CHOOSE i \in DOMAIN upvalues : upvalues[i] = up) - 1, state |-> k]
       ELSE [index |-> Len(upvalues),
             state |-> [Assert_(Len(upvalues) < MaxOperand, "upvalues.size() < 255", k)
                           EXCEPT !.functions[level].upvalues = Append(@, up)]]

\* Every function between the owner of a variable and its user captures it.
RECURSIVE resolve_upvalue(_, _, _)

carry_upvalue(outer, level) ==
    IF outer.index = -1 THEN outer ELSE add_upvalue(outer.index, FALSE, level, outer.state)

resolve_upvalue(name, level, k) ==
    LET reg == resolve_local(name, level - 1, k)
    IN IF level = 1 THEN [index |-> -1, state |-> k]
       ELSE IF reg # -1
       THEN add_upvalue(reg, TRUE, level,
                        [k EXCEPT !.functions[level - 1].locals[reg + 1].captured = TRUE])
       ELSE carry_upvalue(resolve_upvalue(name, level - 1, k), level)

AsUpvalue(up) ==
    [is_register |-> FALSE, index |-> up.index,
     state |-> Assert_(up.index # -1, "resolver bound a variable to a local that is not in scope",
                       up.state)]

find_local(name, k) ==
    IF resolve_local(name, Level(k), k) # -1
    THEN [is_register |-> TRUE, index |-> resolve_local(name, Level(k), k), state |-> k]
    ELSE AsUpvalue(resolve_upvalue(name, Level(k), k))

\* Leaving a scope closes the upvalues of its captured locals, from the lowest.
end_scope(line, k) ==
    LET depth == Top(k).scope_depth - 1
        kept == SelectSeq(Top(k).locals, LAMBDA l : l.depth <= depth)
        captured == {i \in DOMAIN Top(k).locals : i > Len(kept) /\ Top(k).locals[i].captured}
        left == [k EXCEPT !.functions[Level(k)].scope_depth = depth,
                          !.functions[Level(k)].locals = kept]
    IN set_free_reg(Len(kept),
           IF captured = {} THEN left
           ELSE emit_abc("Close", Min(captured) - 1, 0, 0, line, left))

dest_is_live_local(dest, k) == dest < local_count(k)
dest_is_top_temp(dest, k) == dest = Top(k).free_reg - 1 /\ ~dest_is_live_local(dest, k)

move_operand_to(dest, src, line, k) ==
    IF src.is_const THEN emit_abc("LoadK", dest, src.index, 0, line, k)
    ELSE IF src.index = dest THEN k
    ELSE emit_abc("Move", dest, src.index, 0, line, k)

-----------------------------------------------------------------------------
\* Whether evaluating e may assign to a local variable, whose register an
\* operand computed before it may be reading in place.
\* (mutant) Only what the expression itself does counts, not what is in it.
may_clobber_locals_itself(e) ==
    e.node = "Call" \/ (e.node = "Assign" /\ e.binding.kind = "Local")
RECURSIVE may_clobber_locals(_)
may_clobber_locals(e) ==
    \/ e.node = "Call"
    \/ e.node = "Assign" /\ e.binding.kind = "Local"
    \/ \E field \in ToSet(Parts[e.node]) :
           IF field \in Lists THEN \E i \in DOMAIN e[field] : may_clobber_locals(e[field][i])
           ELSE may_clobber_locals(e[field])

\* CompileExpr(e, dest, k): the value of e in dest; Discarded for the value of
\* an assignment that nobody wants.
RECURSIVE CompileExpr(_, _, _)
Discarded == -1

\* Temporaries taken since k are free again.
Release(k, kk) == set_free_reg(Top(k).free_reg, kk)

\* A move of a value in src to dest, if it is wanted there.
MoveIfWanted(dest, src, line, k) ==
    IF dest = Discarded THEN k ELSE move_operand_to(dest, src, line, k)

\* The value of e in the next temporary.
InTemporary(e, k) == CompileExpr(e, Reserved(k), reserve(k))

\* Where the value of e can be read: a constant, the register of a local that
\* no later operand changes, or a new temporary.
Placed(e, poolable, in_place, k) ==
    IF poolable /\ constant_index(e.value, k) <= MaxRkConstant
    THEN [operand |-> Constant(constant_index(e.value, k)), state |-> k]
    ELSE IF in_place /\ resolve_local(e.name, Level(k), k) # -1
    THEN [operand |-> InRegister(resolve_local(e.name, Level(k), k)), state |-> k]
    ELSE [operand |-> InRegister(Reserved(k)), state |-> InTemporary(e, k)]

operand(e, allow_const, snapshot, k) ==
    IF e.node = "Literal" /\ allow_const
    THEN Placed(e, TRUE, FALSE, add_constant(e.value, k))
    ELSE IF e.node = "Variable" /\ ~snapshot /\ e.binding.kind = "Local"
    THEN Placed(e, FALSE, TRUE, find_local(e.name, k).state)
    ELSE Placed(e, FALSE, FALSE, k)

\* The operands of an instruction, in order, each after the state the last left.
Operand(e, allow_const, snapshot) ==
    [expr |-> e, allow_const |-> allow_const, snapshot |-> snapshot]

TakeOperand(taken, x) == [operands |-> Append(taken, x.operand), state |-> x.state]

operands(wanted, k) ==
    FoldLeft(LAMBDA acc, x : TakeOperand(acc.operands,
                                         operand(x.expr, x.allow_const, x.snapshot, acc.state)),
             [operands |-> <<>>, state |-> k], wanted)

CompileLiteral(e, dest, k) ==
    CASE e.value = Nil -> emit_abc("LoadNil", dest, 0, 0, e.line, k)
      [] e.value = True -> emit_abc("LoadTrue", dest, 0, 0, e.line, k)
      [] e.value = False -> emit_abc("LoadFalse", dest, 0, 0, e.line, k)
      [] OTHER -> emit_abx("LoadK", dest, e.value, e.line, k)

LoadLocal(local, dest, line) ==
    IF local.is_register THEN move_operand_to(dest, InRegister(local.index), line, local.state)
    ELSE emit_abc("GetUpvalue", dest, local.index, 0, line, local.state)

CompileVariable(e, dest, k) ==
    IF e.binding.kind = "Global" THEN emit_abx("GetGlobal", dest, Str(e.name), e.line, k)
    ELSE LoadLocal(find_local(e.name, k), dest, e.line)

\* The value is computed into the variable's own register, else where it is
\* wanted, else into a temporary.
AssignIn(reg, e, k) == CompileExpr(e.value, reg, IF reg = Reserved(k) THEN reserve(k) ELSE k)

AssignLocal(local, e, dest, at) ==
    IF local.is_register
    THEN MoveIfWanted(dest, InRegister(local.index), e.line,
                      CompileExpr(e.value, local.index, local.state))
    ELSE emit_abc("SetUpvalue", at, local.index, 0, e.line, AssignIn(at, e, local.state))

assign(e, dest, k) ==
    LET at == IF dest # Discarded THEN dest ELSE Reserved(k)
    IN Release(k, IF e.binding.kind = "Global"
                  THEN emit_abx("SetGlobal", at, Str(e.name), e.line, AssignIn(at, e, k))
                  ELSE AssignLocal(find_local(e.name, k), e, dest, at))

EmitUnary(e, dest, x) ==
    emit_rk_b(IF e.op = "Negate" THEN "Neg" ELSE "Not", dest, x.operand, e.line, x.state)

CompileUnary(e, dest, k) == Release(k, EmitUnary(e, dest, operand(e.operand, TRUE, FALSE, k)))

EmitBinary(op, dest, line, x) == emit_rk(op, dest, x.operands[1], x.operands[2], line, x.state)

CompileBinary(e, dest, k) ==
    Release(k, EmitBinary(e.op, dest, e.line,
                   operands(<<Operand(e.left, TRUE, may_clobber_locals(e.right)),
                              Operand(e.right, TRUE, FALSE)>>, k)))

CompileIndex(e, dest, k) ==
    Release(k, EmitBinary("IndexGet", dest, e.line,
                   operands(<<Operand(e.object, TRUE, may_clobber_locals(e.index)),
                              Operand(e.index, TRUE, FALSE)>>, k)))

EmitIndexSet(e, dest, x) ==
    MoveIfWanted(dest, x.operands[3], e.line,
                 emit_rk("IndexSet", x.operands[1].index, x.operands[2], x.operands[3],
                         e.line, x.state))

index_assign(e, dest, k) ==
    Release(k, EmitIndexSet(e, dest,
                   operands(<<Operand(e.object, FALSE,
                                      may_clobber_locals(e.index) \/ may_clobber_locals(e.value)),
                              Operand(e.index, TRUE, may_clobber_locals(e.value)),
                              Operand(e.value, TRUE, FALSE)>>, k)))

\* The left value goes into dest, and a jump keeps it there; so dest must not be
\* a variable the right side reads.
DecideBy(e, dest, k) ==
    emit_jump(IF e.op = "And" THEN "JumpIfFalse" ELSE "JumpIfTrue", dest, e.line,
              CompileExpr(e.left, dest, k))

OrElse(e, dest, jumped) ==
    patch_jump(here(jumped), CompileExpr(e.right, dest, jumped))

CompileLogical(e, dest, k) ==
    IF dest_is_live_local(dest, k)
    THEN Release(k, move_operand_to(dest, InRegister(Reserved(k)), e.line, InTemporary(e, k)))
    ELSE OrElse(e, dest, DecideBy(e, dest, k))

\* The callee with its arguments right above it; the result replaces the callee.
CompileArgument(e, reg, k) ==
    InTemporary(e, Assert_(Reserved(k) = reg, "arguments right above the callee", k))

CompileArguments(e, base, k) ==
    FoldLeftDomain(LAMBDA kk, i : CompileArgument(e.args[i], base + i, kk), k, e.args)

EmitCall(e, base, dest, k) ==
    MoveIfWanted(dest, InRegister(base), e.line,
                 emit_abc("Call", base, Len(e.args), 0, e.line, CompileArguments(e, base, k)))

CompileCall(e, dest, k) ==
    Release(k, IF dest_is_top_temp(dest, k)
               THEN EmitCall(e, dest, dest, CompileExpr(e.callee, dest, k))
               ELSE EmitCall(e, Reserved(k), dest, InTemporary(e.callee, k)))

\* Elements are computed a batch at a time into consecutive temporaries.
Batch(elements, next) ==
    SubSeq(elements, next + 1, Min({next + ArrayBatch, Len(elements)}))

CompileBatch(e, next, target, k) ==
    Release(k, emit_abc(IF next = 0 THEN "Array" ELSE "ArrayAppend", target, Reserved(k),
                        Len(Batch(e.elements, next)), e.line,
                        FoldLeft(LAMBDA kk, x : InTemporary(x, kk), k, Batch(e.elements, next))))

RECURSIVE CompileBatches(_, _, _, _)
CompileBatches(e, next, target, k) ==
    IF next > 0 /\ next >= Len(e.elements) THEN k
    ELSE CompileBatches(e, next + ArrayBatch, target, CompileBatch(e, next, target, k))

CompileArrayLiteral(e, dest, k) ==
    IF Len(e.elements) <= ArrayBatch \/ dest_is_top_temp(dest, k)
    THEN CompileBatches(e, 0, dest, k)
    ELSE Release(k, move_operand_to(dest, InRegister(Reserved(k)), e.line,
                                    CompileBatches(e, 0, Reserved(k), reserve(k))))

CompileExpr(e, dest, k) ==
    CASE e.node = "Literal" -> CompileLiteral(e, dest, k)
      [] e.node = "Variable" -> CompileVariable(e, dest, k)
      [] e.node = "Assign" -> assign(e, dest, k)
      [] e.node = "Unary" -> CompileUnary(e, dest, k)
      [] e.node = "Binary" -> CompileBinary(e, dest, k)
      [] e.node = "Logical" -> CompileLogical(e, dest, k)
      [] e.node = "Call" -> CompileCall(e, dest, k)
      [] e.node = "ArrayLiteral" -> CompileArrayLiteral(e, dest, k)
      [] e.node = "Index" -> CompileIndex(e, dest, k)
      [] e.node = "IndexAssign" -> index_assign(e, dest, k)

-----------------------------------------------------------------------------
\* Statements. Between two of them no temporary is live.
\* A failed assertion is the end of the compilation.
RECURSIVE CompileStmt(_, _), CompileStmts(_, _)

CompileStmts(statements, k) ==
    IF k.faults # {} \/ statements = <<>> THEN k
    ELSE CompileStmts(Tail(statements), CompileStmt(Head(statements), k))

\* An instruction on the value of an expression.
EmitValue(op, n, x) == emit_rk_b(op, 0, x.operand, n.line, x.state)
CompileValue(op, n, k) == Release(k, EmitValue(op, n, operand(n.value, TRUE, FALSE, k)))

CompileExprStmt(e, k) ==
    Release(k, IF e.node \in {"Assign", "IndexAssign"} THEN CompileExpr(e, Discarded, k)
               ELSE InTemporary(e, k))

\* What a statement declares has its value in `reg`: it becomes a global, or in
\* a scope the local that owns the register.
DefineGlobal_(n, reg, k) == emit_abx("DefineGlobal", reg, Str(n.name), n.line, k)

CompileLetValue(n, k) ==
    IF Present(n.init) THEN InTemporary(n.init, k)
    ELSE emit_abc("LoadNil", Reserved(k), 0, 0, n.line, reserve(k))

CompileLet(n, k) ==
    IF at_global_scope(k) THEN Release(k, DefineGlobal_(n, Reserved(k), CompileLetValue(n, k)))
    ELSE add_local(n.name, CompileLetValue(n, k))

CompileBlock(n, k) ==
    end_scope(n.line,
        CompileStmts(n.statements, [k EXCEPT !.functions[Level(k)].scope_depth = @ + 1]))

\* The code of a condition and a jump to be patched.
EmitTest(line, x) == emit_jump("JumpIfFalse", x.operand.index, line, x.state)
jump_if_false(n, k) == Release(k, EmitTest(n.line, operand(n.condition, FALSE, FALSE, k)))

\* `to_else` is the jump over the then branch, `to_end` the one after it.
CompileElse(n, to_else, to_end, k) ==
    IF Present(n.else_branch)
    THEN patch_jump(to_end, CompileStmt(n.else_branch,
                        patch_jump(to_else, emit_jump("Jump", 0, n.line, k))))
    ELSE patch_jump(to_else, k)

CompileThen(n, to_else, k) == CompileElse(n, to_else, here(k) + 1, k)
CompileIf(n, k) ==
    LET tested == jump_if_false(n, k)
    IN CompileThen(n, here(tested), CompileStmt(n.then_branch, tested))

CompileWhile(n, k) ==
    LET tested == jump_if_false(n, k)
    IN patch_jump(here(tested), emit_loop(here(k), n.line, CompileStmt(n.body, tested)))

CompileReturn(n, k) ==
    IF Present(n.value) THEN CompileValue("Return", n, k)
    ELSE emit_abc("ReturnNil", 0, 0, 0, n.line, k)

\* (mutant) The code ends without a return.
finish_function_unended(line, k) ==
    IF k.superinstructions
    THEN [k EXCEPT !.functions[Level(k)].code = fuse_superinstructions(@, 1)]
    ELSE k

\* The code of the function on top is complete.
finish_function(line, k) ==
    LET ended == emit_abc("ReturnNil", 0, 0, 0, line, k)
    IN IF k.superinstructions
       THEN [ended EXCEPT !.functions[Level(k)].code = fuse_superinstructions(@, 1)]
       ELSE ended

\* A function's own code, then in the enclosing function the instruction that
\* makes its closure, followed by a word for each upvalue.
Enter(n, k) ==
    FoldLeft(LAMBDA kk, p : add_local(p, reserve(kk)),
             [k EXCEPT !.functions = Append(@, [NewFunction(n.name) EXCEPT
                                                   !.scope_depth = 1, !.arity = Len(n.params)])],
             n.params)

Leave(k) == [k EXCEPT !.done = Append(@, Top(k)), !.functions = Front(@)]

EmitClosure(n, dest, k) ==
    FoldLeft(LAMBDA kk, up : emit_abc("Capture", IF up.is_local THEN 1 ELSE 0, up.index, 0,
                                      n.line, kk),
             emit_abx("Closure", dest, <<"code", Len(k.done)>>, n.line, k),
             Last(k.done).upvalues)

compile_function(n, dest, k) ==
    EmitClosure(n, dest, Leave(finish_function(n.line, CompileStmts(n.statements, Enter(n, k)))))

\* A local function is declared before its body, so it can call itself.
CompileFunction(n, k) ==
    IF at_global_scope(k)
    THEN Release(k, DefineGlobal_(n, Reserved(k), compile_function(n, Reserved(k), reserve(k))))
    ELSE compile_function(n, Reserved(k), add_local(n.name, reserve(k)))

CompileNode(n, k) ==
    CASE n.node = "Print" -> CompileValue("Print", n, k)
      [] n.node = "ExprStmt" -> CompileExprStmt(n.expr, k)
      [] n.node = "Let" -> CompileLet(n, k)
      [] n.node = "Block" -> CompileBlock(n, k)
      [] n.node = "If" -> CompileIf(n, k)
      [] n.node = "While" -> CompileWhile(n, k)
      [] n.node = "Function" -> CompileFunction(n, k)
      [] n.node = "Return" -> CompileReturn(n, k)

CompileStmt(n, k) ==
    CompileNode(n, Assert_(Top(k).free_reg = local_count(k), "no temporaries between statements",
                           k))

\* The functions of a program, the script last, and the failed assertions.
Compiled(k) == [functions |-> Append(k.done, Top(k)), faults |-> k.faults]

compile_register(program, superinstructions) ==
    Compiled(finish_function(NoLine,
        CompileStmts(program, [functions |-> <<NewFunction("")>>, done |-> <<>>,
                               superinstructions |-> superinstructions, faults |-> {}])))
=============================================================================
