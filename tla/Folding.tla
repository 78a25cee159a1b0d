------------------------------- MODULE Folding -------------------------------
(* Compile-time simplification (fold.cpp), an operator from a resolved program *)
(* to a simpler one. It works from the parts of a node up to the node. A       *)
(* statement of which nothing is left becomes Absent.                          *)
EXTENDS SyntaxTree, SequencesExt

literal(e) == e.node = "Literal"
is_string(e) == Is("str", e.value)
literal_of(v, line) == [Literal(v) EXCEPT !.line = line]

\* An operation that fails is left for the run to fail at.
replace_with(n, operation) ==
    IF operation.error = NoError THEN literal_of(operation.value, n.line) ELSE n

fold_unary(n) ==
    IF literal(n.operand) THEN replace_with(n, UnaryOperation(n.op, n.operand.value)) ELSE n

fold_binary(n) ==
    IF \A e \in {n.left, n.right} : literal(e) /\ ~is_string(e)
    THEN replace_with(n, BinaryOperation(n.op, n.left.value, n.right.value))
    ELSE n

\* A literal on the left decides which operand is the value.
fold_logical(n) ==
    IF ~literal(n.left) THEN n
    ELSE IF (n.op = "And") = is_truthy(n.left.value) THEN n.right ELSE n.left

\* A body that vanished still has to be a statement.
nested(s, line) == IF Present(s) THEN s ELSE [Block(<<>>) EXCEPT !.line = line]

fold_if(n, had_else) ==
    IF literal(n.condition)
    THEN IF is_truthy(n.condition.value) THEN n.then_branch ELSE n.else_branch
    ELSE [n EXCEPT !.then_branch = nested(@, n.line),
                   !.else_branch = IF had_else THEN nested(@, n.line) ELSE @]

fold_while(n) ==
    IF literal(n.condition) /\ ~is_truthy(n.condition.value) THEN Absent
    ELSE [n EXCEPT !.body = nested(@, n.line)]

\* A node whose parts are folded.
Simplified(n, had_else) ==
    CASE n.node = "Unary" -> fold_unary(n)
      [] n.node = "Binary" -> fold_binary(n)
      [] n.node = "Logical" -> fold_logical(n)
      [] n.node = "If" -> fold_if(n, had_else)
      [] n.node = "While" -> fold_while(n)
      [] OTHER -> n

RECURSIVE FoldNode(_)

\* Nothing after a return in its own block can run.
statements(list) ==
    FoldLeft(LAMBDA kept, s :
                 IF kept # <<>> /\ Last(kept).node = "Return" THEN kept
                 ELSE kept \o SelectSeq(<<FoldNode(s)>>, Present),
             <<>>, list)

FoldField(n, field) ==
    IF field = "statements" THEN statements(n[field])
    ELSE IF field \in Lists THEN [i \in DOMAIN n[field] |-> FoldNode(n[field][i])]
    ELSE FoldNode(n[field])

FoldParts(n) ==
    [field \in DOMAIN n |-> IF field \in ToSet(Parts[n.node]) THEN FoldField(n, field)
                            ELSE n[field]]

FoldNode(n) == Simplified(FoldParts(n), n.node = "If" /\ Present(n.else_branch))

fold(program) == statements(program)
=============================================================================
