------------------------------ MODULE Resolver ------------------------------
(* The resolver (resolver.cpp): one walk over the program that binds every    *)
(* use of a name to a number of scopes to walk up, or to the globals, and     *)
(* rejects the programs the language does not accept. A walk numbers the nodes *)
(* (see SyntaxTree) and returns the resolved part and the state after it;      *)
(* after the first error it changes nothing more.                             *)
EXTENDS SyntaxTree, FiniteSets, SequencesExt

CONSTANT MaxLocalLimit      \* kMaxLocalLimit: 255 in the program

\* scopes: the local scopes only, innermost last; functions: the script first.
InitialWalk ==
    [scopes |-> <<>>, functions |-> <<[live_locals |-> 0, captured |-> {}]>>,
     next_id |-> 0, line |-> 1, error |-> NoError]

Rejected(w) == w.error # NoError
Reject(w, message) == IF Rejected(w) THEN w ELSE [w EXCEPT !.error = message]

Walked(part, w) == [part |-> part, walk |-> w]

begin_scope(w) ==
    [w EXCEPT !.scopes = Append(@, [names |-> <<>>, function_level |-> Len(w.functions)])]

end_scope(w) ==
    [w EXCEPT !.functions[Len(w.functions)].live_locals =
                  @ - Cardinality(DOMAIN Last(w.scopes).names),
              !.scopes = Front(@)]

declare(name, w) ==
    LET top == Len(w.scopes)
        level == Len(w.functions)
    IN IF Rejected(w) THEN w
       ELSE IF name \in DOMAIN w.scopes[top].names
       THEN Reject(w, <<"variable is already declared in this scope", name>>)
       ELSE IF w.functions[level].live_locals = MaxLocalLimit
       THEN Reject(w, <<"too many local variables">>)
       ELSE [w EXCEPT !.functions[level].live_locals = @ + 1,
                      !.scopes[top].names = (name :> [defined |-> FALSE, id |-> w.next_id]) @@ @,
                      !.next_id = @ + 1]

define(name, w) ==
    IF Rejected(w) THEN w
    ELSE [w EXCEPT !.scopes[Len(w.scopes)].names[name].defined = TRUE]

\* Every function below the owner of a variable, down to the one that uses it,
\* carries the variable.
\* (mutant) Only the function that uses the variable carries it.
note_capture_innermost(owner, id, w) ==
    LET level == Len(w.functions)
    IN IF level = owner THEN w
       ELSE IF Cardinality(w.functions[level].captured \cup {id}) > MaxLocalLimit
       THEN Reject(w, <<"too many captured variables">>)
       ELSE [w EXCEPT !.functions[level].captured = @ \cup {id}]

note_capture(owner, id, w) ==
    LET carry == [level \in DOMAIN w.functions |->
                     IF level > owner THEN [w.functions[level] EXCEPT !.captured = @ \cup {id}]
                     ELSE w.functions[level]]
    IN IF \E level \in owner + 1 .. Len(carry) :
             Cardinality(carry[level].captured) > MaxLocalLimit
       THEN Reject(w, <<"too many captured variables">>)
       ELSE [w EXCEPT !.functions = carry]

\* A use of part.name binds to the innermost scope that declares it.
bind(part, w) ==
    LET declaring == {i \in DOMAIN w.scopes : part.name \in DOMAIN w.scopes[i].names}
        found == Max(declaring)
        local == w.scopes[found].names[part.name]
    IN IF Rejected(w) THEN Walked(part, w)
       ELSE IF declaring = {} THEN Walked([part EXCEPT !.binding = Global], w)
       ELSE IF ~local.defined
       THEN Walked(part, Reject(w, <<"can't read local variable in its own initializer",
                                     part.name>>))
       ELSE Walked([part EXCEPT !.binding = Local(Len(w.scopes) - found)],
                   note_capture(w.scopes[found].function_level, local.id, w))

-----------------------------------------------------------------------------
\* The walk over a node, over a list of nodes (a call has a limit on its
\* arguments), and over the parts of a node in their order.
RECURSIVE Visit(_, _)

\* `done` has the nodes already visited.
RECURSIVE VisitRest(_, _, _)
Appended(parts, r) == Walked(Append(parts, r.part), r.walk)
VisitRest(nodes, limit, done) ==
    IF Rejected(done.walk) \/ Len(done.part) = Len(nodes) THEN done
    ELSE IF Len(done.part) = limit
    THEN Walked(done.part, Reject(done.walk, <<"too many arguments">>))
    ELSE VisitRest(nodes, limit,
                   Appended(done.part, Visit(nodes[Len(done.part) + 1], done.walk)))

VisitList(nodes, limit, w) == VisitRest(nodes, limit, Walked(<<>>, w))

VisitField(n, field, w) ==
    IF field \in Lists
    THEN VisitList(n[field], IF field = "args" THEN MaxLocalLimit ELSE Len(n[field]), w)
    ELSE Visit(n[field], w)

Replace(n, field, r) == Walked([n EXCEPT ![field] = r.part], r.walk)

VisitParts(n, w) ==
    FoldLeft(LAMBDA acc, field : Replace(acc.part, field, VisitField(acc.part, field, acc.walk)),
             Walked(n, w), Parts[n.node])

\* What happens after the parts of a node.
Bound(r) == bind(r.part, r.walk)
Defined(r) == Walked(r.part, define(r.part.name, r.walk))
ScopeEnded(r) == Walked(r.part, end_scope(r.walk))
FunctionEnded(r) == Walked(r.part, [r.walk EXCEPT !.functions = Front(@)])

\* In a scope a function's name is there before its body, so it can call itself.
\* Parameters and the body's own statements share one scope.
Named(n, w) == IF w.scopes = <<>> THEN w ELSE define(n.name, declare(n.name, w))

EnterFunction(w) ==
    begin_scope([w EXCEPT !.functions = Append(@, [live_locals |-> 0, captured |-> {}])])

Parameters(n, w) ==
    FoldLeftDomain(LAMBDA acc, i :
                       IF i > MaxLocalLimit THEN Reject(acc, <<"too many parameters">>)
                       ELSE define(n.params[i], declare(n.params[i], acc)),
                   w, n.params)

\* A local is declared before its initializer and defined after it.
VisitNode(n, w) ==
    CASE n.node \in {"Variable", "Assign"} -> Bound(VisitParts(n, w))
      [] n.node = "Let" /\ w.scopes # <<>> -> Defined(VisitParts(n, declare(n.name, w)))
      [] n.node = "Block" -> ScopeEnded(VisitParts(n, begin_scope(w)))
      [] n.node = "Function" ->
             FunctionEnded(ScopeEnded(
                 VisitParts(n, Parameters(n, EnterFunction(Named(n, w))))))
      [] n.node = "Return" /\ Len(w.functions) = 1 ->
             Walked(n, Reject(w, <<"can't return from top-level code">>))
      [] OTHER -> VisitParts(n, w)

Visit(n, w) ==
    IF Rejected(w) \/ ~Present(n) THEN Walked(n, w)
    ELSE VisitNode([n EXCEPT !.line = w.line], [w EXCEPT !.line = @ + 1])

\* The resolved program, and the error if it is rejected.
Resolution(r) == [program |-> r.part, error |-> r.walk.error]
resolve(program) == Resolution(VisitList(program, Len(program), InitialWalk))
=============================================================================
