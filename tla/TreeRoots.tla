------------------------------ MODULE TreeRoots ------------------------------
(***************************************************************************)
(* How the tree-walking engine keeps its objects alive:                    *)
(* src/src/engine_tree.cpp under a collector.  Each pending C++ call of    *)
(* exec, eval, call_function or a native is a frame with the values it     *)
(* still needs; the collector sees only active_, stack_, return_value_,    *)
(* globals_, names_ and the TempRoots.  The program is any program: which  *)
(* node comes next, what an operator returns and whether it fails are left *)
(* open.  What a run computes is TreeEngine's part.                        *)
(*                                                                         *)
(* A value that is not an object is Null, natives included: they refer to  *)
(* nothing.                                                                *)
(***************************************************************************)
EXTENDS Naturals, Sequences, Functions

CONSTANTS
    Address,    \* bound: where objects can be
    Text,       \* contents of strings
    NoText,     \* what an object that is not a string has for contents
    Null,       \* no object: nil, a number, a native, the global scope
    Programs,   \* bound: the sets of nodes to explore programs of
    Stress,     \* --gc-stress: which settings to explore
    MaxPending, \* bound: nested C++ calls; kMaxCallDepth bounds them in the code
    MaxStack    \* bound: arguments and elements waiting on stack_

ASSUME ConstantsAssumption ==
    /\ Null \notin Address
    /\ NoText \notin Text
    /\ Text \cap {"free", "environment", "function", "array"} = {}
    /\ Stress \subseteq BOOLEAN
    /\ MaxPending \in Nat /\ MaxStack \in Nat

VARIABLES
    objects,  \* the allocated objects
    kind,     \* ObjKind of each, the contents for a string
    link,     \* ObjEnvironment::enclosing, ObjTreeFunction::closure
    contents, \* the objects in ObjEnvironment::vars and ObjArray::elements
    globals,  \* the objects in globals_
    names,    \* the strings in names_
    active,   \* active_
    stack,    \* stack_
    temps,    \* the heap's temp_roots_
    returned, \* return_value_
    pending,  \* the pending C++ calls, outermost first
    point,    \* what the innermost one is about to do
    value,    \* the value it was just handed, in no other place
    made,     \* the object it just got from the heap
    request,  \* the object it is about to ask for, or Null
    nodes,    \* the nodes the program consists of
    stress    \* whether every allocation collects

heapVars == <<objects, kind, link, contents>>
rootVars == <<globals, names, active, stack, temps, returned>>
settings == <<nodes, stress>>
vars == <<heapVars, rootVars, pending, point, value, made, request, settings>>

-----------------------------------------------------------------------------

\* mark_roots() and the TempRoots.
Roots ==
    (globals \cup names \cup Range(active) \cup Range(stack) \cup Range(temps) \cup {returned})
        \ {Null}

\* What the collector finds in an object.  Names are in names_ for good.
Refs(o) == contents[o] \cup ({link[o]} \ {Null})

\* Everything a chain of references leads to from S.
Reach(S) ==
    {o \in Address : \A T \in SUBSET (Address \ {o}) :
        ~(S \subseteq T /\ \A p \in T \cap objects : Refs(p) \subseteq T)}

\* A scope and those around it, up to the globals.
Scopes(e) ==
    {s \in Address : \A T \in SUBSET (Address \ {s}) :
        ~({e} \ {Null} \subseteq T /\ \A p \in T \cap objects : link[p] \in T \cup {Null})}

Strings(t) == {o \in objects : kind[o] = t}

\* A variable or an element among S is set to v; another may hold what it held.
Stored(S, v) == {(S \ {old}) \cup ({v} \ {Null}) : old \in S \cup {Null}}

\* A call: the node and how far it is, its scope, the values it keeps in
\* TempRoots, and how high the three stacks were when it began (base_ of a
\* StackRegion, depth_ of a TempRoot).
Frame(a, e) ==
    [at |-> a, env |-> e, held |-> <<>>,
     temps |-> Len(temps), active |-> Len(active), stack |-> Len(stack)]

Top == pending[Len(pending)]
At(a) == pending # <<>> /\ Top.at = a
Env == IF pending = <<>> THEN Null ELSE Top.env
Room == Len(pending) < MaxPending
Push(f) == Room /\ pending' = Append(pending, f)
Become(f) == pending' = [pending EXCEPT ![Len(pending)] = f]

\* How many ActiveRoots a call has, and whether it has a StackRegion.
ActiveRoots(f) == CASE f.at = "block" -> 1 [] f.at = "body" -> 2 [] OTHER -> 0
HasRegion(f) == f.at \in {"arguments", "called", "elements"}

Shortened(s, n) == SubSeq(s, 1, Len(s) - n)

\* Mutant: what was pushed on stack_ stays.
Leave_KeepRegion ==
    /\ pending' = Shortened(pending, 1)
    /\ temps' = Shortened(temps, Len(Top.held))
    /\ active' = Shortened(active, ActiveRoots(Top))
    /\ UNCHANGED stack

\* A call returns, and its destructors run.
Leave ==
    /\ pending' = Shortened(pending, 1)
    /\ temps' = Shortened(temps, Len(Top.held))
    /\ active' = Shortened(active, ActiveRoots(Top))
    /\ stack' = IF HasRegion(Top) THEN SubSeq(stack, 1, Top.stack) ELSE stack

\* The engine goes on at p, with v in its hands.
Goes(p, v) == point' = p /\ value' = v /\ UNCHANGED settings

\* The same, and nothing else; by leaving a call; by fail().
Steps(p, v) == Goes(p, v) /\ UNCHANGED <<heapVars, rootVars, pending, made, request>>
Ends(p, v) ==
    /\ Goes(p, v)
    /\ Leave
    /\ UNCHANGED <<heapVars, globals, names, returned, made, request>>
Fails == Steps("failed", Null)

\* It calls heap_.allocate, and goes on at p with what that returns.
Asks(k, l, c, p) ==
    /\ Goes("allocate", Null)
    /\ request' = [kind |-> k, link |-> l, contents |-> c, next |-> p]
    /\ UNCHANGED <<heapVars, made>>

\* intern(t): the string there is, rooted or not, or a new one.
Intern(t, p) ==
    /\ UNCHANGED <<rootVars, pending>>
    /\ \/ Strings(t) = {} /\ Asks(t, Null, {}, p)
       \/ made' \in Strings(t) /\ Goes(p, Null) /\ UNCHANGED <<heapVars, request>>

Init ==
    /\ objects = {}
    /\ kind = [o \in Address |-> "free"]
    /\ link = [o \in Address |-> Null]
    /\ contents = [o \in Address |-> {}]
    /\ globals = {} /\ names = {} /\ returned = Null
    /\ active = <<>> /\ stack = <<>> /\ temps = <<>>
    /\ pending = <<>> /\ point = "exec"
    /\ value = Null /\ made = Null /\ request = Null
    /\ nodes \in Programs /\ stress \in Stress

-----------------------------------------------------------------------------
(* The heap: a collection before an allocation, or none.                   *)

Collect ==
    /\ point = "allocate"
    /\ objects' = objects \cap Reach(Roots)
    /\ kind' = [o \in Address |-> IF o \in objects' THEN kind[o] ELSE "free"]
    /\ link' = [o \in Address |-> IF o \in objects' THEN link[o] ELSE Null]
    /\ contents' = [o \in Address |-> IF o \in objects' THEN contents[o] ELSE {}]
    /\ Goes("collected", value)
    /\ UNCHANGED <<rootVars, pending, made, request>>

MayAllocate == point = "collected" \/ (point = "allocate" /\ ~stress)

Allocate(o) ==
    /\ MayAllocate
    /\ o \notin objects
    /\ objects' = objects \cup {o}
    /\ kind' = [kind EXCEPT ![o] = request.kind]
    /\ link' = [link EXCEPT ![o] = request.link]
    /\ contents' = [contents EXCEPT ![o] = request.contents]
    /\ made' = o
    /\ request' = Null
    /\ Goes(request.next, value)
    /\ UNCHANGED <<rootVars, pending>>

\* The bound on memory.
OutOfMemory ==
    /\ MayAllocate
    /\ objects = Address
    /\ UNCHANGED vars

-----------------------------------------------------------------------------
(* Nodes.                                                                  *)

Statements == {"expression", "if", "while", "return", "let", "function"}
Expressions == {"variable", "assign", "unary", "logical", "left", "object", "target", "callee",
                "elements"}

\* What a node does first: it asks for a name, or evaluates its first
\* operand (Print is "expression", Binary "left", Index "object", IndexAssign
\* "target", Call "callee", ArrayLiteral "elements").
First(a) ==
    CASE a \in {"let", "function", "variable", "assign"} -> "name"
      [] a = "elements" -> "elements"
      [] OTHER -> "eval"

Begin(a) ==
    /\ a \in nodes
    /\ point = IF a \in Statements THEN "exec" ELSE "eval"
    /\ a = "return" => \E i \in DOMAIN pending : pending[i].at = "body"
    /\ a = "while" => Len(pending) + 1 < MaxPending
    /\ Push(Frame(a, Env))
    /\ Goes(First(a), Null)
    /\ UNCHANGED <<heapVars, rootVars, made, request>>

\* name_of() finds the string in names_, or interns it ...
NameOf(t) ==
    /\ point = "name"
    /\ IF Strings(t) \cap names # {} THEN Steps("named", Null) ELSE Intern(t, "interned")

\* ... and adds it.
Interned ==
    /\ point = "interned"
    /\ names' = names \cup {made}
    /\ made' = Null
    /\ Goes("named", Null)
    /\ UNCHANGED <<heapVars, globals, active, stack, temps, returned, pending, request>>

-----------------------------------------------------------------------------
(* Statements.                                                             *)

\* The value of Print, ExprStmt or a condition, and nothing more to do.
EndStatement == point = "value" /\ (At("expression") \/ At("if") \/ At("while")) /\ Ends("done", Null)

\* A branch of an If is executed in its place.
Branch == point = "value" /\ At("if") /\ Ends("exec", Null)

\* The body of a While, and its condition again.
LoopBody ==
    /\ point = "value" /\ At("while")
    /\ Become([Top EXCEPT !.at = "loop"])
    /\ Goes("exec", Null)
    /\ UNCHANGED <<heapVars, rootVars, made, request>>

LoopAgain ==
    /\ point = "done" /\ At("loop")
    /\ Become([Top EXCEPT !.at = "while"])
    /\ Goes("eval", Null)
    /\ UNCHANGED <<heapVars, rootVars, made, request>>

\* The value after `let name =` and `name =`.
Initializer == point = "named" /\ (At("let") \/ At("assign")) /\ Steps("eval", Null)

\* define(), at the end of a Let or a Function.
Define(v) ==
    /\ IF Env = Null
       THEN globals' \in Stored(globals, v) /\ UNCHANGED contents
       ELSE /\ contents' = [contents EXCEPT ![Env] = @ \cup ({v} \ {Null})]
            /\ UNCHANGED globals
    /\ Leave
    /\ Goes("done", Null)
    /\ UNCHANGED <<objects, kind, link, names, returned, request>>

EndLet == point = "value" /\ At("let") /\ Define(value) /\ UNCHANGED made

\* A function closes over the scope its declaration is in.
MakeFunction ==
    /\ point = "named" /\ At("function")
    /\ Asks("function", Env, {}, "declared")
    /\ UNCHANGED <<rootVars, pending>>

EndFunction == point = "declared" /\ Define(made) /\ made' = Null

\* A Block is always a new scope ...
Block ==
    /\ point = "exec" /\ "block" \in nodes /\ Room
    /\ Asks("environment", Env, {}, "scope")
    /\ UNCHANGED <<rootVars, pending>>

\* Mutant: the new scope is only in a local.
EnterBlock_NoRoot ==
    /\ point = "scope"
    /\ Push(Frame("block", made))
    /\ made' = Null
    /\ Goes("exec", Null)
    /\ UNCHANGED <<heapVars, rootVars, request>>

\* ... that is active until the block ends.
EnterBlock ==
    /\ point = "scope"
    /\ Push(Frame("block", made))
    /\ active' = Append(active, made)
    /\ made' = Null
    /\ Goes("exec", Null)
    /\ UNCHANGED <<heapVars, globals, names, stack, temps, returned, request>>

EndBlock == point = "exec" /\ At("block") /\ Ends("done", Null)

\* The next statement of a block, a body or the program.
NextStatement == point = "done" /\ ~At("loop") /\ Steps("exec", Null)

\* Return keeps the value in return_value_ ...
Return ==
    /\ point = "value" /\ At("return")
    /\ returned' = value
    /\ Leave
    /\ Goes("return", Null)
    /\ UNCHANGED <<heapVars, globals, names, made, request>>

\* ... while statements are left, up to the call.
ReturnThrough == point = "return" /\ ~At("body") /\ Ends("return", Null)

\* Each pending call sees failed() and returns, and the run ends.
FailThrough ==
    /\ point = "failed"
    /\ IF pending = <<>> THEN Steps("exec", Null) ELSE Ends("failed", Null)

-----------------------------------------------------------------------------
(* Expressions.                                                            *)

\* A Literal is no object, or a string.
Literal ==
    /\ point = "eval"
    /\ \/ Steps("value", Null)
       \/ "string" \in nodes /\ \E t \in Text : Intern(t, "string")

StringLiteral ==
    /\ point = "string"
    /\ made' = Null
    /\ Goes("value", made)
    /\ UNCHANGED <<heapVars, rootVars, pending, request>>

\* lookup() of a variable that is read ...
ReadVariable ==
    /\ point = "named" /\ At("variable")
    /\ \/ \E v \in globals \cup {Null} \cup UNION {contents[s] : s \in Scopes(Env)} :
             Ends("value", v)
       \/ Fails

\* ... or assigned.
AssignVariable ==
    /\ point = "value" /\ At("assign")
    /\ \/ /\ \/ globals' \in Stored(globals, value) /\ UNCHANGED contents
             \/ /\ \E s \in Scopes(Env) : \E S \in Stored(contents[s], value) :
                      contents' = [contents EXCEPT ![s] = S]
                /\ UNCHANGED globals
          /\ Leave
          /\ Goes("value", value)
          /\ UNCHANGED <<objects, kind, link, names, returned, made, request>>
       \/ Fails

Unary == point = "value" /\ At("unary") /\ (Ends("value", Null) \/ Fails)

\* The left operand's value, or that of the right one in its place.
Logical == point = "value" /\ At("logical") /\ (Ends("value", value) \/ Ends("eval", Null))

\* Where a call with an operand goes on: the same call, and what it does next.
NextOperand ==
    [left |-> <<"right", "eval">>, right |-> <<"operands", "operate">>,
     object |-> <<"index", "eval">>,
     target |-> <<"subscript", "eval">>, subscript |-> <<"element", "eval">>,
     callee |-> <<"arguments", "arguments">>]

\* Mutant: the operand is only in a local.
KeepOperand_Local(a) ==
    /\ point = "value" /\ At(a)
    /\ Become([Top EXCEPT !.at = NextOperand[a][1], !.held = Append(@, value)])
    /\ Goes(NextOperand[a][2], Null)
    /\ UNCHANGED <<heapVars, rootVars, made, request>>

\* An operand is kept in a TempRoot until the node is done.
KeepOperand(a) ==
    /\ point = "value" /\ At(a)
    /\ Become([Top EXCEPT !.at = NextOperand[a][1], !.held = Append(@, value)])
    /\ temps' = Append(temps, value)
    /\ Goes(NextOperand[a][2], Null)
    /\ UNCHANGED <<heapVars, globals, names, active, stack, returned, made, request>>

\* Every operator but `+` of two strings gives a value that is no object.
Binary == point = "operate" /\ (Ends("value", Null) \/ Fails)

Concatenate(t) ==
    /\ point = "operate"
    /\ \A i \in 1..2 : Top.held[i] # Null /\ kind[Top.held[i]] \in Text
    /\ Intern(t, "result")

\* An argument of a call or an element of an array literal ...
NextItem == point \in {"arguments", "elements"} /\ Len(stack) < MaxStack /\ Steps("eval", Null)

\* ... waits on stack_.
PushItem(a) ==
    /\ point = "value" /\ At(a)
    /\ stack' = Append(stack, value)
    /\ Goes(a, Null)
    /\ UNCHANGED <<heapVars, globals, names, active, temps, returned, pending, made, request>>

\* What is on stack_ from a base on.
Region(base) == {stack[i] : i \in base + 1 .. Len(stack)}

MakeArray ==
    /\ point = "elements"
    /\ Asks("array", Null, Region(Top.stack) \ {Null}, "result")
    /\ UNCHANGED <<rootVars, pending>>

\* A string, an array literal or the array a native made is the result.
EndWithObject ==
    /\ point = "result"
    /\ Leave
    /\ made' = Null
    /\ Goes("value", made)
    /\ UNCHANGED <<heapVars, globals, names, returned, request>>

IsArray(v) == v # Null /\ kind[v] = "array"

\* array_get.
Index ==
    /\ point = "value" /\ At("index")
    /\ \/ /\ IsArray(Top.held[1]) /\ value = Null
          /\ \E v \in contents[Top.held[1]] \cup {Null} : Ends("value", v)
       \/ Fails

\* array_set.
IndexAssign ==
    /\ point = "value" /\ At("element")
    /\ \/ /\ IsArray(Top.held[1]) /\ Top.held[2] = Null
          /\ \E S \in Stored(contents[Top.held[1]], value) :
                contents' = [contents EXCEPT ![Top.held[1]] = S]
          /\ Leave
          /\ Goes("value", value)
          /\ UNCHANGED <<objects, kind, link, globals, names, returned, made, request>>
       \/ Fails

-----------------------------------------------------------------------------
(* Calls.                                                                  *)

\* A Call has its callee and arguments ...
CallValue ==
    /\ point = "arguments"
    /\ Become([Top EXCEPT !.at = "called"])
    /\ Goes("call", Null)
    /\ UNCHANGED <<heapVars, rootVars, made, request>>

\* ... and so has call_global, whose key is interned, and not kept.
BeginCallGlobal(t) == point = "exec" /\ pending = <<>> /\ "host" \in nodes /\ Intern(t, "key")

CallGlobal ==
    /\ point = "key"
    /\ made' = Null
    /\ \/ \E callee \in globals \cup {Null} :
             /\ Push([Frame("called", Null) EXCEPT !.held = <<callee>>])
             /\ temps' = Append(temps, callee)
             /\ Goes("call", Null)
       \/ Goes("failed", Null) /\ UNCHANGED <<pending, temps>>
    /\ UNCHANGED <<heapVars, globals, names, active, stack, returned, request>>

Callee == Top.held[1]

\* No function, the wrong number of arguments, or too many calls.
CallFails == point = "call" /\ Fails

\* Mutant: the new scope is inside the function, not inside its closure.
CallFunction_NoClosure ==
    /\ point = "call"
    /\ Callee # Null /\ kind[Callee] = "function"
    /\ Room
    /\ Asks("environment", Callee, {}, "frame")
    /\ UNCHANGED <<rootVars, pending>>

\* call_function: a scope inside the closure of the function ...
CallFunction ==
    /\ point = "call"
    /\ Callee # Null /\ kind[Callee] = "function"
    /\ Room
    /\ Asks("environment", link[Callee], {}, "frame")
    /\ UNCHANGED <<rootVars, pending>>

\* ... is active, with the function, until the body ends.
EnterFunction ==
    /\ point = "frame"
    /\ Push(Frame("body", made))
    /\ active' = active \o <<Callee, made>>
    /\ made' = Null
    /\ Goes("parameters", Null)
    /\ UNCHANGED <<heapVars, globals, names, stack, temps, returned, request>>

\* The arguments of the innermost call_function.
Arguments == Region(pending[Len(pending) - 1].stack)

\* A parameter needs its name ...
NextParameter == point = "parameters" /\ Arguments # {} /\ Steps("name", Null)

\* ... and takes its argument from stack_.
BindParameter ==
    /\ point = "named" /\ At("body")
    /\ \E v \in Arguments : contents' = [contents EXCEPT ![Env] = @ \cup ({v} \ {Null})]
    /\ Goes("parameters", Null)
    /\ UNCHANGED <<objects, kind, link, rootVars, pending, made, request>>

StartBody ==
    /\ point = "parameters"
    /\ Arguments \ {Null} \subseteq contents[Env]
    /\ Steps("exec", Null)

\* Falling off the end.
EndBody == point = "exec" /\ At("body") /\ Ends("value", Null)

\* A `return` ends here.
ReturnFromBody ==
    /\ point = "return" /\ At("body")
    /\ Leave
    /\ Goes("value", returned)
    /\ returned' = Null
    /\ UNCHANGED <<heapVars, globals, names, made, request>>

EndCall == point = "value" /\ At("called") /\ Ends("value", value)

\* call_global's result goes to the host.
EndCallGlobal == point = "value" /\ pending = <<>> /\ Steps("exec", Null)

\* The natives: clock and len ...
CallNative == point = "call" /\ Callee = Null /\ Ends("value", Null)

\* ... and array(n, fill), which keeps the fill itself.
NativeArray ==
    /\ point = "call" /\ Callee = Null
    /\ Len(stack) = Top.stack + 2
    /\ LET fill == stack[Len(stack)] IN
       /\ Push([Frame("native", Null) EXCEPT !.held = <<fill>>])
       /\ temps' = Append(temps, fill)
       /\ \E S \in {{}, {fill} \ {Null}} : Asks("array", Null, S, "result")
    /\ UNCHANGED <<globals, names, active, stack, returned>>

-----------------------------------------------------------------------------

HeapStep ==
    \/ Collect \/ OutOfMemory \/ Interned
    \/ \E o \in Address : Allocate(o)
    \/ \E t \in Text : NameOf(t)

StatementStep ==
    \/ EndStatement \/ Branch \/ LoopBody \/ LoopAgain \/ Initializer \/ EndLet
    \/ MakeFunction \/ EndFunction \/ Block \/ EnterBlock \/ EndBlock \/ NextStatement
    \/ Return \/ ReturnThrough \/ FailThrough

ExpressionStep ==
    \/ Literal \/ StringLiteral \/ ReadVariable \/ AssignVariable \/ Unary \/ Logical
    \/ Binary \/ NextItem \/ MakeArray \/ EndWithObject \/ Index \/ IndexAssign
    \/ \E a \in DOMAIN NextOperand : KeepOperand(a)
    \/ \E t \in Text : Concatenate(t)
    \/ \E a \in {"arguments", "elements"} : PushItem(a)

CallStep ==
    \/ CallValue \/ CallGlobal \/ CallFails \/ CallFunction \/ EnterFunction
    \/ NextParameter \/ BindParameter \/ StartBody \/ EndBody \/ ReturnFromBody
    \/ EndCall \/ EndCallGlobal \/ CallNative \/ NativeArray
    \/ \E t \in Text : BeginCallGlobal(t)

Next ==
    \/ \E a \in Statements \cup Expressions : Begin(a)
    \/ HeapStep
    \/ StatementStep
    \/ ExpressionStep
    \/ CallStep

Spec == Init /\ [][Next]_vars

-----------------------------------------------------------------------------
(* Properties.                                                             *)

Value == Address \cup {Null}

\* The points after an allocation.
Receiving == {"interned", "string", "result", "declared", "scope", "frame", "key"}

Request ==
    [kind : Text \cup {"environment", "function", "array"}, link : Value,
     contents : SUBSET Address, next : Receiving]

FrameType ==
    [at : Statements \cup Expressions \cup {"loop", "block", "right", "operands", "index",
              "subscript", "element", "arguments", "called", "native", "body"},
     env : Value, held : Seq(Value), temps : Nat, active : Nat, stack : Nat]

\* Every variable has its type.  A scope is in a scope or the globals; a
\* value is never a scope; names are strings.
TypeOK ==
    /\ objects \in SUBSET Address
    /\ kind \in [Address -> Text \cup {"free", "environment", "function", "array"}]
    /\ link \in [Address -> Value]
    /\ contents \in [Address -> SUBSET Address]
    /\ globals \in SUBSET Address /\ names \in SUBSET Address
    /\ active \in Seq(Address) /\ stack \in Seq(Value) /\ temps \in Seq(Value)
    /\ pending \in Seq(FrameType)
    /\ {returned, value, made} \subseteq Value
    /\ request \in Request \cup {Null}
    /\ \A o \in objects : link[o] # Null => kind[link[o]] = "environment"
    /\ \A o \in objects : \A v \in contents[o] : kind[v] # "environment"
    /\ \A o \in names : kind[o] \in Text

\* What the pending calls still need: their scopes and operands, arguments
\* and elements, the value or object in hand, and what the next object is to
\* refer to.
Needed ==
    {pending[i].env : i \in DOMAIN pending}
    \cup Range(stack) \cup Range(active) \cup globals \cup names
    \cup {returned, value, made}
    \cup (IF request = Null THEN {} ELSE request.contents \cup {request.link})
    \cup UNION {Range(pending[i].held) : i \in DOMAIN pending}

\* Whatever the engine still needs was not freed, whenever collections ran
\* and however deep it was in expressions, blocks and calls; nor was what its
\* objects refer to.
NothingLost ==
    /\ Needed \ {Null} \subseteq objects
    /\ \A o \in objects : Refs(o) \subseteq objects

\* Where the roots of the i-th pending call end.
Above(i) == IF i < Len(pending) THEN pending[i + 1] ELSE Frame("exec", Null)

\* The destructors run in order on every way out, returns and errors
\* included: at each moment the roots are those of the pending calls and no
\* more, and when nothing runs, only the globals and names are kept.
RootsReleased ==
    /\ \A i \in DOMAIN pending :
          LET f == pending[i] IN
          /\ Above(i).temps = f.temps + Len(f.held)
          /\ Above(i).active = f.active + ActiveRoots(f)
          /\ Above(i).stack >= f.stack
          /\ ~HasRegion(f) => Above(i).stack = f.stack
    /\ pending # <<>> => pending[1].temps = 0 /\ pending[1].active = 0 /\ pending[1].stack = 0
    /\ pending = <<>> => temps = <<>> /\ active = <<>> /\ stack = <<>> /\ returned = Null

-----------------------------------------------------------------------------
(* Composition with the heap.                                              *)

Promise == INSTANCE ManagedHeap
    WITH refs <- [o \in objects |-> Refs(o)],
         text <- [o \in objects |-> IF kind[o] \in Text THEN kind[o] ELSE NoText],
         roots <- Roots \cup ({value} \ {Null}),
         result <- made

\* The engine keeps to the heap's contract: what it hands to an allocation,
\* stores in an object or takes among its roots is something it can get at,
\* and a collection never finds it with a value only in its hands.
KeepsContract == Promise!Spec

=============================================================================
