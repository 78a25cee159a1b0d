--------------------------- MODULE BoxedVariables ---------------------------
(***************************************************************************)
(* What the virtual machines promise about variables.  Every activation    *)
(* has registers of its own.  A variable some closure captured lives in a  *)
(* box: the activation and every closure that captured it hold the same    *)
(* box, and a box outlives the activation.  Nothing is ever copied from    *)
(* one place to another, and there is no list to keep in order.            *)
(* RegisterVM implements this with one array of overlapping windows, open  *)
(* and closed upvalues, and a garbage collector.                           *)
(***************************************************************************)
EXTENDS Integers, Sequences, Functions

CONSTANTS Object,      \* addresses of heap objects: positive numbers
          Function,    \* the program's functions
          Script,      \* the top-level one
          Arity,       \* Arity[f]: its number of parameters
          FrameSize,   \* FrameSize[f]: its number of registers
          Captures,    \* Captures[f]: where each upvalue of f's closures comes from
          Nested,      \* Nested[f]: the functions f can make closures of
          Global       \* names of global variables

Nil == 0         \* the value nil; every other value is an object
Undefined == -1  \* no such global

VARIABLES
    activations,   \* [closure, vals, boxed] for each, oldest first; register r is vals[r + 1]
    globals,       \* a value, or Undefined, for each name
    closures,      \* for each closure: its function and the boxes it captured so far
    boxes,         \* for each box: its value
    data           \* the other objects of the heap

vars == <<activations, globals, closures, boxes, data>>

Value == {Nil} \cup Object

Used == DOMAIN closures \cup DOMAIN boxes \cup data

Newest == activations[Len(activations)]

ReplaceNewest(act) == [activations EXCEPT ![Len(activations)] = act]

\* What register r of an activation holds.
ValueIn(act, r) == IF act.boxed[r + 1] = 0 THEN act.vals[r + 1] ELSE boxes[act.boxed[r + 1]]

Registers(act) == 0..(Len(act.vals) - 1)

Readable ==
    {Nil} \cup {ValueIn(Newest, r) : r \in Registers(Newest)}
          \cup {boxes[b] : b \in Range(closures[Newest.closure].upvalues)}
          \cup {globals[n] : n \in {m \in Global : globals[m] # Undefined}}

Init ==
    /\ activations = <<>>
    /\ globals = [n \in Global |-> Undefined]
    /\ closures = <<>>
    /\ boxes = <<>>
    /\ data = {}

\* The activation with value v in register r; r may be the next one free.
Stored(act, r, v) ==
    IF r = Len(act.vals)
    THEN [act EXCEPT !.vals = Append(@, v), !.boxed = Append(@, 0)]
    ELSE [act EXCEPT !.vals[r + 1] = v]

\* Write v to register r, through the box if the variable is boxed.
Write(r, v) ==
    IF r < Len(Newest.vals) /\ Newest.boxed[r + 1] # 0
    THEN /\ boxes' = [boxes EXCEPT ![Newest.boxed[r + 1]] = v]
         /\ UNCHANGED activations
    ELSE /\ activations' = ReplaceNewest(Stored(Newest, r, v))
         /\ UNCHANGED boxes

Load(r, v) ==
    /\ UNCHANGED <<globals, closures, data>>
    /\ activations # <<>>
    /\ v \in Readable
    /\ Write(r, v)

NewData(r, o) ==
    /\ UNCHANGED <<globals, closures>>
    /\ activations # <<>>
    /\ o \notin Used
    /\ data' = data \cup {o}
    /\ Write(r, o)

SetUpvalue(i, r) ==
    /\ UNCHANGED <<activations, globals, closures, data>>
    /\ activations # <<>>
    /\ i \in DOMAIN closures[Newest.closure].upvalues
    /\ boxes' = [boxes EXCEPT ![closures[Newest.closure].upvalues[i]] = ValueIn(Newest, r)]

SetGlobal(n, r) ==
    /\ UNCHANGED <<activations, closures, boxes, data>>
    /\ activations # <<>>
    /\ globals' = [globals EXCEPT ![n] = ValueIn(Newest, r)]

\* Registers from k up are given up: a scope ends, or temporaries are freed.
\* A box a closure holds lives on.
Drop(k) ==
    /\ UNCHANGED <<globals, closures, boxes, data>>
    /\ activations # <<>>
    /\ activations' = ReplaceNewest([Newest EXCEPT !.vals = SubSeq(@, 1, k),
                                                   !.boxed = SubSeq(@, 1, k)])

NewClosure(f, r, o) ==
    /\ UNCHANGED <<globals, boxes, data>>
    /\ activations # <<>>
    /\ f \in Nested[closures[Newest.closure].function]
    /\ o \notin Used
    /\ closures' = [c \in DOMAIN closures \cup {o} |->
                       IF c = o THEN [function |-> f, upvalues |-> <<>>] ELSE closures[c]]
    /\ activations' = ReplaceNewest(Stored(Newest, r, o))

AddUpvalue(c, b) == closures' = [closures EXCEPT ![c].upvalues = Append(@, b)]

\* The next capture of closure c: the box of a register of the running
\* activation, which gets one now unless it has one, or a box of the running
\* closure.
Capture(c, o) ==
    /\ UNCHANGED <<globals, data>>
    /\ activations # <<>>
    /\ Len(closures[c].upvalues) < Len(Captures[closures[c].function])
    /\ LET from == Captures[closures[c].function][Len(closures[c].upvalues) + 1]
           r == from.index
       IN IF ~from.is_local
          THEN /\ AddUpvalue(c, closures[Newest.closure].upvalues[r + 1])
               /\ UNCHANGED <<activations, boxes>>
          ELSE IF Newest.boxed[r + 1] # 0
          THEN /\ AddUpvalue(c, Newest.boxed[r + 1])
               /\ UNCHANGED <<activations, boxes>>
          ELSE /\ o \notin Used
               /\ AddUpvalue(c, o)
               /\ boxes' = [b \in DOMAIN boxes \cup {o} |->
                               IF b = o THEN Newest.vals[r + 1] ELSE boxes[b]]
               /\ activations' = ReplaceNewest([Newest EXCEPT !.vals[r + 1] = Nil,
                                                              !.boxed[r + 1] = o])

\* A fresh activation of closure c: the arguments, and no other register yet.
Activation(c, args) ==
    [closure |-> c, vals |-> args, boxed |-> [i \in DOMAIN args |-> 0]]

\* The callee is in register r, its arguments in the registers above it.
Call(r) ==
    /\ UNCHANGED <<globals, closures, boxes, data>>
    /\ activations # <<>>
    /\ r \in Registers(Newest)
    /\ LET c == ValueIn(Newest, r)
           argc == Len(Newest.vals) - r - 1
           args == [i \in 1..argc |-> ValueIn(Newest, r + i)]
           caller == [Newest EXCEPT !.vals = SubSeq(@, 1, r + 1),
                                    !.boxed = SubSeq(@, 1, r + 1)]
       IN /\ c \in DOMAIN closures
          /\ argc = Arity[closures[c].function]
          /\ activations' = Append(ReplaceNewest(caller), Activation(c, args))

\* The result replaces the callee in the caller's newest register.
Return(v) ==
    /\ UNCHANGED <<globals, closures, boxes, data>>
    /\ activations # <<>>
    /\ v \in {Nil} \cup {ValueIn(Newest, r) : r \in Registers(Newest)}
    /\ LET n == Len(activations)
       IN IF n = 1
          THEN activations' = <<>>
          ELSE LET caller == activations[n - 1]
               IN activations' = Append(SubSeq(activations, 1, n - 2),
                                        [caller EXCEPT !.vals[Len(caller.vals)] = v])

\* A runtime error ends every activation.
Unwind ==
    /\ UNCHANGED <<globals, closures, boxes, data>>
    /\ activations # <<>>
    /\ activations' = <<>>

\* The host runs the script, or calls a global that holds a closure.
Run(o) ==
    /\ UNCHANGED <<globals, boxes, data>>
    /\ activations = <<>>
    /\ o \notin Used
    /\ closures' = [c \in DOMAIN closures \cup {o} |->
                       IF c = o THEN [function |-> Script, upvalues |-> <<>>] ELSE closures[c]]
    /\ activations' = <<Activation(o, <<>>)>>

CallGlobal(n) ==
    /\ UNCHANGED <<globals, closures, boxes, data>>
    /\ activations = <<>>
    /\ globals[n] \in DOMAIN closures
    /\ Arity[closures[globals[n]].function] = 0
    /\ activations' = <<Activation(globals[n], <<>>)>>

\* What an object, an activation and the globals refer to.
Refers ==
    Range(boxes) \cup Range(globals)
    \cup (UNION {Range(closures[c].upvalues) : c \in DOMAIN closures})
    \cup (UNION {{act.closure} \cup Range(act.vals) \cup Range(act.boxed)
                     : act \in Range(activations)})

\* A collection frees objects nothing that stays refers to.
Free(dead) ==
    /\ UNCHANGED <<activations, globals>>
    /\ dead \subseteq Used
    /\ closures' = Restrict(closures, DOMAIN closures \ dead)
    /\ boxes' = Restrict(boxes, DOMAIN boxes \ dead)
    /\ data' = data \ dead
    /\ Refers' \cap dead = {}

RegisterIndex == 0..(Len(Newest.vals))

Step ==
    \/ \E r \in RegisterIndex :
          \/ \E v \in Readable : Load(r, v)
          \/ \E o \in Object \ Used : NewData(r, o)
          \/ \E f \in Nested[closures[Newest.closure].function], o \in Object \ Used :
                NewClosure(f, r, o)
    \/ \E r \in Registers(Newest) :
          \/ \E i \in 1..Len(closures[Newest.closure].upvalues) : SetUpvalue(i, r)
          \/ \E n \in Global : SetGlobal(n, r)
          \/ Call(r)
    \/ \E k \in RegisterIndex : Drop(k)
    \/ \E c \in DOMAIN closures, o \in Object : Capture(c, o)
    \/ \E v \in Value : Return(v)
    \/ Unwind

Next ==
    \/ activations # <<>> /\ Step
    \/ \E o \in Object : Run(o)
    \/ \E n \in Global : CallGlobal(n)
    \/ \E dead \in SUBSET Object : Free(dead)

Spec == Init /\ [][Next]_vars

=============================================================================
