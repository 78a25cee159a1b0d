---------------------------- MODULE ManagedHeap ----------------------------
(***************************************************************************)
(* What the heap promises to the engines.  Objects appear and refer to each *)
(* other; equal strings are one object; and now and then everything that   *)
(* no root leads to disappears, at once.  There are no marks, no gray      *)
(* stack, no intern table and no byte counts.  Heap implements this.       *)
(***************************************************************************)
CONSTANTS Address, Text, NoText, Null

VARIABLES
    objects,  \* the objects there are
    refs,     \* the objects each of them refers to
    text,     \* the bytes of each string, NoText for another object
    roots,    \* what the engines and compilers hold
    result    \* what the last call returned, still in a local variable, or Null

vars == <<objects, refs, text, roots, result>>

\* Everything a chain of references leads to from S.
Reach(S) ==
    {o \in Address : \A T \in SUBSET (Address \ {o}) :
        ~(S \subseteq T /\ \A p \in T \cap objects : refs[p] \subseteq T)}

Accessible == Reach(roots \cup ({result} \ {Null}))

WithText(t) == {o \in objects : text[o] = t}

Init ==
    /\ objects = {}
    /\ refs = [o \in {} |-> {}]
    /\ text = [o \in {} |-> NoText]
    /\ roots = {}
    /\ result = Null

Make(o, t, children) ==
    /\ o \notin objects
    /\ objects' = objects \cup {o}
    /\ refs' = [p \in objects' |-> IF p = o THEN children ELSE refs[p]]
    /\ text' = [p \in objects' |-> IF p = o THEN t ELSE text[p]]
    /\ result' = o

NewObject(o, children) ==
    /\ UNCHANGED roots
    /\ children \subseteq Reach(roots)
    /\ Make(o, NoText, children)

\* The string with these bytes: the one there is, or a new one.
Intern(t, o) ==
    /\ UNCHANGED roots
    /\ IF WithText(t) = {}
       THEN Make(o, t, {})
       ELSE o \in WithText(t) /\ result' = o /\ UNCHANGED <<objects, refs, text>>

\* The local variable with the last result goes away.
Forget ==
    /\ UNCHANGED <<objects, refs, text, roots>>
    /\ result' = Null

Collect ==
    /\ UNCHANGED roots
    /\ objects' = objects \cap Reach(roots)
    /\ refs' = [o \in objects' |-> refs[o]]
    /\ text' = [o \in objects' |-> text[o]]
    /\ result' = Null

\* The engines hold other objects than before, of those they can get at.
Regroup ==
    /\ roots' \subseteq Accessible
    /\ result' \in {result, Null}

Hold ==
    /\ UNCHANGED <<objects, refs, text>>
    /\ Regroup

\* The engine changes an object it can get at.
Mutate(o, children) ==
    /\ UNCHANGED <<objects, text>>
    /\ o \in Accessible \cap objects
    /\ text[o] = NoText
    /\ children \subseteq Accessible
    /\ refs' = [refs EXCEPT ![o] = children]
    /\ Regroup

Next ==
    \/ \E o \in Address \ objects : \E children \in SUBSET Reach(roots) : NewObject(o, children)
    \/ \E o \in objects : \E children \in SUBSET Accessible : Mutate(o, children)
    \/ \E o \in Address, t \in Text : Intern(t, o)
    \/ Forget
    \/ Collect
    \/ Hold

Spec == Init /\ [][Next]_vars

=============================================================================
