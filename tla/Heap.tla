-------------------------------- MODULE Heap --------------------------------
(***************************************************************************)
(* The heap that every engine shares: src/src/runtime/heap.cpp.  It marks  *)
(* from the roots with an explicit stack, sweeps its list of objects, and  *)
(* keeps a weak table of interned strings.  The loops of a collection are  *)
(* taken one object at a time.                                             *)
(*                                                                         *)
(* The rest of the program keeps to heap.h's contract: an object that only *)
(* a local variable holds is not used after the next allocation, unless it *)
(* is a TempRoot.                                                          *)
(*                                                                         *)
(* bytes_ counts an object once when it is linked and again in each sweep. *)
(* In between the program may let objects grow (a scope gets variables, a  *)
(* function code, a long array literal elements) and tells nobody.         *)
(***************************************************************************)
EXTENDS Naturals, Sequences, FiniteSets, Functions

CONSTANTS
    Address,      \* bound: where objects can be
    Text,         \* contents of strings
    NoText,       \* the contents of an object that is not a string
    Null,
    Marker,       \* root markers engines and compilers may register
    MaxTempRoots, \* bound: nested TempRoots
    MinNextGc,    \* kMinNextGc
    MaxBytes,     \* bound: the size of an object
    Stress        \* --gc-stress: which settings to explore

ASSUME ConstantsAssumption ==
    /\ Null \notin Address
    /\ NoText \notin Text
    /\ MaxTempRoots \in Nat
    /\ MinNextGc \in Nat
    /\ MaxBytes \in Nat \ {0}
    /\ Stress \subseteq BOOLEAN

VARIABLES
    objects,      \* the list objects_
    refs,         \* the objects that Heap::trace finds in each object
    text,         \* ObjString::chars
    size,         \* object_bytes of each object
    strings,      \* strings_: the interned string with each content, or Null
    marked,       \* the objects with Obj::marked
    gray,         \* the gray stack; the order makes no difference
    unswept,      \* the part of the list sweep has not come to
    phase,        \* where allocate() is: "idle", "mark", "sweep" or "ready"
    request,      \* the object being allocated, or Null
    live,         \* what sweep has counted so far
    bytes, next_gc, stress,
    temp_roots,   \* temp_roots_
    root_markers, \* for each registered marker, the objects it marks
    result,       \* what the last call returned, still in a local, or Null
    grown         \* history: what objects have grown by since they were last counted

vars == <<objects, refs, text, size, strings, marked, gray, unswept, phase, request,
          live, bytes, next_gc, stress, temp_roots, root_markers, result, grown>>

programVars == <<refs, temp_roots, root_markers>>
collectorVars == <<marked, gray, unswept, next_gc, live>>
listVars == <<objects, text, strings, bytes, size, grown>>

-----------------------------------------------------------------------------

Roots == Range(temp_roots) \cup UNION Range(root_markers)

\* Everything a chain of references leads to from S.
Reach(S) ==
    {o \in Address : \A T \in SUBSET (Address \ {o}) :
        ~(S \subseteq T /\ \A p \in T \cap objects : refs[p] \subseteq T)}

\* What the program can get at.
Accessible == Reach(Roots \cup ({result} \ {Null}))

\* The bytes that the objects in S take up, each of the size it has in `sizes`.
Cells(S, sizes) == {c \in S \X (1 .. MaxBytes) : c[2] <= sizes[c[1]]}

\* object_bytes of every object in S, added up.
Bytes(S) == Cardinality(Cells(S, size))

\* `new` returns an address that is not in use.
Fresh == Address \ objects

Init ==
    /\ objects = {}
    /\ refs = [o \in Address |-> {}]
    /\ text = [o \in Address |-> NoText]
    /\ size = [o \in Address |-> 0]
    /\ strings = [t \in Text |-> Null]
    /\ marked = {}
    /\ gray = {}
    /\ unswept = {}
    /\ phase = "idle"
    /\ request = Null
    /\ live = 0
    /\ bytes = 0
    /\ next_gc = MinNextGc
    /\ stress \in Stress
    /\ temp_roots = <<>>
    /\ root_markers = <<>>
    /\ result = Null
    /\ grown = 0

-----------------------------------------------------------------------------
(* Allocation.                                                             *)

Idle == phase = "idle" /\ request = Null

\* allocate() of an object that is not a string.  Its arguments are rooted.
NewObject(children) ==
    /\ Idle
    /\ children \subseteq Reach(Roots)
    /\ request' = [text |-> NoText, refs |-> children]
    /\ result' = Null
    /\ UNCHANGED <<programVars, collectorVars, listVars, phase, stress>>

\* intern(): the table has the string ...
InternHit(t) ==
    /\ Idle
    /\ strings[t] # Null
    /\ result' = strings[t]
    /\ UNCHANGED <<programVars, collectorVars, listVars, phase, request, stress>>

\* ... or one is allocated.
InternMiss(t) ==
    /\ Idle
    /\ strings[t] = Null
    /\ request' = [text |-> t, refs |-> {}]
    /\ result' = Null
    /\ UNCHANGED <<programVars, collectorVars, listVars, phase, stress>>

MustCollect == stress \/ bytes > next_gc

MayCreate == phase = "ready" \/ (phase = "idle" /\ ~MustCollect)

\* Mutant: the string is not put in the table.
Create_NotInterned(o, n) ==
    /\ request # Null
    /\ MayCreate
    /\ o \in Fresh
    /\ objects' = objects \cup {o}
    /\ refs' = [refs EXCEPT ![o] = request.refs]
    /\ text' = [text EXCEPT ![o] = request.text]
    /\ size' = [size EXCEPT ![o] = n]
    /\ UNCHANGED strings
    /\ bytes' = bytes + n
    /\ phase' = "idle"
    /\ request' = Null
    /\ result' = o
    /\ UNCHANGED <<collectorVars, stress, temp_roots, root_markers, grown>>

\* An object of n bytes is made, linked and counted, and a new string entered
\* in the table.
Create(o, n) ==
    /\ request # Null
    /\ MayCreate
    /\ o \in Fresh
    /\ objects' = objects \cup {o}
    /\ refs' = [refs EXCEPT ![o] = request.refs]
    /\ text' = [text EXCEPT ![o] = request.text]
    /\ size' = [size EXCEPT ![o] = n]
    /\ strings' = IF request.text \in Text
                  THEN [strings EXCEPT ![request.text] = o] ELSE strings
    /\ bytes' = bytes + n
    /\ phase' = "idle"
    /\ request' = Null
    /\ result' = o
    /\ UNCHANGED <<collectorVars, stress, temp_roots, root_markers, grown>>

-----------------------------------------------------------------------------
(* Collection.                                                             *)

\* Mutant: mark_object pushes an object that is marked already.
Pushed_Always(S) == S

\* mark_object pushes what is not marked yet, which also stops at cycles.
Pushed(S) == S \ marked

\* before_allocate() collects first: the roots are marked.
StartCollect ==
    /\ request # Null
    /\ phase = "idle"
    /\ MustCollect
    /\ phase' = "mark"
    /\ marked' = marked \cup Roots
    /\ gray' = Pushed(Roots)
    /\ UNCHANGED <<programVars, listVars, unswept, live, next_gc, request, stress, result>>

\* Mutant: an object's references are left for later, but nobody comes back.
Trace_Shallow(o) ==
    /\ phase = "mark"
    /\ o \in gray
    /\ marked' = marked \cup refs[o]
    /\ gray' = gray \ {o}
    /\ UNCHANGED <<programVars, listVars, unswept, live, next_gc, phase, request, stress,
                   result>>

\* The next object from the gray stack is traced.
Trace(o) ==
    /\ phase = "mark"
    /\ o \in gray
    /\ marked' = marked \cup refs[o]
    /\ gray' = (gray \ {o}) \cup Pushed(refs[o])
    /\ UNCHANGED <<programVars, listVars, unswept, live, next_gc, phase, request, stress,
                   result>>

StartSweep ==
    /\ phase = "mark"
    /\ gray = {}
    /\ phase' = "sweep"
    /\ unswept' = objects
    /\ live' = 0
    /\ UNCHANGED <<programVars, listVars, marked, gray, next_gc, request, stress, result>>

\* Mutant: the mark stays for the next collection.
SweepMarked_KeepMark(o) ==
    /\ phase = "sweep"
    /\ o \in unswept \cap marked
    /\ unswept' = unswept \ {o}
    /\ live' = live + size[o]
    /\ UNCHANGED <<programVars, listVars, marked, gray, next_gc, phase, request, stress, result>>

\* sweep passes a marked object, takes its mark away and counts it ...
SweepMarked(o) ==
    /\ phase = "sweep"
    /\ o \in unswept \cap marked
    /\ unswept' = unswept \ {o}
    /\ live' = live + size[o]
    /\ marked' = marked \ {o}
    /\ UNCHANGED <<programVars, listVars, gray, next_gc, phase, request, stress, result>>

\* Mutant: a string that is freed stays in the table.
SweepUnmarked_KeepEntry(o) ==
    /\ phase = "sweep"
    /\ o \in unswept \ marked
    /\ unswept' = unswept \ {o}
    /\ objects' = objects \ {o}
    /\ refs' = [refs EXCEPT ![o] = {}]
    /\ text' = [text EXCEPT ![o] = NoText]
    /\ size' = [size EXCEPT ![o] = 0]
    /\ UNCHANGED <<strings, live, bytes, marked, gray, next_gc, phase, request, stress,
                   temp_roots, root_markers, result, grown>>

\* ... and unlinks and frees another.  A string leaves the table first.
SweepUnmarked(o) ==
    /\ phase = "sweep"
    /\ o \in unswept \ marked
    /\ unswept' = unswept \ {o}
    /\ objects' = objects \ {o}
    /\ refs' = [refs EXCEPT ![o] = {}]
    /\ text' = [text EXCEPT ![o] = NoText]
    /\ size' = [size EXCEPT ![o] = 0]
    /\ strings' = [t \in Text |-> IF t = text[o] THEN Null ELSE strings[t]]
    /\ UNCHANGED <<live, bytes, marked, gray, next_gc, phase, request, stress, temp_roots,
                   root_markers, result, grown>>

\* Mutant: the count stays what it was before the sweep.
EndCollect_NoRecount ==
    /\ phase = "sweep"
    /\ unswept = {}
    /\ next_gc' = IF 2 * bytes > MinNextGc THEN 2 * bytes ELSE MinNextGc
    /\ live' = 0
    /\ grown' = 0
    /\ phase' = "ready"
    /\ UNCHANGED <<programVars, objects, text, size, strings, bytes, marked, gray, unswept,
                   request, stress, result>>

\* What sweep counted is the new count, and the next collection is due when it
\* doubles.
EndCollect ==
    /\ phase = "sweep"
    /\ unswept = {}
    /\ bytes' = live
    /\ next_gc' = IF 2 * live > MinNextGc THEN 2 * live ELSE MinNextGc
    /\ live' = 0
    /\ grown' = 0
    /\ phase' = "ready"
    /\ UNCHANGED <<programVars, objects, text, size, strings, marked, gray, unswept, request,
                   stress, result>>

-----------------------------------------------------------------------------
(* The rest of the program, between calls of the heap.                     *)

heapVars == <<objects, text, strings, marked, gray, unswept, phase, request, live, bytes,
              next_gc, stress, result>>
objectVars == <<refs, size, grown>>

PushTempRoot(o) ==
    /\ Idle
    /\ o \in Accessible
    /\ Len(temp_roots) < MaxTempRoots
    /\ temp_roots' = Append(temp_roots, o)
    /\ UNCHANGED <<heapVars, objectVars, root_markers>>

PopTempRoot ==
    /\ Idle
    /\ temp_roots # <<>>
    /\ temp_roots' = SubSeq(temp_roots, 1, Len(temp_roots) - 1)
    /\ UNCHANGED <<heapVars, objectVars, root_markers>>

\* add_root_marker: of an engine, or of a compiler at work.
AddRootMarker(m) ==
    /\ Idle
    /\ m \notin DOMAIN root_markers
    /\ root_markers' = [n \in DOMAIN root_markers \cup {m} |->
                           IF n = m THEN {} ELSE root_markers[n]]
    /\ UNCHANGED <<heapVars, objectVars, temp_roots>>

RemoveRootMarker(m) ==
    /\ Idle
    /\ m \in DOMAIN root_markers
    /\ root_markers' = [n \in DOMAIN root_markers \ {m} |-> root_markers[n]]
    /\ UNCHANGED <<heapVars, objectVars, temp_roots>>

\* An engine puts an object where its marker finds it, or takes it away.
Hold(m, o) ==
    /\ Idle
    /\ m \in DOMAIN root_markers
    /\ o \in Accessible
    /\ root_markers' = [root_markers EXCEPT ![m] = @ \cup {o}]
    /\ UNCHANGED <<heapVars, objectVars, temp_roots>>

LetGo(m, o) ==
    /\ Idle
    /\ m \in DOMAIN root_markers
    /\ o \in root_markers[m]
    /\ root_markers' = [root_markers EXCEPT ![m] = @ \ {o}]
    /\ UNCHANGED <<heapVars, objectVars, temp_roots>>

\* An array element, a constant, an upvalue or a variable is set, and the object
\* may grow to n bytes for it, which the heap is not told.  Vectors and maps
\* keep the room they have, and strings never change.
SetReferences(o, children, n) ==
    /\ Idle
    /\ o \in Accessible
    /\ text[o] = NoText
    /\ children \subseteq Accessible
    /\ n >= size[o]
    /\ refs' = [refs EXCEPT ![o] = children]
    /\ size' = [size EXCEPT ![o] = n]
    /\ grown' = grown + (n - size[o])
    /\ UNCHANGED <<heapVars, temp_roots, root_markers>>

-----------------------------------------------------------------------------

Collector ==
    \/ \E o \in Address : Trace(o) \/ SweepMarked(o) \/ SweepUnmarked(o)
    \/ StartSweep
    \/ EndCollect

\* The bound on memory: `new` throws, and that is the end.
OutOfMemory ==
    /\ request # Null
    /\ MayCreate
    /\ Fresh = {}
    /\ UNCHANGED vars

Next ==
    \/ \E t \in Text : InternHit(t) \/ InternMiss(t)
    \/ StartCollect
    \/ \E o \in Address, n \in 1 .. MaxBytes : Create(o, n)
    \/ Collector
    \/ \E children \in SUBSET Address :
          \/ NewObject(children)
          \/ \E o \in Address, n \in 1 .. MaxBytes : SetReferences(o, children, n)
    \/ OutOfMemory
    \/ PopTempRoot
    \/ \E o \in Address : PushTempRoot(o)
    \/ \E m \in Marker : AddRootMarker(m) \/ RemoveRootMarker(m)
    \/ \E m \in Marker, o \in Address : Hold(m, o) \/ LetGo(m, o)

Spec == Init /\ [][Next]_vars

\* collect() runs to its end once it is called.
FairSpec == Spec /\ WF_vars(Collector)

-----------------------------------------------------------------------------
(* Properties.                                                             *)

Request == [text : Text \cup {NoText}, refs : SUBSET Address]

\* Every variable has its type, and a mark or a gray object is of a
\* collection in progress.
TypeOK ==
    /\ objects \in SUBSET Address
    /\ refs \in [Address -> SUBSET Address]
    /\ text \in [Address -> Text \cup {NoText}]
    /\ size \in [Address -> 0 .. MaxBytes] /\ \A o \in objects : size[o] > 0
    /\ strings \in [Text -> Address \cup {Null}]
    /\ marked \in SUBSET Address
    /\ gray \in SUBSET marked
    /\ unswept \in SUBSET objects
    /\ phase \in {"idle", "mark", "sweep", "ready"}
    /\ phase \notin {"mark", "sweep"} => marked = {}
    /\ phase # "mark" => gray = {}
    /\ phase # "sweep" => unswept = {}
    /\ request \in Request \cup {Null}
    /\ live \in Nat /\ bytes \in Nat /\ next_gc \in Nat /\ grown \in Nat
    /\ stress \in BOOLEAN
    /\ temp_roots \in Seq(Address)
    /\ DOMAIN root_markers \subseteq Marker
    /\ \A m \in DOMAIN root_markers : root_markers[m] \subseteq Address
    /\ result \in Address \cup {Null}

\* Whatever the program can get at was not freed: not while a collection is
\* under way, nor after any number of them.  The same holds of what the
\* object being allocated will refer to, and of what the collector traces.
NothingReachableFreed ==
    /\ Accessible \subseteq objects
    /\ request # Null => request.refs \subseteq objects
    /\ gray \subseteq objects

\* Equal strings are the same object, also across collections that free one
\* and make it again: the table has every string there is, under its bytes,
\* and nothing else.
Interned ==
    /\ \A o \in objects : text[o] # NoText => strings[text[o]] = o
    /\ \A t \in Text : strings[t] # Null => strings[t] \in objects /\ text[strings[t]] = t

\* Garbage does not pile up, although the count lags.  Outside a sweep it is
\* short by exactly what the objects have grown since they were last counted,
\* garbage included.  So the memory in use exceeds the threshold by at most the
\* newest object and that growth, and collections keep coming: growth never
\* lets the program have more objects than the threshold allows.
GarbageBounded ==
    /\ phase # "sweep" => bytes + grown = Bytes(objects)
    /\ Bytes(objects) <= next_gc + MaxBytes + grown
    /\ Cardinality(objects) <= next_gc + MaxBytes

\* A collection that starts ends, also on cyclic structures.
CollectionEnds == phase = "mark" ~> phase = "ready"

-----------------------------------------------------------------------------
(* Refinement: a collection in many steps is one atomic collection.        *)

\* From the moment a collection starts, the garbage is gone.
Kept == IF phase \in {"mark", "sweep"} THEN objects \cap Reach(Roots) ELSE objects

Promise == INSTANCE ManagedHeap
    WITH objects <- Kept,
         refs <- [o \in Kept |-> refs[o]],
         text <- [o \in Kept |-> text[o]],
         roots <- Roots

\* The heap implements the abstract one: it frees exactly what no root leads
\* to, and the program never sees a half-done collection.
ImplementsManagedHeap == Promise!Spec

=============================================================================
