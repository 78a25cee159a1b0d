----------------------------- MODULE HeapProofs -----------------------------
(***************************************************************************)
(* Safety of the heap for every set of addresses and strings, any number   *)
(* of markers and temporary roots, and every threshold.                    *)
(***************************************************************************)
EXTENDS Heap, QueueTheorems, FiniteSetTheorems, TLAPS

-----------------------------------------------------------------------------
(* The inductive invariant.                                                *)

\* The objects that the sweep in progress keeps.
Survivors == IF phase = "sweep" THEN objects \ (unswept \ marked) ELSE objects

\* What survives is closed under references and holds what is in use.
GraphInv ==
    /\ Roots \cup ({result} \ {Null}) \subseteq Survivors
    /\ \A o \in Survivors : refs[o] \subseteq Survivors

\* What is to be allocated is rooted; a string is not in the table and
\* refers to nothing.
RequestInv ==
    /\ phase # "idle" => request # Null
    /\ request # Null =>
          /\ result = Null
          /\ request.refs \subseteq Reach(Roots)
          /\ request.text \in Text => strings[request.text] = Null /\ request.refs = {}

\* Marking: black objects refer only to marked ones, and nothing is marked
\* without a reason.  Sweeping: nothing else survives.
MarkInv ==
    /\ phase = "mark" =>
          /\ Roots \subseteq marked
          /\ marked \subseteq objects \cap Reach(Roots)
          /\ \A o \in marked \ gray : refs[o] \subseteq marked
    /\ phase = "sweep" =>
          /\ marked \subseteq unswept
          /\ Survivors \subseteq Reach(Roots)
    /\ phase = "ready" => objects \subseteq Reach(Roots)

\* The sweep has counted what it has passed and kept; after a collection there
\* is room below the threshold.
CountInv ==
    /\ IsFiniteSet(objects)
    /\ phase = "sweep" => live = Bytes(objects \ unswept) /\ Bytes(objects) <= bytes + grown
    /\ phase # "sweep" => bytes + grown = Bytes(objects)
    /\ phase = "ready" => bytes <= next_gc
    /\ bytes <= next_gc + MaxBytes
    /\ Cardinality(objects) <= bytes

IInv == TypeOK /\ GraphInv /\ RequestInv /\ MarkInv /\ Interned /\ CountInv

-----------------------------------------------------------------------------
(* Reachability.                                                           *)

\* A set that holds the start and is closed holds all that is reached.
LEMMA ReachLeast ==
    ASSUME NEW S, NEW T \in SUBSET Address, S \subseteq T,
           \A p \in T \cap objects : refs[p] \subseteq T
    PROVE  Reach(S) \subseteq T
  <1> SUFFICES ASSUME NEW o \in Reach(S), o \notin T
               PROVE  FALSE
    OBVIOUS
  <1>1. T \in SUBSET (Address \ {o})
    OBVIOUS
  <1>2. QED  BY <1>1 DEF Reach

\* What is reached is closed, and holds the start.
LEMMA ReachClosed ==
    ASSUME NEW S \in SUBSET Address, TypeOK
    PROVE  /\ Reach(S) \subseteq Address
           /\ S \subseteq Reach(S)
           /\ \A p \in Reach(S) \cap objects : refs[p] \subseteq Reach(S)
  <1>1. Reach(S) \subseteq Address /\ S \subseteq Reach(S)
    BY DEF Reach
  <1>2. ASSUME NEW p \in Reach(S) \cap objects, NEW q \in refs[p], q \notin Reach(S)
        PROVE  FALSE
    <2>1. q \in Address
      BY <1>2 DEF TypeOK
    <2>2. PICK T \in SUBSET (Address \ {q}) :
              S \subseteq T /\ \A x \in T \cap objects : refs[x] \subseteq T
      BY <1>2, <2>1 DEF Reach
    <2>3. Reach(S) \subseteq T
      BY <2>2, ReachLeast
    <2>4. QED  BY <1>2, <2>2, <2>3
  <1>3. QED  BY <1>1, <1>2

LEMMA RootsType == TypeOK => Roots \subseteq Address
  <1> SUFFICES ASSUME TypeOK
               PROVE  Roots \subseteq Address
    OBVIOUS
  <1>1. Range(temp_roots) \subseteq Address
    BY RangeType DEF TypeOK
  <1>2. UNION Range(root_markers) \subseteq Address
    BY DEF TypeOK, Range
  <1>3. QED  BY <1>1, <1>2 DEF Roots

\* What the program can get at survives.
LEMMA AccessibleSurvives ==
    ASSUME TypeOK, GraphInv
    PROVE  /\ Survivors \subseteq objects
           /\ Reach(Roots) \subseteq Survivors
           /\ Accessible \subseteq Survivors
  <1>1. Survivors \subseteq objects /\ objects \subseteq Address
    BY DEF Survivors, TypeOK
  <1>2. \A p \in Survivors \cap objects : refs[p] \subseteq Survivors
    BY DEF GraphInv
  <1>3. Roots \subseteq Survivors /\ Roots \cup ({result} \ {Null}) \subseteq Survivors
    BY DEF GraphInv
  <1>4. Reach(Roots) \subseteq Survivors
    BY <1>1, <1>2, <1>3, ReachLeast
  <1>5. Reach(Roots \cup ({result} \ {Null})) \subseteq Survivors
    BY <1>1, <1>2, <1>3, ReachLeast
  <1>6. QED  BY <1>1, <1>4, <1>5 DEF Accessible

\* Freeing an object that no root leads to changes nothing for the others.
LEMMA SweepKeepsReach ==
    ASSUME TypeOK, GraphInv, NEW o \in Address, SweepUnmarked(o)
    PROVE  Reach(Roots)' = Reach(Roots)
  <1>1. UNCHANGED Roots /\ phase = "sweep" /\ o \notin Survivors
    BY DEF SweepUnmarked, Roots, Survivors
  <1>2. objects' = objects \ {o} /\ \A p \in objects' : refs'[p] = refs[p]
    BY DEF SweepUnmarked, TypeOK
  <1>3. Roots \subseteq Survivors /\ \A p \in Survivors : refs[p] \subseteq Survivors
    BY DEF GraphInv
  <1>4. ASSUME NEW p \in Reach(Roots), p \notin Reach(Roots)'
        PROVE  FALSE
    <2>1. p \in Address
      BY DEF Reach
    <2>2. PICK T \in SUBSET (Address \ {p}) :
              Roots \subseteq T /\ \A x \in T \cap objects' : refs'[x] \subseteq T
      BY <1>1, <1>4, <2>1 DEF Reach
    <2>3. T \cap Survivors \in SUBSET (Address \ {p}) /\ Roots \subseteq T \cap Survivors
      BY <1>3, <2>2
    <2>4. \A x \in (T \cap Survivors) \cap objects : refs[x] \subseteq T \cap Survivors
      BY <1>1, <1>2, <1>3, <2>2
    <2>5. Reach(Roots) \subseteq T \cap Survivors
      BY <2>3, <2>4, ReachLeast
    <2>6. QED  BY <1>4, <2>3, <2>5
  <1>5. ASSUME NEW p \in Reach(Roots)', p \notin Reach(Roots)
        PROVE  FALSE
    <2>1. p \in Address
      BY DEF Reach
    <2>2. PICK T \in SUBSET (Address \ {p}) :
              Roots \subseteq T /\ \A x \in T \cap objects : refs[x] \subseteq T
      BY <1>5, <2>1 DEF Reach
    <2>3. \A x \in T \cap objects' : refs'[x] \subseteq T
      BY <1>2, <2>2
    <2>4. QED  BY <1>1, <1>5, <2>2, <2>3 DEF Reach
  <1>6. QED  BY <1>4, <1>5

-----------------------------------------------------------------------------
(* The steps, in three kinds.                                              *)

\* The program changes what its roots hold.
RootStep ==
    \/ PopTempRoot
    \/ \E o \in Address : PushTempRoot(o)
    \/ \E m \in Marker : AddRootMarker(m) \/ RemoveRootMarker(m)
    \/ \E m \in Marker, o \in Address : Hold(m, o) \/ LetGo(m, o)

\* It asks for an object, or finds a string.
RequestStep ==
    \/ \E t \in Text : InternHit(t) \/ InternMiss(t)
    \/ \E children \in SUBSET Address : NewObject(children)

\* It changes an object.
SetStep ==
    \E o \in Address, children \in SUBSET Address, n \in 1 .. MaxBytes :
        SetReferences(o, children, n)

\* The collector works, and roots do not change.
CollectStep == StartCollect \/ Collector

LEMMA Steps ==
    ASSUME Next
    PROVE  \/ RootStep
           \/ RequestStep
           \/ CollectStep
           \/ \E o \in Address, n \in 1 .. MaxBytes : Create(o, n)
           \/ SetStep
           \/ UNCHANGED vars
  BY DEF Next, RootStep, RequestStep, CollectStep, SetStep, OutOfMemory

\* The new roots were accessible, and are of the right type.
LEMMA RootStepHolds ==
    ASSUME TypeOK, RootStep
    PROVE  /\ Idle
           /\ UNCHANGED <<heapVars, objectVars>>
           /\ Roots' \subseteq Roots \cup Accessible
           /\ temp_roots' \in Seq(Address)
           /\ DOMAIN root_markers' \subseteq Marker
           /\ \A m \in DOMAIN root_markers' : root_markers'[m] \subseteq Address
  <1>1. /\ temp_roots \in Seq(Address)
        /\ DOMAIN root_markers \subseteq Marker
        /\ \A m \in DOMAIN root_markers : root_markers[m] \subseteq Address
    BY DEF TypeOK
  <1>2. CASE PopTempRoot
    <2>1. Range(temp_roots') \subseteq Range(temp_roots) /\ temp_roots' \in Seq(Address)
      BY <1>1, <1>2, RangeFront DEF PopTempRoot
    <2>2. QED  BY <1>1, <1>2, <2>1 DEF PopTempRoot, Roots
  <1>3. CASE \E o \in Address : PushTempRoot(o)
    <2>1. PICK o \in Address : PushTempRoot(o)
      BY <1>3
    <2>2. Range(temp_roots') = Range(temp_roots) \cup {o} /\ temp_roots' \in Seq(Address)
      BY <1>1, <2>1, RangeAppend DEF PushTempRoot
    <2>3. QED  BY <1>1, <2>1, <2>2 DEF PushTempRoot, Roots
  <1>4. ASSUME NEW m \in Marker, AddRootMarker(m)
        PROVE  /\ DOMAIN root_markers' \subseteq Marker
               /\ \A n \in DOMAIN root_markers' :
                      root_markers'[n] = {} \/ (n \in DOMAIN root_markers
                                                 /\ root_markers'[n] = root_markers[n])
    BY <1>1, <1>4 DEF AddRootMarker
  <1>5. CASE \E m \in Marker : AddRootMarker(m)
    <2>1. UNION Range(root_markers') \subseteq UNION Range(root_markers)
      BY <1>4, <1>5 DEF Range
    <2>2. QED  BY <1>1, <1>4, <1>5, <2>1 DEF AddRootMarker, Roots
  <1>6. CASE \E m \in Marker : RemoveRootMarker(m)
    <2>1. PICK m \in Marker : RemoveRootMarker(m)
      BY <1>6
    <2>2. \A n \in DOMAIN root_markers' :
              n \in DOMAIN root_markers /\ root_markers'[n] = root_markers[n]
      BY <2>1 DEF RemoveRootMarker
    <2>3. UNION Range(root_markers') \subseteq UNION Range(root_markers)
      BY <2>2 DEF Range
    <2>4. QED  BY <1>1, <2>1, <2>2, <2>3 DEF RemoveRootMarker, Roots
  <1>7. CASE \E m \in Marker, o \in Address : Hold(m, o)
    <2>1. PICK m \in Marker, o \in Address : Hold(m, o)
      BY <1>7
    <2>2. /\ DOMAIN root_markers' = DOMAIN root_markers
          /\ \A n \in DOMAIN root_markers : root_markers'[n] \subseteq root_markers[n] \cup {o}
      BY <2>1 DEF Hold
    <2>3. \A n \in DOMAIN root_markers : root_markers[n] \in Range(root_markers)
      BY DEF Range
    <2>4. \A R \in Range(root_markers') : \E n \in DOMAIN root_markers :
              R \subseteq root_markers[n] \cup {o}
      BY <2>2 DEF Range
    <2>5. UNION Range(root_markers') \subseteq {o} \cup UNION Range(root_markers)
      BY <2>3, <2>4
    <2>6. \A n \in DOMAIN root_markers' : root_markers'[n] \subseteq Address
      BY <1>1, <2>2
    <2>7. UNCHANGED <<heapVars, objectVars, temp_roots>> /\ Idle /\ o \in Accessible
      BY <2>1 DEF Hold
    <2>8. Roots' \subseteq Roots \cup Accessible
      BY <2>5, <2>7 DEF Roots
    <2>9. QED  BY <1>1, <2>2, <2>6, <2>7, <2>8
  <1>8. CASE \E m \in Marker, o \in Address : LetGo(m, o)
    <2>1. PICK m \in Marker, o \in Address : LetGo(m, o)
      BY <1>8
    <2>2. /\ DOMAIN root_markers' = DOMAIN root_markers
          /\ \A n \in DOMAIN root_markers : root_markers'[n] \subseteq root_markers[n]
      BY <2>1 DEF LetGo
    <2>3. UNION Range(root_markers') \subseteq UNION Range(root_markers)
      BY <2>2 DEF Range
    <2>4. QED  BY <1>1, <2>1, <2>2, <2>3 DEF LetGo, Roots
  <1>9. QED  BY <1>2, <1>3, <1>5, <1>6, <1>7, <1>8 DEF RootStep

\* The collector leaves the roots, the request and the result alone.
LEMMA CollectStepHolds ==
    ASSUME CollectStep
    PROVE  /\ UNCHANGED <<request, result, stress, temp_roots, root_markers, Roots>>
           /\ request # Null \/ phase # "idle"
  BY DEF CollectStep, Collector, StartCollect, Trace, StartSweep, SweepMarked, SweepUnmarked,
         EndCollect, programVars, Roots

-----------------------------------------------------------------------------
(* Types.                                                                  *)

LEMMA TypeStep ==
    ASSUME IInv, [Next]_vars
    PROVE  TypeOK'
  <1>1. CASE UNCHANGED vars
    BY <1>1 DEF IInv, TypeOK, vars
  <1>2. CASE RootStep
    <2>1. UNCHANGED <<objects, refs, text, size, strings, marked, gray, unswept, phase,
                      request, live, bytes, next_gc, stress, result, grown>>
      BY <1>2, RootStepHolds DEF IInv, heapVars, objectVars
    <2>2. QED  BY <1>2, <2>1, RootStepHolds DEF IInv, TypeOK
  <1>3. CASE RequestStep
    BY <1>3 DEF IInv, TypeOK, RequestStep, InternHit, InternMiss, NewObject, Request,
                programVars, collectorVars, listVars
  <1>4. CASE \E o \in Address, n \in 1 .. MaxBytes : Create(o, n)
    <2>1. PICK o \in Address, n \in 1 .. MaxBytes : Create(o, n)
      BY <1>4
    <2>2. request \in Request
      BY <2>1 DEF IInv, TypeOK, Create
    <2>3. /\ refs' \in [Address -> SUBSET Address]
          /\ text' \in [Address -> Text \cup {NoText}]
      BY <2>1, <2>2 DEF IInv, TypeOK, Create, Request
    <2>4. strings' \in [Text -> Address \cup {Null}]
      BY <2>1, <2>2 DEF IInv, TypeOK, Create, Request
    <2>5. /\ size' \in [Address -> 0 .. MaxBytes] /\ \A p \in objects' : size'[p] > 0
          /\ bytes' \in Nat
      BY <2>1, ConstantsAssumption DEF IInv, TypeOK, Create
    <2>6. QED  BY <2>1, <2>3, <2>4, <2>5 DEF IInv, TypeOK, Create, collectorVars, MayCreate
  <1>5. CASE SetStep
    <2>1. PICK o \in Address, children \in SUBSET Address, n \in 1 .. MaxBytes :
             SetReferences(o, children, n)
      BY <1>5 DEF SetStep
    <2>2. n >= size[o] /\ size[o] \in 0 .. MaxBytes /\ grown \in Nat
      BY <2>1 DEF IInv, TypeOK, SetReferences
    <2>3. grown' \in Nat
      BY <2>1, <2>2, ConstantsAssumption DEF SetReferences
    <2>4. size' \in [Address -> 0 .. MaxBytes] /\ \A p \in objects' : size'[p] > 0
      BY <2>1, <2>2, ConstantsAssumption DEF IInv, TypeOK, SetReferences, heapVars
    <2>5. QED  BY <2>1, <2>3, <2>4 DEF IInv, TypeOK, SetReferences, heapVars
  <1>6. CASE StartCollect
    BY <1>6, RootsType DEF IInv, TypeOK, StartCollect, Pushed, programVars, listVars
  <1>7. CASE \E o \in Address : Trace(o)
    <2>1. PICK o \in Address : Trace(o)
      BY <1>7
    <2>2. refs[o] \subseteq Address /\ gray \subseteq marked
      BY DEF IInv, TypeOK
    <2>3. gray' \subseteq marked' /\ marked' \subseteq Address
      BY <2>1, <2>2 DEF IInv, TypeOK, Trace, Pushed
    <2>4. QED  BY <2>1, <2>3 DEF IInv, TypeOK, Trace, programVars, listVars
  <1>8. CASE StartSweep
    BY <1>8 DEF IInv, TypeOK, StartSweep, programVars, listVars
  <1>9. CASE \E o \in Address : SweepMarked(o)
    <2>1. PICK o \in Address : SweepMarked(o)
      BY <1>9
    <2>2. live' \in Nat
      BY <2>1, ConstantsAssumption DEF IInv, TypeOK, SweepMarked
    <2>3. QED  BY <2>1, <2>2 DEF IInv, TypeOK, SweepMarked, programVars, listVars
  <1>10. CASE \E o \in Address : SweepUnmarked(o)
    <2>1. PICK o \in Address : SweepUnmarked(o)
      BY <1>10
    <2>2. /\ refs' \in [Address -> SUBSET Address]
          /\ text' \in [Address -> Text \cup {NoText}]
          /\ strings' \in [Text -> Address \cup {Null}]
          /\ size' \in [Address -> 0 .. MaxBytes] /\ \A p \in objects' : size'[p] > 0
      BY <2>1, ConstantsAssumption DEF IInv, TypeOK, SweepUnmarked
    <2>3. QED  BY <2>1, <2>2 DEF IInv, TypeOK, SweepUnmarked
  <1>11. CASE EndCollect
    <2>1. live \in Nat
      BY DEF IInv, TypeOK
    <2>2. marked = {}
      BY <1>11 DEF IInv, MarkInv, EndCollect
    <2>3. bytes' \in Nat /\ next_gc' \in Nat
      BY <1>11, <2>1, ConstantsAssumption DEF EndCollect
    <2>4. QED  BY <1>11, <2>2, <2>3 DEF IInv, TypeOK, EndCollect, programVars
  <1>12. QED
    BY <1>1, <1>2, <1>3, <1>4, <1>5, <1>6, <1>7, <1>8, <1>9, <1>10, <1>11, Steps
       DEF CollectStep, Collector

-----------------------------------------------------------------------------
(* Nothing in use is freed.                                                *)

LEMMA GraphStep ==
    ASSUME IInv, [Next]_vars
    PROVE  GraphInv'
  <1> USE DEF GraphInv
  <1>0. TypeOK /\ GraphInv /\ Survivors \subseteq objects /\ objects \subseteq Address
    BY AccessibleSurvives DEF IInv, TypeOK
  <1>1. CASE UNCHANGED vars
    BY <1>0, <1>1 DEF Survivors, Roots, vars
  <1>2. CASE RootStep
    <2>1. /\ Idle /\ UNCHANGED <<heapVars, objectVars>>
          /\ Roots' \subseteq Roots \cup Accessible
      BY <1>0, <1>2, RootStepHolds
    <2>2. UNCHANGED Survivors /\ Accessible \subseteq Survivors
      BY <1>0, <2>1, AccessibleSurvives DEF Survivors, heapVars
    <2>3. QED  BY <1>0, <2>1, <2>2 DEF heapVars, objectVars
  <1>3. CASE RequestStep
    <2>1. UNCHANGED <<objects, refs, temp_roots, root_markers, marked, unswept, phase>>
      BY <1>3 DEF RequestStep, InternHit, InternMiss, NewObject, programVars, collectorVars,
                  listVars
    <2>2. UNCHANGED <<Survivors, Roots>> /\ phase = "idle"
      BY <1>3, <2>1 DEF RequestStep, InternHit, InternMiss, NewObject, Idle, Survivors, Roots
    <2>3. result' = Null \/ \E t \in Text : result' = strings[t] /\ strings[t] # Null
      BY <1>3 DEF RequestStep, InternHit, InternMiss, NewObject
    <2>4. result' = Null \/ result' \in objects
      BY <2>3 DEF IInv, Interned
    <2>5. QED  BY <1>0, <2>1, <2>2, <2>4 DEF Survivors
  <1>4. CASE \E o \in Address, n \in 1 .. MaxBytes : Create(o, n)
    <2>1. PICK o \in Address, n \in 1 .. MaxBytes : Create(o, n)
      BY <1>4
    <2>2. /\ request # Null /\ phase # "sweep" /\ phase' = "idle" /\ result' = o
          /\ objects' = objects \cup {o} /\ refs' = [refs EXCEPT ![o] = request.refs]
          /\ UNCHANGED Roots /\ o \notin objects
      BY <2>1 DEF Create, MayCreate, Roots, Fresh
    <2>3. Survivors = objects /\ Survivors' = objects \cup {o}
      BY <2>2 DEF Survivors
    <2>4. request.refs \subseteq Survivors
      BY <1>0, <2>2, AccessibleSurvives DEF IInv, RequestInv
    <2>5. \A p \in Survivors' : refs'[p] \subseteq Survivors'
      BY <1>0, <2>2, <2>3, <2>4 DEF TypeOK
    <2>6. QED  BY <1>0, <2>2, <2>3, <2>5
  <1>5. CASE SetStep
    <2>1. PICK o \in Address, children \in SUBSET Address, n \in 1 .. MaxBytes :
             SetReferences(o, children, n)
      BY <1>5 DEF SetStep
    <2>2. /\ UNCHANGED <<objects, phase, unswept, marked, result, Roots>>
          /\ refs' = [refs EXCEPT ![o] = children] /\ children \subseteq Accessible
      BY <2>1 DEF SetReferences, heapVars, Roots
    <2>3. UNCHANGED Survivors /\ children \subseteq Survivors
      BY <1>0, <2>2, AccessibleSurvives DEF Survivors
    <2>4. QED  BY <1>0, <2>2, <2>3 DEF TypeOK
  <1>6. CASE CollectStep
    <2>1. result = Null /\ UNCHANGED <<Roots, result>>
      BY <1>6, CollectStepHolds DEF IInv, RequestInv
    <2>2. CASE StartCollect
      <3>1. UNCHANGED <<objects, refs>> /\ Survivors = objects /\ Survivors' = objects
        BY <2>2 DEF StartCollect, Survivors, programVars, listVars
      <3>2. QED  BY <1>0, <2>1, <3>1
    <2>3. CASE \E o \in Address : Trace(o)
      <3>1. UNCHANGED <<objects, refs>> /\ Survivors = objects /\ Survivors' = objects
        BY <2>3 DEF Trace, Survivors, programVars, listVars
      <3>2. QED  BY <1>0, <2>1, <3>1
    <2>4. CASE StartSweep
      <3>1. /\ Roots \subseteq marked /\ marked \subseteq objects
            /\ \A o \in marked : refs[o] \subseteq marked
        BY <2>4 DEF IInv, MarkInv, StartSweep
      <3>2. Survivors' = marked /\ UNCHANGED <<refs, marked>>
        BY <2>4, <3>1 DEF StartSweep, Survivors, programVars, listVars
      <3>3. QED  BY <2>1, <3>1, <3>2
    <2>5. CASE \E o \in Address : SweepMarked(o)
      <3>1. UNCHANGED <<refs, Survivors>>
        BY <2>5 DEF SweepMarked, Survivors, programVars, listVars
      <3>2. QED  BY <1>0, <2>1, <3>1
    <2>6. CASE \E o \in Address : SweepUnmarked(o)
      <3>1. PICK o \in Address : SweepUnmarked(o)
        BY <2>6
      <3>2. Survivors' = Survivors /\ o \notin Survivors
        BY <3>1 DEF SweepUnmarked, Survivors
      <3>3. \A p \in Survivors : refs'[p] = refs[p]
        BY <1>0, <3>1, <3>2 DEF SweepUnmarked, TypeOK
      <3>4. QED  BY <1>0, <2>1, <3>2, <3>3
    <2>7. CASE EndCollect
      <3>1. UNCHANGED <<refs, Survivors>>
        BY <2>7 DEF EndCollect, Survivors, programVars
      <3>2. QED  BY <1>0, <2>1, <3>1
    <2>8. QED  BY <1>6, <2>2, <2>3, <2>4, <2>5, <2>6, <2>7 DEF CollectStep, Collector
  <1>7. QED  BY <1>1, <1>2, <1>3, <1>4, <1>5, <1>6, Steps

-----------------------------------------------------------------------------
(* The request and the collection.                                         *)

\* Outside an object's creation and a sweep, what is reached stays.
LEMMA SameReach ==
    ASSUME UNCHANGED <<objects, refs, Roots>>
    PROVE  UNCHANGED Reach(Roots)
  BY DEF Reach

\* The collector never changes what the roots lead to.
LEMMA CollectKeepsReach ==
    ASSUME TypeOK, GraphInv, CollectStep
    PROVE  UNCHANGED Reach(Roots)
  <1>1. UNCHANGED Roots
    BY CollectStepHolds
  <1>2. CASE \E o \in Address : SweepUnmarked(o)
    BY <1>2, SweepKeepsReach
  <1>3. CASE ~ \E o \in Address : SweepUnmarked(o)
    <2>1. UNCHANGED <<objects, refs>>
      BY <1>3 DEF CollectStep, Collector, StartCollect, Trace, StartSweep, SweepMarked,
                  EndCollect, programVars, listVars
    <2>2. QED  BY <1>1, <2>1, SameReach
  <1>4. QED  BY <1>2, <1>3

LEMMA RequestInvStep ==
    ASSUME IInv, [Next]_vars
    PROVE  RequestInv'
  <1> USE DEF RequestInv
  <1>0. TypeOK /\ GraphInv /\ RequestInv
    BY DEF IInv
  <1>1. CASE UNCHANGED vars
    <2>1. UNCHANGED <<objects, refs, Roots>>
      BY <1>1 DEF vars, Roots
    <2>2. QED  BY <1>0, <1>1, <2>1, SameReach DEF vars
  <1>2. CASE RootStep
    BY <1>0, <1>2, RootStepHolds DEF Idle, heapVars
  <1>3. CASE RequestStep
    <2>1. phase = "idle" /\ UNCHANGED <<objects, refs, strings, phase, Roots>>
      BY <1>3 DEF RequestStep, InternHit, InternMiss, NewObject, Idle, Roots, programVars,
                  collectorVars, listVars
    <2>2. UNCHANGED Reach(Roots)
      BY <2>1, SameReach
    <2>3. CASE \E t \in Text : InternHit(t)
      BY <2>1, <2>3 DEF InternHit, Idle
    <2>4. CASE \E t \in Text : InternMiss(t)
      BY <2>1, <2>2, <2>4 DEF InternMiss
    <2>5. CASE \E children \in SUBSET Address : NewObject(children)
      BY <2>1, <2>2, <2>5, ConstantsAssumption DEF NewObject
    <2>6. QED  BY <1>3, <2>3, <2>4, <2>5 DEF RequestStep
  <1>4. CASE \E o \in Address, n \in 1 .. MaxBytes : Create(o, n)
    BY <1>4 DEF Create
  <1>5. CASE SetStep
    BY <1>5 DEF SetStep, SetReferences, Idle, heapVars
  <1>6. CASE CollectStep
    <2>1. /\ UNCHANGED <<request, result, Reach(Roots)>>
          /\ request # Null
      BY <1>0, <1>6, CollectStepHolds, CollectKeepsReach
    <2>2. \A t \in Text : strings[t] = Null => strings'[t] = Null
      BY <1>6 DEF CollectStep, Collector, StartCollect, Trace, StartSweep, SweepMarked,
                  SweepUnmarked, EndCollect, listVars
    <2>3. QED  BY <1>0, <2>1, <2>2
  <1>7. QED  BY <1>1, <1>2, <1>3, <1>4, <1>5, <1>6, Steps

LEMMA MarkStep ==
    ASSUME IInv, [Next]_vars
    PROVE  MarkInv'
  <1> USE DEF MarkInv
  <1>0. TypeOK /\ GraphInv /\ RequestInv /\ MarkInv /\ Roots \subseteq Address
    BY RootsType DEF IInv
  <1>1. CASE UNCHANGED vars
    <2>1. UNCHANGED <<objects, refs, Roots, Survivors>>
      BY <1>1 DEF vars, Roots, Survivors
    <2>2. QED  BY <1>0, <1>1, <2>1, SameReach DEF vars
  <1>2. CASE RootStep
    BY <1>0, <1>2, RootStepHolds DEF Idle, heapVars
  <1>3. CASE RequestStep
    BY <1>3 DEF RequestStep, InternHit, InternMiss, NewObject, Idle
  <1>4. CASE \E o \in Address, n \in 1 .. MaxBytes : Create(o, n)
    BY <1>4 DEF Create
  <1>5. CASE SetStep
    BY <1>5 DEF SetStep, SetReferences, Idle, heapVars
  <1>6. CASE CollectStep
    <2>0. UNCHANGED <<Roots, Reach(Roots)>>
      BY <1>0, <1>6, CollectStepHolds, CollectKeepsReach
    <2>1. /\ Reach(Roots) \subseteq Survivors /\ Survivors \subseteq objects
          /\ Roots \subseteq Reach(Roots)
          /\ \A p \in Reach(Roots) \cap objects : refs[p] \subseteq Reach(Roots)
      BY <1>0, AccessibleSurvives, ReachClosed
    <2>2. CASE StartCollect
      <3>1. marked = {} /\ marked' = Roots /\ gray' = Roots /\ phase' = "mark"
        BY <1>0, <2>2 DEF TypeOK, StartCollect, Pushed
      <3>2. UNCHANGED objects
        BY <2>2 DEF StartCollect, listVars
      <3>3. QED  BY <2>0, <2>1, <3>1, <3>2
    <2>3. CASE \E o \in Address : Trace(o)
      <3>1. PICK o \in Address : Trace(o)
        BY <2>3
      <3>2. /\ phase = "mark" /\ phase' = "mark" /\ o \in gray /\ o \in marked
            /\ marked' = marked \cup refs[o]
            /\ gray' = (gray \ {o}) \cup (refs[o] \ marked)
            /\ UNCHANGED <<objects, refs>>
        BY <1>0, <3>1 DEF TypeOK, Trace, Pushed, programVars, listVars
      <3>3. refs[o] \subseteq objects \cap Reach(Roots)
        BY <1>0, <2>1, <3>2
      <3>4. \A p \in marked' \ gray' : refs'[p] \subseteq marked'
        BY <1>0, <3>2
      <3>5. QED  BY <1>0, <2>0, <3>2, <3>3, <3>4
    <2>4. CASE StartSweep
      <3>1. phase' = "sweep" /\ unswept' = objects /\ marked' = marked /\ objects' = objects
        BY <2>4 DEF StartSweep, listVars
      <3>2. marked \subseteq objects \cap Reach(Roots)
        BY <1>0, <2>4 DEF StartSweep
      <3>3. Survivors' = marked
        BY <3>1, <3>2 DEF Survivors
      <3>4. QED  BY <2>0, <3>1, <3>2, <3>3
    <2>5. CASE \E o \in Address : SweepMarked(o)
      <3>1. UNCHANGED <<Survivors, phase>> /\ phase = "sweep" /\ marked' \subseteq unswept'
        BY <1>0, <2>5 DEF SweepMarked, Survivors, listVars
      <3>2. QED  BY <1>0, <2>0, <3>1
    <2>6. CASE \E o \in Address : SweepUnmarked(o)
      <3>1. UNCHANGED <<Survivors, phase>> /\ phase = "sweep" /\ marked' \subseteq unswept'
        BY <1>0, <2>6 DEF SweepUnmarked, Survivors
      <3>2. QED  BY <1>0, <2>0, <3>1
    <2>7. CASE EndCollect
      <3>1. /\ phase = "sweep" /\ unswept = {} /\ phase' = "ready"
            /\ UNCHANGED objects
        BY <2>7 DEF EndCollect
      <3>2. objects \subseteq Reach(Roots)
        BY <1>0, <3>1 DEF Survivors
      <3>3. QED  BY <2>0, <3>1, <3>2
    <2>8. QED  BY <1>6, <2>2, <2>3, <2>4, <2>5, <2>6, <2>7 DEF CollectStep, Collector
  <1>7. QED  BY <1>1, <1>2, <1>3, <1>4, <1>5, <1>6, Steps

-----------------------------------------------------------------------------
(* The intern table.                                                       *)

LEMMA InternedStep ==
    ASSUME IInv, [Next]_vars
    PROVE  Interned'
  <1> USE DEF Interned
  <1>0. TypeOK /\ RequestInv /\ Interned
    BY DEF IInv
  <1>1. CASE UNCHANGED <<objects, text, strings>>
    BY <1>0, <1>1
  <1>2. CASE \E o \in Address, n \in 1 .. MaxBytes : Create(o, n)
    <2>1. PICK o \in Address, n \in 1 .. MaxBytes : Create(o, n)
      BY <1>2
    <2>2. /\ o \notin objects /\ objects' = objects \cup {o}
          /\ text' = [text EXCEPT ![o] = request.text]
          /\ request # Null
      BY <2>1 DEF Create, Fresh
    <2>3. CASE request.text \in Text
      <3>1. /\ strings' = [strings EXCEPT ![request.text] = o]
            /\ strings[request.text] = Null
        BY <1>0, <2>1, <2>2, <2>3 DEF Create, RequestInv
      <3>2. \A p \in objects : text[p] # request.text
        <4>1. NoText \notin Text /\ Null \notin Address /\ objects \subseteq Address
          BY <1>0, ConstantsAssumption DEF TypeOK
        <4>2. QED  BY <1>0, <2>3, <3>1, <4>1
      <3>3. \A p \in objects' : text'[p] # NoText => strings'[text'[p]] = p
        BY <1>0, <2>2, <2>3, <3>1, <3>2 DEF TypeOK
      <3>4. \A t \in Text : strings'[t] # Null =>
                strings'[t] \in objects' /\ text'[strings'[t]] = t
        BY <1>0, <2>2, <2>3, <3>1 DEF TypeOK
      <3>5. QED  BY <3>3, <3>4
    <2>4. CASE request.text \notin Text
      <3>1. strings' = strings /\ request.text = NoText
        BY <1>0, <2>1, <2>2, <2>4 DEF Create, TypeOK, Request
      <3>2. QED  BY <1>0, <2>2, <3>1, ConstantsAssumption DEF TypeOK
    <2>5. QED  BY <2>3, <2>4
  <1>3. CASE \E o \in Address : SweepUnmarked(o)
    <2>1. PICK o \in Address : SweepUnmarked(o)
      BY <1>3
    <2>2. /\ objects' = objects \ {o} /\ text' = [text EXCEPT ![o] = NoText]
          /\ strings' = [t \in Text |-> IF t = text[o] THEN Null ELSE strings[t]]
          /\ o \in objects
      BY <1>0, <2>1 DEF SweepUnmarked, TypeOK
    <2>3. \A p \in objects' : text'[p] # NoText => strings'[text'[p]] = p
      BY <1>0, <2>2, ConstantsAssumption DEF TypeOK
    <2>4. \A t \in Text : strings'[t] # Null =>
              strings'[t] \in objects' /\ text'[strings'[t]] = t
      BY <1>0, <2>2 DEF TypeOK
    <2>5. QED  BY <2>3, <2>4
  <1>4. ASSUME RootStep
        PROVE  UNCHANGED <<objects, text, strings>>
    BY <1>0, <1>4, RootStepHolds DEF heapVars
  <1>5. ASSUME CollectStep, ~ \E o \in Address : SweepUnmarked(o)
        PROVE  UNCHANGED <<objects, text, strings>>
    BY <1>5 DEF CollectStep, Collector, StartCollect, Trace, StartSweep, SweepMarked,
                EndCollect, listVars
  <1>6. ASSUME \/ RequestStep
               \/ SetStep
               \/ UNCHANGED vars
        PROVE  UNCHANGED <<objects, text, strings>>
    BY <1>6 DEF RequestStep, InternHit, InternMiss, NewObject, SetStep, SetReferences,
                listVars, heapVars, vars
  <1>7. QED  BY <1>1, <1>2, <1>3, <1>4, <1>5, <1>6, Steps

-----------------------------------------------------------------------------
(* The count.                                                              *)

\* A finite set of objects takes up a finite number of bytes, and at least
\* one each.
LEMMA CellsFinite ==
    ASSUME NEW S, IsFiniteSet(S), NEW f, \A o \in S : f[o] \in Nat
    PROVE  /\ IsFiniteSet(Cells(S, f)) /\ Cardinality(Cells(S, f)) \in Nat
           /\ (\A o \in S : f[o] > 0) => Cardinality(S) <= Cardinality(Cells(S, f))
  <1>1. IsFiniteSet(S \X (1 .. MaxBytes))
    <2>1. IsFiniteSet(1 .. MaxBytes)
      BY FS_Interval, ConstantsAssumption
    <2>2. QED  BY <2>1, FS_Product
  <1>2. Cells(S, f) \in SUBSET (S \X (1 .. MaxBytes))
    BY DEF Cells
  <1>3. IsFiniteSet(Cells(S, f)) /\ Cardinality(Cells(S, f)) \in Nat
    BY <1>1, <1>2, FS_Subset, FS_CardinalityType
  <1>4. ASSUME \A o \in S : f[o] > 0
        PROVE  Cardinality(S) <= Cardinality(Cells(S, f))
    <2> DEFINE first == [o \in S |-> <<o, 1>>]
    <2>1. \A o \in S : <<o, 1>> \in Cells(S, f)
      BY <1>4, ConstantsAssumption DEF Cells
    <2>2. first \in [S -> Cells(S, f)]
      BY <2>1
    <2>3. \A o, p \in S : first[o] = first[p] => o = p
      OBVIOUS
    <2>4. first \in Injection(S, Cells(S, f))
      <3> HIDE DEF first
      <3>1. DOMAIN first = S
        BY <2>2
      <3>2. QED  BY <2>2, <2>3, <3>1 DEF Injection, IsInjective
    <2>5. QED  BY <1>3, <2>4, FS_Injection
  <1>5. QED  BY <1>3, <1>4

\* Only the sizes of the objects in question matter.
LEMMA CellsAgree ==
    ASSUME NEW S, NEW f, NEW g, \A o \in S : f[o] = g[o]
    PROVE  Cells(S, f) = Cells(S, g)
  <1>1. \A c \in S \X (1 .. MaxBytes) : f[c[1]] = g[c[1]]
    OBVIOUS
  <1>2. QED  BY <1>1 DEF Cells

\* One more object takes up as many bytes more as its size is.
LEMMA CellsAdd ==
    ASSUME NEW S, IsFiniteSet(S), NEW o, o \notin S,
           NEW f, f[o] \in 0 .. MaxBytes, \A p \in S : f[p] \in Nat
    PROVE  Cardinality(Cells(S \cup {o}, f)) = Cardinality(Cells(S, f)) + f[o]
  <1> DEFINE n == f[o]
  <1>0. n \in Nat /\ MaxBytes \in Nat /\ n <= MaxBytes /\ f[o] = n
    BY ConstantsAssumption
  <1> HIDE DEF n
  <1>1. Cells(S \cup {o}, f) = Cells(S, f) \cup ({o} \X (1 .. n))
    <2>1. ASSUME NEW c \in Cells(S \cup {o}, f)
          PROVE  c \in Cells(S, f) \cup ({o} \X (1 .. n))
      <3>1. PICK p \in S \cup {o}, i \in 1 .. MaxBytes : c = <<p, i>> /\ i <= f[p]
        BY DEF Cells
      <3>2. CASE p = o
        BY <1>0, <3>1, <3>2
      <3>3. CASE p \in S
        BY <3>1, <3>3 DEF Cells
      <3>4. QED  BY <3>2, <3>3
    <2>2. ASSUME NEW c \in Cells(S, f)
          PROVE  c \in Cells(S \cup {o}, f)
      BY DEF Cells
    <2>3. ASSUME NEW c \in {o} \X (1 .. n)
          PROVE  c \in Cells(S \cup {o}, f)
      <3>1. PICK i \in 1 .. n : c = <<o, i>>
        OBVIOUS
      <3>2. i \in 1 .. MaxBytes /\ i <= f[o]
        BY <1>0
      <3>3. QED  BY <3>1, <3>2 DEF Cells
    <2>4. QED  BY <2>1, <2>2, <2>3
  <1>2. Cells(S, f) \cap ({o} \X (1 .. n)) = {}
    BY DEF Cells
  <1>3. IsFiniteSet({o} \X (1 .. n)) /\ Cardinality({o} \X (1 .. n)) = n
    <2>1. IsFiniteSet(1 .. n) /\ Cardinality(1 .. n) = n
      BY <1>0, FS_Interval
    <2>2. IsFiniteSet({o}) /\ Cardinality({o}) = 1
      BY FS_Singleton
    <2>3. QED  BY <1>0, <2>1, <2>2, FS_Product
  <1>4. IsFiniteSet(Cells(S, f)) /\ Cardinality(Cells(S, f)) \in Nat
    BY CellsFinite
  <1>5. Cardinality(Cells(S, f) \cup ({o} \X (1 .. n)))
            = Cardinality(Cells(S, f)) + n - Cardinality({})
    BY <1>0, <1>2, <1>3, <1>4, FS_Union
  <1>6. Cardinality({}) = 0
    BY FS_EmptySet
  <1>7. Cardinality(Cells(S, f) \cup ({o} \X (1 .. n))) = Cardinality(Cells(S, f)) + n
    BY <1>0, <1>4, <1>5, <1>6
  <1>8. QED  BY <1>0, <1>1, <1>7

LEMMA CountStep ==
    ASSUME IInv, [Next]_vars
    PROVE  CountInv'
  <1> USE DEF CountInv, Bytes
  <1>0. /\ TypeOK /\ CountInv /\ bytes \in Nat /\ next_gc \in Nat /\ grown \in Nat /\ live \in Nat
        /\ IsFiniteSet(objects) /\ Cardinality(objects) \in Nat
        /\ objects \subseteq Address /\ unswept \subseteq objects
        /\ size \in [Address -> 0 .. MaxBytes] /\ \A o \in objects : size[o] > 0
        /\ \A o \in Address : size[o] \in Nat
    BY FS_CardinalityType, ConstantsAssumption DEF IInv, TypeOK
  <1>01. Bytes(objects) \in Nat /\ Cardinality(objects) <= Bytes(objects)
    BY <1>0, CellsFinite
  <1>1. CASE UNCHANGED <<objects, size, unswept, live, bytes, next_gc, grown, phase>>
    BY <1>0, <1>1
  <1>2. CASE \E o \in Address, n \in 1 .. MaxBytes : Create(o, n)
    <2>1. PICK o \in Address, n \in 1 .. MaxBytes : Create(o, n)
      BY <1>2
    <2>2. /\ objects' = objects \cup {o} /\ o \notin objects /\ size' = [size EXCEPT ![o] = n]
          /\ bytes' = bytes + n /\ next_gc' = next_gc /\ grown' = grown /\ phase' = "idle"
          /\ phase # "sweep" /\ bytes <= next_gc
      BY <1>0, <2>1 DEF Create, MayCreate, MustCollect, Fresh, collectorVars
    <2>3. IsFiniteSet(objects') /\ Cardinality(objects') = Cardinality(objects) + 1
      BY <1>0, <2>2, FS_AddElement
    <2>4. size'[o] = n /\ \A p \in objects : size'[p] = size[p] /\ size'[p] \in Nat
      BY <1>0, <2>2
    <2>5. Cells(objects, size') = Cells(objects, size)
      BY <2>4, CellsAgree
    <2>6. Cardinality(Cells(objects', size')) = Cardinality(Cells(objects, size)) + n
      <3>1. n \in 0 .. MaxBytes /\ \A p \in objects : size'[p] \in Nat
        BY <2>4, ConstantsAssumption
      <3>2. IsFiniteSet(objects) /\ o \notin objects /\ size'[o] = n
        BY <1>0, <2>2, <2>4
      <3>3. Cardinality(Cells(objects \cup {o}, size'))
                = Cardinality(Cells(objects, size')) + size'[o]
        BY <3>1, <3>2, CellsAdd
      <3>4. QED  BY <2>2, <2>5, <3>2, <3>3
    <2>7. n \in 1 .. MaxBytes /\ MaxBytes \in Nat
      BY ConstantsAssumption
    <2>8. QED  BY <1>0, <1>01, <2>2, <2>3, <2>6, <2>7
  <1>3. CASE SetStep
    <2>1. PICK o \in Address, children \in SUBSET Address, n \in 1 .. MaxBytes :
             SetReferences(o, children, n)
      BY <1>3 DEF SetStep
    <2>2. /\ UNCHANGED <<objects, unswept, live, bytes, next_gc, phase>> /\ phase = "idle"
          /\ n >= size[o] /\ size' = [size EXCEPT ![o] = n] /\ grown' = grown + (n - size[o])
          /\ o \in objects
      BY <1>0, <2>1, AccessibleSurvives DEF SetReferences, heapVars, Idle, IInv
    <2>3. size'[o] = n /\ \A p \in objects \ {o} : size'[p] = size[p] /\ size[p] \in Nat
      BY <1>0, <2>2
    <2>4. Cells(objects \ {o}, size') = Cells(objects \ {o}, size)
      BY <2>3, CellsAgree
    <2>5. objects = (objects \ {o}) \cup {o} /\ IsFiniteSet(objects \ {o})
      BY <1>0, <2>2, FS_RemoveElement
    <2>6. n \in 0 .. MaxBytes /\ size[o] \in 0 .. MaxBytes
      BY <1>0, ConstantsAssumption
    <2>7. \A p \in objects \ {o} : size'[p] \in Nat
      BY <2>3
    <2>8. /\ Cardinality(Cells(objects, size)) = Cardinality(Cells(objects \ {o}, size)) + size[o]
          /\ Cardinality(Cells(objects, size')) = Cardinality(Cells(objects \ {o}, size)) + n
      BY <2>3, <2>4, <2>5, <2>6, <2>7, CellsAdd
    <2>9. Cardinality(Cells(objects \ {o}, size)) \in Nat
      BY <2>3, <2>5, CellsFinite
    <2>10. QED  BY <1>0, <1>01, <2>2, <2>6, <2>8, <2>9, ConstantsAssumption
  <1>4. CASE StartCollect \/ \E o \in Address : Trace(o)
    <2>1. /\ UNCHANGED <<objects, size, bytes, next_gc, grown>>
          /\ phase \in {"idle", "mark"} /\ phase' = "mark"
      BY <1>4 DEF StartCollect, Trace, listVars
    <2>2. QED  BY <1>0, <2>1
  <1>5. CASE StartSweep
    <2>1. /\ UNCHANGED <<objects, size, bytes, next_gc, grown>> /\ unswept' = objects
          /\ phase = "mark" /\ phase' = "sweep" /\ live' = 0
      BY <1>5 DEF StartSweep, listVars
    <2>2. objects \ objects = {} /\ Cells({}, size) = {} /\ Cardinality({}) = 0
      BY FS_EmptySet DEF Cells
    <2>3. QED  BY <1>0, <1>01, <2>1, <2>2
  <1>6. CASE \E o \in Address : SweepMarked(o)
    <2>1. PICK o \in Address : SweepMarked(o)
      BY <1>6
    <2>2. /\ UNCHANGED <<objects, size, bytes, next_gc, grown, phase>> /\ phase = "sweep"
          /\ o \in unswept /\ unswept' = unswept \ {o} /\ live' = live + size[o]
      BY <2>1 DEF SweepMarked, listVars
    <2>3. /\ objects \ unswept' = (objects \ unswept) \cup {o} /\ o \notin objects \ unswept
          /\ IsFiniteSet(objects \ unswept)
      BY <1>0, <2>2, FS_Difference
    <2>4. size[o] \in 0 .. MaxBytes /\ \A p \in objects \ unswept : size[p] \in Nat
      BY <1>0
    <2>5. Cardinality(Cells(objects \ unswept', size))
              = Cardinality(Cells(objects \ unswept, size)) + size[o]
      <3> DEFINE S == objects \ unswept
      <3>1. /\ IsFiniteSet(S) /\ o \notin S /\ size[o] \in 0 .. MaxBytes
            /\ \A p \in S : size[p] \in Nat
        BY <2>3, <2>4
      <3>2. objects \ unswept' = S \cup {o}
        BY <2>3
      <3> HIDE DEF S
      <3>3. Cardinality(Cells(S \cup {o}, size)) = Cardinality(Cells(S, size)) + size[o]
        BY <3>1, CellsAdd
      <3>4. QED  BY <3>2, <3>3 DEF S
    <2>6. QED  BY <1>0, <2>2, <2>5
  <1>7. CASE \E o \in Address : SweepUnmarked(o)
    <2>1. PICK o \in Address : SweepUnmarked(o)
      BY <1>7
    <2>2. /\ UNCHANGED <<live, bytes, next_gc, grown, phase>> /\ phase = "sweep"
          /\ o \in unswept /\ unswept' = unswept \ {o} /\ objects' = objects \ {o}
          /\ size' = [size EXCEPT ![o] = 0]
      BY <2>1 DEF SweepUnmarked
    <2>3. \A p \in objects' : size'[p] = size[p] /\ size[p] \in Nat
      BY <1>0, <2>2
    <2>4. /\ Cells(objects', size') = Cells(objects', size)
          /\ Cells(objects' \ unswept', size') = Cells(objects' \ unswept', size)
      BY <2>3, CellsAgree
    <2>5. objects' \ unswept' = objects \ unswept
      BY <1>0, <2>2
    <2>6. /\ IsFiniteSet(objects') /\ Cardinality(objects') \in Nat
          /\ Cardinality(objects') <= Cardinality(objects)
      <3>1. objects' \in SUBSET objects
        BY <2>2
      <3>2. QED  BY <1>0, <3>1, FS_Subset, FS_CardinalityType
    <2>7. /\ objects = objects' \cup {o} /\ o \notin objects'
          /\ size[o] \in 0 .. MaxBytes /\ \A p \in objects' : size[p] \in Nat
      BY <1>0, <2>2
    <2>8. Cardinality(Cells(objects, size)) = Cardinality(Cells(objects', size)) + size[o]
      BY <2>6, <2>7, CellsAdd
    <2>9. Cardinality(Cells(objects', size)) \in Nat
      BY <2>6, <2>7, CellsFinite
    <2>10. Cardinality(Cells(objects', size')) <= bytes' + grown'
      BY <1>0, <1>01, <2>2, <2>4, <2>7, <2>8, <2>9, ConstantsAssumption
    <2>11. live' = Cardinality(Cells(objects' \ unswept', size'))
      BY <1>0, <2>2, <2>4, <2>5
    <2>12. QED  BY <1>0, <2>2, <2>6, <2>10, <2>11
  <1>8. CASE EndCollect
    <2>1. /\ UNCHANGED <<objects, size, unswept>> /\ phase = "sweep" /\ unswept = {}
          /\ bytes' = live /\ grown' = 0 /\ phase' = "ready"
          /\ next_gc' = IF 2 * live > MinNextGc THEN 2 * live ELSE MinNextGc
      BY <1>8 DEF EndCollect
    <2>2. objects \ unswept = objects
      BY <2>1
    <2>3. bytes' = Bytes(objects)
      BY <1>0, <2>1, <2>2
    <2>4. bytes' <= next_gc' /\ next_gc' \in Nat /\ MaxBytes \in Nat
      BY <1>0, <2>1, ConstantsAssumption
    <2>5. QED  BY <1>0, <1>01, <2>1, <2>3, <2>4
  <1>9. ASSUME RootStep
        PROVE  UNCHANGED <<objects, size, unswept, live, bytes, next_gc, grown, phase>>
    BY <1>0, <1>9, RootStepHolds DEF heapVars, objectVars
  <1>10. ASSUME RequestStep \/ UNCHANGED vars
         PROVE  UNCHANGED <<objects, size, unswept, live, bytes, next_gc, grown, phase>>
    BY <1>10 DEF RequestStep, InternHit, InternMiss, NewObject, listVars, collectorVars, vars
  <1>11. QED
    BY <1>1, <1>2, <1>3, <1>4, <1>5, <1>6, <1>7, <1>8, <1>9, <1>10, Steps
       DEF CollectStep, Collector

-----------------------------------------------------------------------------
(* The theorems.                                                           *)

LEMMA InitInv == Init => IInv
  <1> SUFFICES ASSUME Init
               PROVE  IInv
    OBVIOUS
  <1>1. Roots = {}
    <2>1. Range(temp_roots) = {} /\ Range(root_markers) = {}
      BY RangeEmpty DEF Init
    <2>2. QED  BY <2>1 DEF Roots
  <1>2. TypeOK
    BY ConstantsAssumption DEF Init, TypeOK
  <1>3. GraphInv /\ RequestInv /\ MarkInv /\ Interned
    BY <1>1 DEF Init, GraphInv, RequestInv, MarkInv, Interned, Survivors
  <1>4. /\ IsFiniteSet(objects) /\ Cardinality(objects) = 0
        /\ Cells(objects, size) = {} /\ Cardinality({}) = 0
    BY FS_EmptySet DEF Init, Cells
  <1>5. CountInv
    <2>1. bytes = 0 /\ grown = 0 /\ next_gc = MinNextGc /\ phase = "idle"
      BY DEF Init
    <2>2. MinNextGc \in Nat /\ MaxBytes \in Nat
      BY ConstantsAssumption
    <2>3. QED  BY <1>4, <2>1, <2>2 DEF CountInv, Bytes
  <1>6. QED  BY <1>2, <1>3, <1>5 DEF IInv

\* The inductive invariant holds always.
THEOREM Invariant == Spec => []IInv
  <1>1. ASSUME IInv, [Next]_vars
        PROVE  IInv'
    BY <1>1, TypeStep, GraphStep, RequestInvStep, MarkStep, InternedStep, CountStep DEF IInv
  <1>2. QED  BY InitInv, <1>1, PTL DEF Spec

\* Types hold, and marks belong to a collection in progress.
THEOREM TypeCorrect == Spec => []TypeOK
  <1>1. IInv => TypeOK
    BY DEF IInv
  <1>2. QED  BY <1>1, Invariant, PTL

\* Heap::collect frees nothing that the program, or the object it is about
\* to make, can reach.
THEOREM NeverFreedInUse == Spec => []NothingReachableFreed
  <1>1. ASSUME IInv
        PROVE  NothingReachableFreed
    <2>1. Accessible \subseteq objects /\ Reach(Roots) \subseteq objects
      BY <1>1, AccessibleSurvives DEF IInv
    <2>2. gray \subseteq objects
      BY <1>1 DEF IInv, TypeOK, MarkInv
    <2>3. QED  BY <1>1, <2>1, <2>2 DEF IInv, RequestInv, NothingReachableFreed
  <1>2. QED  BY <1>1, Invariant, PTL

\* Heap::intern returns the one string with given bytes; the table never
\* holds a freed one.
THEOREM AlwaysInterned == Spec => []Interned
  <1>1. IInv => Interned
    BY DEF IInv
  <1>2. QED  BY <1>1, Invariant, PTL

\* However objects grow behind its back, the heap's count is short by that
\* growth and no more, and memory and the number of objects stay within what
\* the threshold allows beside it.
THEOREM AlwaysGarbageBounded == Spec => []GarbageBounded
  <1>1. ASSUME IInv
        PROVE  GarbageBounded
    <2>1. /\ CountInv /\ bytes \in Nat /\ next_gc \in Nat /\ grown \in Nat
          /\ IsFiniteSet(objects) /\ \A o \in objects : size[o] \in Nat
      BY <1>1, ConstantsAssumption DEF IInv, TypeOK, CountInv
    <2>2. Bytes(objects) \in Nat /\ Cardinality(objects) \in Nat
      BY <2>1, CellsFinite, FS_CardinalityType DEF Bytes
    <2>3. Bytes(objects) <= bytes + grown
      BY <2>1, <2>2 DEF CountInv
    <2>4. QED  BY <2>1, <2>2, <2>3, ConstantsAssumption DEF CountInv, GarbageBounded
  <1>2. QED  BY <1>1, Invariant, PTL

-----------------------------------------------------------------------------
(* The heap with its marks, gray stack and sweep implements the heap that      *)
(* ManagedHeap promises to the engines.                                        *)

\* The values of the abstract variables.
refsMap == [o \in Kept |-> refs[o]]
textMap == [o \in Kept |-> text[o]]

PromiseStep == [Promise!Next]_Promise!vars

-----------------------------------------------------------------------------

\* While no collection is under way, the program sees the heap as it is.
LEMMA KeptAll ==
    ASSUME phase \notin {"mark", "sweep"}
    PROVE  /\ Kept = objects
           /\ \A S : Promise!Reach(S) = Reach(S)
           /\ Promise!Accessible = Accessible
  <1>1. Kept = objects
    BY DEF Kept
  <1>2. ASSUME NEW S
        PROVE  Promise!Reach(S) = Reach(S)
    BY <1>1 DEF Promise!Reach, Reach
  <1>3. QED  BY <1>1, <1>2 DEF Promise!Accessible, Accessible

\* A step that the program does not see.
LEMMA Unseen ==
    ASSUME UNCHANGED <<Kept, Roots, result>>,
           \A o \in Kept : refs'[o] = refs[o] /\ text'[o] = text[o]
    PROVE  PromiseStep
  <1>1. UNCHANGED <<refsMap, textMap>>
    BY DEF refsMap, textMap
  <1>2. QED  BY <1>1 DEF PromiseStep, Promise!vars, refsMap, textMap

\* Roots and the last result can be got at.
LEMMA HeldIsAccessible ==
    ASSUME IInv
    PROVE  /\ Roots \subseteq Accessible
           /\ Accessible \subseteq objects /\ objects \subseteq Address
  <1>1. Roots \cup ({result} \ {Null}) \subseteq Address
    BY RootsType DEF IInv, TypeOK
  <1>2. Roots \subseteq Accessible
    BY <1>1, ReachClosed DEF IInv, Accessible
  <1>3. QED  BY <1>2, AccessibleSurvives DEF IInv, TypeOK

-----------------------------------------------------------------------------
(* The program's steps.                                                    *)

LEMMA RootSteps ==
    ASSUME IInv, RootStep
    PROVE  PromiseStep
  <1>1. /\ phase = "idle" /\ phase' = "idle"
        /\ UNCHANGED <<objects, refs, text, result>>
        /\ Roots' \subseteq Accessible
    BY RootStepHolds, HeldIsAccessible DEF IInv, Idle, heapVars, objectVars
  <1>2. UNCHANGED <<Kept, refsMap, textMap>>
    BY <1>1 DEF Kept, refsMap, textMap
  <1>3. Promise!Hold
    BY <1>1, <1>2, KeptAll DEF Promise!Hold, Promise!Regroup, refsMap, textMap
  <1>4. QED  BY <1>3 DEF PromiseStep, Promise!Next

LEMMA RequestSteps ==
    ASSUME IInv, RequestStep
    PROVE  PromiseStep
  <1>1. /\ phase = "idle" /\ phase' = "idle"
        /\ UNCHANGED <<objects, refs, text, Roots>>
    BY DEF RequestStep, InternHit, InternMiss, NewObject, Idle, Roots, programVars,
           collectorVars, listVars
  <1>2. UNCHANGED <<Kept, refsMap, textMap>> /\ Kept = objects
    BY <1>1 DEF Kept, refsMap, textMap
  <1>3. CASE \E t \in Text : InternHit(t)
    <2>1. PICK t \in Text : InternHit(t)
      BY <1>3
    <2>2. /\ strings[t] \in objects /\ text[strings[t]] = t /\ strings[t] \in Address
          /\ result' = strings[t]
      BY <2>1 DEF IInv, Interned, TypeOK, InternHit
    <2>3. PICK o \in Address : o = strings[t]
      BY <2>2
    <2>4. o \in Promise!WithText(t)
      BY <1>2, <2>2, <2>3 DEF Promise!WithText
    <2>5. Promise!Intern(t, o)
      BY <1>1, <1>2, <2>2, <2>3, <2>4 DEF Promise!Intern, refsMap, textMap
    <2>6. QED  BY <2>5 DEF PromiseStep, Promise!Next
  <1>4. CASE \/ \E t \in Text : InternMiss(t)
             \/ \E children \in SUBSET Address : NewObject(children)
    <2>1. Promise!Forget
      BY <1>1, <1>2, <1>4 DEF Promise!Forget, InternMiss, NewObject, refsMap, textMap
    <2>2. QED  BY <2>1 DEF PromiseStep, Promise!Next
  <1>5. QED  BY <1>3, <1>4 DEF RequestStep

LEMMA CreateSteps ==
    ASSUME IInv, NEW o \in Address, NEW n \in 1 .. MaxBytes, Create(o, n)
    PROVE  PromiseStep
  <1>1. /\ request # Null /\ phase \notin {"mark", "sweep"} /\ phase' = "idle"
        /\ o \notin objects /\ objects' = objects \cup {o}
        /\ refs' = [refs EXCEPT ![o] = request.refs]
        /\ text' = [text EXCEPT ![o] = request.text]
        /\ result' = o /\ UNCHANGED Roots
    BY DEF Create, MayCreate, Fresh, Roots
  <1>2. Kept = objects /\ Kept' = objects'
    BY <1>1 DEF Kept
  <1>3. /\ refs'[o] = request.refs /\ text'[o] = request.text
        /\ \A p \in objects : refs'[p] = refs[p] /\ text'[p] = text[p]
    BY <1>1 DEF IInv, TypeOK
  <1>4. Promise!Make(o, request.text, request.refs)
    <2>1. refsMap' = [p \in Kept' |-> IF p = o THEN request.refs ELSE refsMap[p]]
      BY <1>1, <1>2, <1>3 DEF refsMap
    <2>2. textMap' = [p \in Kept' |-> IF p = o THEN request.text ELSE textMap[p]]
      BY <1>1, <1>2, <1>3 DEF textMap
    <2>3. QED  BY <1>1, <1>2, <2>1, <2>2 DEF Promise!Make, refsMap, textMap
  <1>5. request.refs \subseteq Promise!Reach(Roots)
    BY <1>1, KeptAll DEF IInv, RequestInv
  <1>6. CASE request.text \in Text
    <2>1. strings[request.text] = Null /\ request.refs = {}
      BY <1>1, <1>6 DEF IInv, RequestInv
    <2>2. \A p \in objects : text[p] # request.text
      BY <1>6, <2>1, ConstantsAssumption DEF IInv, Interned, TypeOK
    <2>3. Promise!WithText(request.text) = {}
      BY <1>2, <2>2 DEF Promise!WithText
    <2>4. PICK t \in Text : t = request.text
      BY <1>6
    <2>5. Promise!Make(o, t, {})
      BY <1>4, <2>1, <2>4 DEF Promise!Make
    <2>6. Promise!Intern(t, o)
      BY <1>1, <2>3, <2>4, <2>5 DEF Promise!Intern
    <2>7. QED  BY <2>6 DEF PromiseStep, Promise!Next
  <1>7. CASE request.text \notin Text
    <2>1. request.text = NoText
      BY <1>1, <1>7 DEF IInv, TypeOK, Request
    <2>2. Promise!NewObject(o, request.refs)
      BY <1>1, <1>4, <1>5, <2>1 DEF Promise!NewObject
    <2>3. QED  BY <1>1, <1>2, <1>5, <2>2 DEF PromiseStep, Promise!Next
  <1>8. QED  BY <1>6, <1>7

LEMMA MutateSteps ==
    ASSUME IInv, NEW o \in Address, NEW children \in SUBSET Address, NEW n \in 1 .. MaxBytes,
           SetReferences(o, children, n)
    PROVE  PromiseStep
  <1>1. /\ phase = "idle" /\ phase' = "idle"
        /\ UNCHANGED <<objects, text, result, Roots>>
        /\ refs' = [refs EXCEPT ![o] = children]
        /\ o \in Accessible /\ text[o] = NoText /\ children \subseteq Accessible
    BY DEF SetReferences, Idle, heapVars, Roots
  <1>2. Kept = objects /\ Kept' = objects /\ o \in objects
    BY <1>1, HeldIsAccessible DEF Kept
  <1>3. UNCHANGED textMap /\ refsMap' = [refsMap EXCEPT ![o] = children]
    BY <1>1, <1>2 DEF refsMap, textMap, IInv, TypeOK
  <1>4. Promise!Mutate(o, children)
    BY <1>1, <1>2, <1>3, KeptAll, HeldIsAccessible
       DEF Promise!Mutate, Promise!Regroup, refsMap, textMap
  <1>5. QED  BY <1>1, <1>2, <1>4, KeptAll DEF PromiseStep, Promise!Next

-----------------------------------------------------------------------------
(* The collector's steps: all but the first are unseen.                    *)

LEMMA CollectSteps ==
    ASSUME IInv, CollectStep
    PROVE  PromiseStep
  <1>0. /\ UNCHANGED <<Roots, Reach(Roots), result>> /\ result = Null
        /\ Reach(Roots) \subseteq Survivors /\ TypeOK /\ MarkInv
    BY CollectStepHolds, CollectKeepsReach, AccessibleSurvives DEF IInv, RequestInv
  <1>1. CASE StartCollect
    <2>1. phase = "idle" /\ phase' = "mark" /\ UNCHANGED <<objects, refs, text>>
      BY <1>1 DEF StartCollect, programVars, listVars
    <2>2. Kept = objects /\ Kept' = objects \cap Reach(Roots)
      BY <1>0, <2>1 DEF Kept
    <2>3. Kept' = Kept \cap Promise!Reach(Roots)
      BY <2>1, <2>2, KeptAll
    <2>4. /\ refsMap' = [o \in Kept' |-> refsMap[o]]
          /\ textMap' = [o \in Kept' |-> textMap[o]]
      BY <2>1, <2>2 DEF refsMap, textMap
    <2>5. Promise!Collect
      BY <1>0, <2>3, <2>4 DEF Promise!Collect, refsMap, textMap
    <2>6. QED  BY <2>5 DEF PromiseStep, Promise!Next
  <1>2. CASE StartSweep \/ \E o \in Address : Trace(o) \/ SweepMarked(o)
    <2>1. /\ UNCHANGED <<objects, refs, text>>
          /\ phase \in {"mark", "sweep"} /\ phase' \in {"mark", "sweep"}
      BY <1>2 DEF StartSweep, Trace, SweepMarked, programVars, listVars
    <2>2. UNCHANGED Kept
      BY <1>0, <2>1 DEF Kept
    <2>3. QED  BY <1>0, <2>1, <2>2, Unseen
  <1>3. CASE \E o \in Address : SweepUnmarked(o)
    <2>1. PICK o \in Address : SweepUnmarked(o)
      BY <1>3
    <2>2. /\ objects' = objects \ {o} /\ phase = "sweep" /\ phase' = "sweep"
          /\ o \notin Survivors
          /\ \A p \in Address \ {o} : refs'[p] = refs[p] /\ text'[p] = text[p]
      BY <1>0, <2>1 DEF SweepUnmarked, Survivors, TypeOK
    <2>3. UNCHANGED Kept /\ o \notin Kept /\ Kept \subseteq Address
      BY <1>0, <2>2 DEF Kept, TypeOK
    <2>4. QED  BY <1>0, <2>2, <2>3, Unseen
  <1>4. CASE EndCollect
    <2>1. /\ UNCHANGED <<objects, refs, text>> /\ unswept = {}
          /\ phase = "sweep" /\ phase' = "ready"
      BY <1>4 DEF EndCollect, programVars
    <2>2. objects \subseteq Reach(Roots)
      BY <1>0, <2>1 DEF MarkInv, Survivors
    <2>3. UNCHANGED Kept
      BY <2>1, <2>2 DEF Kept
    <2>4. QED  BY <1>0, <2>1, <2>3, Unseen
  <1>5. QED  BY <1>1, <1>2, <1>3, <1>4 DEF CollectStep, Collector

-----------------------------------------------------------------------------

\* Heap implements ManagedHeap: a collection in many steps frees exactly
\* what no root leads to, as if at once, and equal strings are one object.
THEOREM Implements == Spec => ImplementsManagedHeap
  <1>1. Init => Promise!Init
    <2> SUFFICES ASSUME Init
                 PROVE  Promise!Init
      OBVIOUS
    <2>1. Range(temp_roots) = {} /\ Range(root_markers) = {}
      BY RangeEmpty DEF Init
    <2>2. Roots = {} /\ Kept = {}
      BY <2>1 DEF Init, Roots, Kept
    <2>3. QED  BY <2>2 DEF Init, Promise!Init
  <1>2. ASSUME IInv, [Next]_vars
        PROVE  PromiseStep
    <2>1. CASE UNCHANGED vars
      <3>1. UNCHANGED <<objects, refs, text, result, phase, Roots>>
        BY <2>1 DEF vars, Roots
      <3>2. UNCHANGED Kept
        BY <3>1, SameReach DEF Kept
      <3>3. QED  BY <3>1, <3>2, Unseen
    <2>2. QED
      BY <1>2, <2>1, Steps, RootSteps, RequestSteps, CreateSteps, MutateSteps, CollectSteps
         DEF SetStep
  <1>3. QED
    BY <1>1, <1>2, Invariant, PTL DEF Spec, ImplementsManagedHeap, Promise!Spec, PromiseStep

=============================================================================
