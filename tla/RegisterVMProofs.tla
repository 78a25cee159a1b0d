-------------------------- MODULE RegisterVMProofs --------------------------
(***************************************************************************)
(* The register machine's storage is safe, and its overlapping windows and *)
(* open and closed upvalues implement the boxed variables that             *)
(* BoxedVariables promises, for every set of functions, every frame size,  *)
(* register file and depth limit.                                          *)
(***************************************************************************)
EXTENDS RegisterVM, QueueTheorems, FiniteSetTheorems, TLAPS

-----------------------------------------------------------------------------
(* The inductive invariant.                                                *)

\* A closure's upvalues are upvalues, and only the one being built has fewer
\* than its function captures.
ClosureInv ==
    \A c \in Object : IsClosure(c) =>
        /\ \A i \in DOMAIN heap[c].upvalues : heap[heap[c].upvalues[i]].kind = "upvalue"
        /\ c # building => Len(heap[c].upvalues) = Len(Captures[heap[c].function])
        /\ c = building => Len(heap[c].upvalues) < Len(Captures[heap[c].function])

\* The depth limit counts every frame but the script's, and every frame but
\* the newest ends its registers in use where the next one starts.
FrameInv ==
    /\ Len(frames) <= MaxCallDepth + uncounted_frames
    /\ \A i \in DOMAIN frames :
          /\ WindowEnd(frames[i]) <= Slots
          /\ frames[i].closure # building
          /\ i > 1 => frames[i].base = frames[i - 1].base + frames[i - 1].live

\* The closure being built is the newest register in use, and what it has
\* still to capture are variables by now.
BuildingInv ==
    building # None =>
        /\ frames # <<>>
        /\ Newest.live > 0 /\ Reg(Newest.live - 1) = building
        /\ heap[building].function \in Nested[FunctionOf(Newest)]
        /\ \A i \in DOMAIN Captures[heap[building].function] :
              Captures[heap[building].function][i].is_local =>
                  Captures[heap[building].function][i].index < Newest.locals

IInv == TypeOK /\ ClosureInv /\ FrameInv /\ BuildingInv /\ OpenUpvaluesOrdered /\ NothingDangles

-----------------------------------------------------------------------------
(* The list of open upvalues.                                              *)

\* What a walk passes is the beginning of the list.
LEMMA PassedPrefix ==
    ASSUME TypeOK, NEW local \in Int
    PROVE  /\ Above(local) \in 0..Len(open_upvalues)
           /\ Passed(local) = 1..Above(local)
  <1> DEFINE n == Len(open_upvalues)
             P == Passed(local)
             c == Cardinality(P)
  <1>1. n \in Nat /\ DOMAIN open_upvalues = 1..n
    BY DEF TypeOK
  <1>2. P \subseteq 1..n /\ \A i \in P : \A j \in 1..i : j \in P
    <2>1. P \subseteq 1..n
      BY <1>1 DEF Passed
    <2>2. ASSUME NEW i \in P, NEW j \in 1..i
          PROVE  j \in P
      <3>1. j \in DOMAIN open_upvalues /\ 1..j \subseteq 1..i
        BY <1>1, <2>1
      <3>2. QED  BY <2>2, <3>1 DEF Passed
    <2>3. \A i \in P : \A j \in 1..i : j \in P
      BY <2>2
    <2>4. QED  BY <2>1, <2>3
  <1>3. IsFiniteSet(P) /\ c \in Nat /\ c <= n
    <2>1. IsFiniteSet(1..n) /\ Cardinality(1..n) = n /\ P \in SUBSET (1..n)
      BY <1>1, <1>2, FS_Interval
    <2>2. IsFiniteSet(P) /\ c <= n
      BY <2>1, FS_Subset
    <2>3. QED  BY <2>2, FS_CardinalityType
  <1>4. ASSUME NEW i \in P
        PROVE  i \in 1..c
    <2>1. i \in Nat \ {0} /\ 1..i \subseteq P
      BY <1>1, <1>2
    <2>2. Cardinality(1..i) = i /\ Cardinality(1..i) <= c
      BY <1>3, <2>1, FS_Interval, FS_Subset
    <2>3. QED  BY <1>3, <2>1, <2>2
  <1>5. P = 1..c
    <2>1. IsFiniteSet(1..c) /\ Cardinality(1..c) = c
      BY <1>3, FS_Interval
    <2>2. P \in SUBSET (1..c)
      BY <1>4
    <2>3. QED  BY <2>1, <2>2, FS_Subset
  <1>6. QED  BY <1>1, <1>3, <1>5 DEF Above

\* Where the walk stops the list goes on at or below the register.
LEMMA WalkStops ==
    ASSUME TypeOK, NEW local \in Int,
           \A o \in Range(open_upvalues) : heap[o].location \in Int
    PROVE  /\ \A i \in 1..Above(local) : heap[open_upvalues[i]].location > local
           /\ Above(local) < Len(open_upvalues) =>
                 heap[open_upvalues[Above(local) + 1]].location <= local
  <1>1. Len(open_upvalues) \in Nat /\ DOMAIN open_upvalues = 1..Len(open_upvalues)
    BY DEF TypeOK
  <1>2. \A i \in 1..Above(local) : heap[open_upvalues[i]].location > local
    <2>1. ASSUME NEW i \in 1..Above(local)
          PROVE  heap[open_upvalues[i]].location > local
      <3>1. i \in Passed(local) /\ i \in 1..i
        BY PassedPrefix
      <3>2. QED  BY <3>1 DEF Passed
    <2>2. QED  BY <2>1
  <1>3. ASSUME Above(local) < Len(open_upvalues)
        PROVE  heap[open_upvalues[Above(local) + 1]].location <= local
    <2> DEFINE k == Above(local) + 1
    <2>0. Above(local) \in 0..Len(open_upvalues) /\ Passed(local) = 1..Above(local)
      BY PassedPrefix
    <2>1. k \in DOMAIN open_upvalues /\ k \notin Passed(local) /\ Above(local) \in Nat
      BY <1>1, <1>3, <2>0
    <2>2. ~ (heap[open_upvalues[k]].location > local)
      <3>1. \A j \in 1..k : j = k \/ j \in 1..Above(local)
        BY <2>1
      <3>2. ASSUME heap[open_upvalues[k]].location > local
            PROVE  \A j \in 1..k : heap[open_upvalues[j]].location > local
        BY <1>2, <3>1, <3>2
      <3>3. QED  BY <2>1, <3>2 DEF Passed
    <2>3. heap[open_upvalues[k]].location \in Int
      BY <2>1 DEF Range
    <2>4. QED  BY <2>2, <2>3
  <1>4. QED  BY <1>2, <1>3

-----------------------------------------------------------------------------
(* Objects, frames and registers.                                          *)

\* The fields of the objects of each kind.
LEMMA Kinds ==
    ASSUME TypeOK, NEW o \in Object
    PROVE  /\ heap[o] \in HeapObject
           /\ heap[o].kind \in {"free", "data", "closure", "upvalue"}
           /\ IsClosure(o) => heap[o] \in [kind : {"closure"}, function : Function,
                                           upvalues : Seq(Object)]
           /\ heap[o].kind = "upvalue" =>
                 heap[o] \in [kind : {"upvalue"}, location : 0..(Slots - 1) \cup {Closed},
                              closed : Value]
  <1>1. heap[o] \in HeapObject
    BY DEF TypeOK
  <1>2. CASE heap[o] \in {Freed, Data}
    BY <1>1, <1>2 DEF Freed, Data, IsClosure
  <1>3. CASE heap[o] \in [kind : {"closure"}, function : Function, upvalues : Seq(Object)]
    BY <1>1, <1>3 DEF IsClosure
  <1>4. CASE heap[o] \in [kind : {"upvalue"}, location : 0..(Slots - 1) \cup {Closed},
                          closed : Value]
    BY <1>1, <1>4 DEF IsClosure
  <1>5. QED  BY <1>1, <1>2, <1>3, <1>4 DEF HeapObject

\* The newest frame, and its window.
LEMMA NewestType ==
    ASSUME TypeOK, FrameInv, frames # <<>>
    PROVE  /\ Len(frames) \in Nat \ {0} /\ DOMAIN frames = 1..Len(frames)
           /\ Newest \in Frame /\ IsClosure(Newest.closure)
           /\ FunctionOf(Newest) \in Function /\ FrameSize[FunctionOf(Newest)] \in Nat
           /\ Arity[FunctionOf(Newest)] \in Nat
           /\ Newest.locals <= Newest.live /\ Newest.live <= FrameSize[FunctionOf(Newest)]
           /\ Newest.base + FrameSize[FunctionOf(Newest)] <= Slots
           /\ Newest.closure # building
  <1>1. Len(frames) \in Nat \ {0} /\ DOMAIN frames = 1..Len(frames) /\ Newest \in Frame
    BY DEF TypeOK, Newest
  <1>2. /\ IsClosure(Newest.closure)
        /\ Newest.locals <= Newest.live /\ Newest.live <= FrameSize[FunctionOf(Newest)]
        /\ WindowEnd(Newest) <= Slots /\ Newest.closure # building
    BY <1>1 DEF TypeOK, FrameInv, Newest
  <1>3. FunctionOf(Newest) \in Function
    BY <1>1, <1>2, Kinds DEF Frame, FunctionOf
  <1>4. QED  BY <1>1, <1>2, <1>3, ConstantsAssumption DEF WindowEnd

LEMMA Replaced ==
    ASSUME frames \in Seq(Frame), frames # <<>>, NEW frame \in Frame
    PROVE  /\ ReplaceNewest(frame) \in Seq(Frame) /\ ReplaceNewest(frame) # <<>>
           /\ Len(ReplaceNewest(frame)) = Len(frames)
           /\ DOMAIN ReplaceNewest(frame) = 1..Len(frames)
           /\ \A i \in 1..Len(frames) :
                 ReplaceNewest(frame)[i] = IF i = Len(frames) THEN frame ELSE frames[i]
  BY DEF ReplaceNewest

\* A slot inside some window is marked, and inside the file.
LEMMA WindowMarked ==
    ASSUME TypeOK, FrameInv, NEW i \in DOMAIN frames,
           NEW s \in 0..(WindowEnd(frames[i]) - 1)
    PROVE  s \in MarkedSlots /\ s \in 0..(Slots - 1)
  <1>1. s \in MarkedSlots
    BY DEF MarkedSlots, SlotsOf
  <1>2. frames[i] \in Frame /\ IsClosure(frames[i].closure) /\ WindowEnd(frames[i]) <= Slots
    BY DEF TypeOK, FrameInv
  <1>3. FunctionOf(frames[i]) \in Function
    BY <1>2, Kinds DEF Frame, FunctionOf
  <1>4. WindowEnd(frames[i]) \in Int /\ Slots \in Nat
    BY <1>2, <1>3, ConstantsAssumption DEF WindowEnd, Frame
  <1>5. QED  BY <1>1, <1>2, <1>4

\* The run of marked slots does not go beyond the file.
LEMMA MarkedInFile ==
    ASSUME TypeOK, FrameInv
    PROVE  MarkedSlots \subseteq 0..(Slots - 1)
  <1>1. 0 \in 0..(Slots - 1)
    BY ConstantsAssumption
  <1>2. ASSUME NEW i \in DOMAIN frames, NEW s \in 0..(WindowEnd(frames[i]) - 1)
        PROVE  s \in 0..(Slots - 1)
    BY <1>2, WindowMarked
  <1>3. QED  BY <1>1, <1>2 DEF MarkedSlots, SlotsOf

\* The registers of the newest frame that are in use.
LEMMA LiveSlots ==
    ASSUME TypeOK, FrameInv, frames # <<>>, NEW r \in 0..(FrameSize[FunctionOf(Newest)] - 1)
    PROVE  /\ Newest.base + r \in MarkedSlots /\ Newest.base + r \in 1..(Slots - 1)
           /\ NothingDangles => IsValid(Reg(r)) /\ Reg(r) \in Value
  <1>1. Len(frames) \in DOMAIN frames /\ Newest.base \in 1..Slots
    BY NewestType DEF Frame
  <1>2. Newest.base + r \in 0..(WindowEnd(frames[Len(frames)]) - 1) /\ Newest.base + r # 0
    BY <1>1, NewestType DEF WindowEnd, Newest
  <1>3. Newest.base + r \in MarkedSlots /\ Newest.base + r \in 0..(Slots - 1)
    BY <1>1, <1>2, WindowMarked
  <1>4. QED  BY <1>2, <1>3, ConstantsAssumption DEF NothingDangles, Reg, IsValid, Value

\* An open upvalue points at a marked slot.
LEMMA UpvalueSlots ==
    ASSUME TypeOK, FrameInv, OpenUpvaluesOrdered, NothingDangles,
           NEW o \in Range(open_upvalues)
    PROVE  /\ o \in Object /\ heap[o].kind = "upvalue"
           /\ heap[o].location \in MarkedSlots /\ heap[o].location \in 1..(Slots - 1)
           /\ IsValid(registers[heap[o].location]) /\ registers[heap[o].location] \in Value
  <1>1. o \in Object /\ heap[o].kind = "upvalue"
    BY RangeType DEF NothingDangles, TypeOK, Range
  <1>2. PICK i \in DOMAIN frames :
            heap[o].location \in frames[i].base..(frames[i].base + frames[i].locals - 1)
    BY DEF OpenUpvaluesOrdered
  <1>3. /\ frames[i] \in Frame /\ IsClosure(frames[i].closure)
        /\ frames[i].locals <= frames[i].live
        /\ frames[i].live <= FrameSize[FunctionOf(frames[i])]
    BY DEF TypeOK
  <1>4. FunctionOf(frames[i]) \in Function
    BY <1>3, Kinds DEF Frame, FunctionOf
  <1>5. heap[o].location \in 0..(WindowEnd(frames[i]) - 1) /\ heap[o].location # 0
    BY <1>2, <1>3, <1>4, ConstantsAssumption DEF WindowEnd, Frame
  <1>6. heap[o].location \in MarkedSlots /\ heap[o].location \in 0..(Slots - 1)
    BY <1>5, WindowMarked
  <1>7. QED  BY <1>1, <1>5, <1>6, ConstantsAssumption DEF NothingDangles, IsValid, Value

\* What an instruction can read is valid.
LEMMA ReadableValid ==
    ASSUME IInv, Running, NEW v \in Readable
    PROVE  v \in Value /\ IsValid(v)
  <1>1. /\ TypeOK /\ FrameInv /\ OpenUpvaluesOrdered /\ NothingDangles /\ ClosureInv
        /\ frames # <<>>
    BY DEF IInv, Running
  <1>2. CASE v = Nil
    BY <1>2 DEF Value, IsValid
  <1>3. CASE \E r \in Live : v = Reg(r)
    <2>1. PICK r \in Live : v = Reg(r)
      BY <1>3
    <2>2. r \in 0..(FrameSize[FunctionOf(Newest)] - 1)
      BY <1>1, NewestType DEF Live, Frame
    <2>3. QED  BY <1>1, <2>1, <2>2, LiveSlots
  <1>4. CASE \E up \in Range(heap[Newest.closure].upvalues) : v = Through(up)
    <2>1. PICK up \in Range(heap[Newest.closure].upvalues) : v = Through(up)
      BY <1>4
    <2>2. Newest.closure \in Object /\ IsClosure(Newest.closure)
      BY <1>1, NewestType DEF Frame
    <2>3. up \in Object /\ heap[up].kind = "upvalue"
      BY <1>1, <2>1, <2>2, Kinds DEF ClosureInv, Range
    <2>4. CASE heap[up].location = Closed
      <3>1. v = heap[up].closed /\ v \in Value
        BY <1>1, <2>1, <2>3, <2>4, Kinds DEF Through
      <3>2. v # Nil => v \in References(up)
        BY <2>3, <3>1 DEF References
      <3>3. QED  BY <1>1, <2>3, <3>1, <3>2 DEF NothingDangles, IsValid
    <2>5. CASE heap[up].location # Closed
      <3>1. up \in Range(open_upvalues) /\ v = registers[heap[up].location]
        BY <1>1, <2>1, <2>3, <2>5 DEF OpenUpvaluesOrdered, Through
      <3>2. QED  BY <1>1, <3>1, UpvalueSlots
    <2>6. QED  BY <2>4, <2>5
  <1>5. CASE v \in Range(globals) \ {Undefined}
    BY <1>1, <1>5 DEF TypeOK, NothingDangles, Range
  <1>6. QED  BY <1>2, <1>3, <1>4, <1>5 DEF Readable

-----------------------------------------------------------------------------
(* What a step keeps.                                                      *)

\* An object in use stays one of its kind; a closure keeps its function.
Keeps(o) ==
    heap[o].kind # "free" =>
        /\ heap'[o].kind = heap[o].kind
        /\ heap[o].kind = "closure" => heap'[o].function = heap[o].function

\* A value is valid after the step.
ValidNext(v) == v = Nil \/ (v \in Object /\ heap'[v].kind # "free")

LEMMA StaysValid ==
    ASSUME \A o \in Object : Keeps(o), NEW v, IsValid(v)
    PROVE  ValidNext(v)
  BY DEF Keeps, IsValid, ValidNext

\* An allocation changes one free object.
LEMMA FreshObject ==
    ASSUME TypeOK, NEW o \in Object, IsFresh(o), NEW x \in HeapObject,
           heap' = [heap EXCEPT ![o] = x]
    PROVE  /\ heap' \in [Object -> HeapObject]
           /\ heap[o].kind = "free" /\ heap'[o] = x
           /\ \A p \in Object \ {o} : heap'[p] = heap[p]
           /\ \A p \in Object : Keeps(p)
  <1>1. heap \in [Object -> HeapObject] /\ heap[o].kind = "free"
    BY DEF TypeOK, IsFresh, FreeAddresses
  <1>2. QED  BY <1>1 DEF Keeps

\* The newest frame changes only what the compiler knows of it.
LEMMA SameStack ==
    ASSUME TypeOK, FrameInv, frames # <<>>,
           NEW frame \in Frame,
           frame.closure = Newest.closure, frame.base = Newest.base,
           frame.locals <= frame.live, frame.live <= FrameSize[FunctionOf(Newest)],
           frames' = ReplaceNewest(frame),
           \A i \in DOMAIN frames : Keeps(frames[i].closure)
    PROVE  /\ frames' \in Seq(Frame) /\ frames' # <<>> /\ Len(frames') = Len(frames)
           /\ DOMAIN frames' = DOMAIN frames /\ Newest' = frame
           /\ \A i \in DOMAIN frames :
                 /\ frames'[i].closure = frames[i].closure /\ frames'[i].base = frames[i].base
                 /\ i # Len(frames) => frames'[i] = frames[i]
                 /\ IsClosure(frames[i].closure)'
                 /\ FunctionOf(frames[i])' = FunctionOf(frames[i])
                 /\ frames'[i].locals <= frames'[i].live
                 /\ frames'[i].live <= FrameSize[FunctionOf(frames[i])]
                 /\ WindowEnd(frames[i])' = WindowEnd(frames[i])
           /\ MarkedSlots' = MarkedSlots
  <1> DEFINE n == Len(frames)
  <1>1. n \in Nat \ {0} /\ n \in 1..n /\ DOMAIN frames = 1..n
    BY DEF TypeOK
  <1>2. frames' \in Seq(Frame) /\ frames' # <<>> /\ Len(frames') = n /\ DOMAIN frames' = 1..n
    BY Replaced DEF TypeOK
  <1>2a. frames'[n] = frame /\ \A i \in 1..n : i # n => frames'[i] = frames[i]
    <2>1. \A i \in 1..n : frames'[i] = IF i = n THEN frame ELSE frames[i]
      BY Replaced DEF TypeOK
    <2>2. QED  BY <1>1, <2>1
  <1>2b. Newest' = frame /\ Newest = frames[n]
    BY <1>2, <1>2a DEF Newest
  <1>3. ASSUME NEW i \in DOMAIN frames
        PROVE  /\ frames'[i].closure = frames[i].closure /\ frames'[i].base = frames[i].base
               /\ i # Len(frames) => frames'[i] = frames[i]
               /\ IsClosure(frames[i].closure)'
               /\ FunctionOf(frames[i])' = FunctionOf(frames[i])
               /\ frames'[i].locals <= frames'[i].live
               /\ frames'[i].live <= FrameSize[FunctionOf(frames[i])]
               /\ WindowEnd(frames[i])' = WindowEnd(frames[i])
    <2>1. frames'[i].closure = frames[i].closure /\ frames'[i].base = frames[i].base
      BY <1>1, <1>2a, <1>2b
    <2>2. IsClosure(frames[i].closure) /\ Keeps(frames[i].closure)
      BY DEF TypeOK
    <2>3. IsClosure(frames[i].closure)' /\ FunctionOf(frames[i])' = FunctionOf(frames[i])
      BY <2>1, <2>2 DEF IsClosure, FunctionOf, Keeps
    <2>4. frames'[i].locals <= frames'[i].live /\ frames'[i].live <= FrameSize[FunctionOf(frames[i])]
      BY <1>1, <1>2a, <1>2b DEF TypeOK
    <2>5. WindowEnd(frames[i])' = WindowEnd(frames[i])
      BY <2>1, <2>3 DEF WindowEnd, FunctionOf
    <2>6. i # Len(frames) => frames'[i] = frames[i]
      BY <1>1, <1>2a
    <2>7. QED  BY <2>1, <2>3, <2>4, <2>5, <2>6
  <1>4. MarkedSlots' = MarkedSlots
    BY <1>1, <1>2, <1>3 DEF MarkedSlots, SlotsOf
  <1>5. QED  BY <1>1, <1>2, <1>2b, <1>3, <1>4

\* Then the frames fit as before.
LEMMA SameStackFits ==
    ASSUME TypeOK, FrameInv, frames # <<>>,
           NEW frame \in Frame,
           frame.closure = Newest.closure, frame.base = Newest.base,
           frame.locals <= frame.live, frame.live <= FrameSize[FunctionOf(Newest)],
           frames' = ReplaceNewest(frame),
           \A i \in DOMAIN frames :
               Keeps(frames[i].closure) /\ frames[i].closure # building',
           uncounted_frames' = uncounted_frames
    PROVE  /\ FrameInv'
           /\ \A i \in DOMAIN frames' :
                 /\ IsClosure(frames[i].closure)'
                 /\ frames'[i].locals <= frames'[i].live
                 /\ frames'[i].live <= FrameSize[FunctionOf(frames[i])']
  <1>1. /\ frames' \in Seq(Frame) /\ Len(frames') = Len(frames) /\ DOMAIN frames' = DOMAIN frames
        /\ \A i \in DOMAIN frames :
              /\ frames'[i].closure = frames[i].closure /\ frames'[i].base = frames[i].base
              /\ i # Len(frames) => frames'[i] = frames[i]
              /\ IsClosure(frames[i].closure)'
              /\ FunctionOf(frames[i])' = FunctionOf(frames[i])
              /\ frames'[i].locals <= frames'[i].live
              /\ frames'[i].live <= FrameSize[FunctionOf(frames[i])]
              /\ WindowEnd(frames[i])' = WindowEnd(frames[i])
    BY SameStack
  <1>2. /\ Len(frames) \in Nat /\ DOMAIN frames = 1..Len(frames)
        /\ Len(frames) <= MaxCallDepth + uncounted_frames
    BY DEF TypeOK, FrameInv
  <1>3. ASSUME NEW i \in DOMAIN frames
        PROVE  /\ WindowEnd(frames[i])' <= Slots
               /\ frames'[i].closure # building'
               /\ i > 1 => frames'[i].base = frames'[i - 1].base + frames'[i - 1].live
    <2>1. WindowEnd(frames[i])' <= Slots /\ frames'[i].closure # building'
      BY <1>1 DEF FrameInv
    <2>2. ASSUME i > 1
          PROVE  frames'[i].base = frames'[i - 1].base + frames'[i - 1].live
      <3>1. i - 1 \in DOMAIN frames /\ i - 1 # Len(frames)
        BY <1>2, <2>2
      <3>2. frames'[i].base = frames[i].base /\ frames'[i - 1] = frames[i - 1]
        BY <1>1, <3>1
      <3>3. QED  BY <2>2, <3>2 DEF FrameInv
    <2>3. QED  BY <2>1, <2>2
  <1>4. FrameInv'
    BY <1>1, <1>2, <1>3 DEF FrameInv
  <1>5. QED  BY <1>1, <1>4

\* A step that adds no closure and changes none.
LEMMA ClosuresStay ==
    ASSUME TypeOK, ClosureInv, building' = building,
           \A c \in Object : heap'[c].kind = "closure" => heap'[c] = heap[c],
           \A o \in Object : heap[o].kind = "upvalue" => heap'[o].kind = "upvalue"
    PROVE  ClosureInv'
  <1> SUFFICES ASSUME NEW c \in Object, heap'[c].kind = "closure"
               PROVE  /\ \A i \in DOMAIN heap'[c].upvalues :
                            heap'[heap'[c].upvalues[i]].kind = "upvalue"
                      /\ c # building' =>
                            Len(heap'[c].upvalues) = Len(Captures[heap'[c].function])
                      /\ c = building' =>
                            Len(heap'[c].upvalues) < Len(Captures[heap'[c].function])
    BY DEF ClosureInv, IsClosure
  <1>1. heap'[c] = heap[c] /\ IsClosure(c)
    BY DEF IsClosure
  <1>2. heap[c].upvalues \in Seq(Object)
    BY <1>1, Kinds
  <1>3. \A i \in DOMAIN heap[c].upvalues :
           heap[c].upvalues[i] \in Object /\ heap[heap[c].upvalues[i]].kind = "upvalue"
    BY <1>1, <1>2 DEF ClosureInv
  <1>4. QED  BY <1>1, <1>3 DEF ClosureInv

\* The list and what it holds stay, and no frame loses a variable.
LEMMA UpvaluesStay ==
    ASSUME TypeOK, OpenUpvaluesOrdered, NothingDangles,
           open_upvalues' = open_upvalues,
           \A o \in Range(open_upvalues) : heap'[o].location = heap[o].location,
           \A o \in Object : heap'[o].kind = "upvalue" /\ heap'[o].location # Closed =>
               heap[o].kind = "upvalue" /\ heap[o].location # Closed,
           DOMAIN frames \subseteq DOMAIN frames',
           \A i \in DOMAIN frames :
               /\ frames'[i] \in Frame /\ frames'[i].base = frames[i].base
               /\ frames[i].locals <= frames'[i].locals
    PROVE  OpenUpvaluesOrdered'
  <1>1. \A i \in DOMAIN open_upvalues : open_upvalues[i] \in Range(open_upvalues)
    BY DEF Range
  <1>2. \A i, j \in DOMAIN open_upvalues' :
           i < j => heap'[open_upvalues'[i]].location > heap'[open_upvalues'[j]].location
    BY <1>1 DEF OpenUpvaluesOrdered
  <1>3. \A o \in Object : heap'[o].kind = "upvalue" /\ heap'[o].location # Closed =>
                              o \in Range(open_upvalues')
    BY DEF OpenUpvaluesOrdered
  <1>4. ASSUME NEW o \in Range(open_upvalues')
        PROVE  \E i \in DOMAIN frames' :
                  heap'[o].location \in frames'[i].base..(frames'[i].base + frames'[i].locals - 1)
    <2>1. PICK i \in DOMAIN frames :
              heap[o].location \in frames[i].base..(frames[i].base + frames[i].locals - 1)
      BY DEF OpenUpvaluesOrdered
    <2>2. frames[i] \in Frame /\ frames'[i] \in Frame
      BY DEF TypeOK
    <2>3. heap'[o].location \in frames'[i].base..(frames'[i].base + frames'[i].locals - 1)
      BY <2>1, <2>2 DEF Frame
    <2>4. QED  BY <2>3
  <1>5. QED  BY <1>2, <1>3, <1>4 DEF OpenUpvaluesOrdered

\* The frames, if nothing of the newest one changes.
LEMMA SameNewest ==
    ASSUME TypeOK, frames # <<>>
    PROVE  ReplaceNewest(Newest) = frames
  <1>1. frames \in Seq(Frame) /\ Len(frames) \in DOMAIN frames
    BY DEF TypeOK
  <1>2. QED  BY <1>1 DEF ReplaceNewest, Newest

\* A valid value goes to a register in use, or to the next.
LEMMA WriteHolds ==
    ASSUME IInv, Running, NEW r \in Destination, NEW v \in Value, ValidNext(v),
           \A o \in Object : Keeps(o), Write(r, v)
    PROVE  /\ registers' \in [0..(Slots - 1) -> Value \cup {Junk}]
           /\ \A s \in MarkedSlots : ValidNext(registers'[s])
           /\ \E frame \in Frame :
                 /\ frame.closure = Newest.closure /\ frame.base = Newest.base
                 /\ Newest.locals <= frame.locals /\ frame.locals <= frame.live
                 /\ frame.live <= FrameSize[FunctionOf(Newest)]
                 /\ frames' = ReplaceNewest(frame)
  <1>1. TypeOK /\ FrameInv /\ NothingDangles /\ frames # <<>>
    BY DEF IInv, Running
  <1>2. /\ Newest \in Frame /\ FrameSize[FunctionOf(Newest)] \in Nat
        /\ Newest.locals <= Newest.live /\ Newest.live <= FrameSize[FunctionOf(Newest)]
        /\ Newest.base + FrameSize[FunctionOf(Newest)] <= Slots
    BY <1>1, NewestType
  <1>3. r \in 0..(FrameSize[FunctionOf(Newest)] - 1) /\ r \in 0..Newest.live
    BY <1>2 DEF Destination, Frame
  <1>4. registers' = [registers EXCEPT ![Newest.base + r] = v] /\ Newest.base + r \in 1..(Slots - 1)
    BY <1>1, <1>3, LiveSlots DEF Write
  <1>5. registers' \in [0..(Slots - 1) -> Value \cup {Junk}]
    BY <1>1, <1>4 DEF TypeOK
  <1>6. ASSUME NEW s \in MarkedSlots
        PROVE  ValidNext(registers'[s])
    <2>1. IsValid(registers[s])
      BY <1>1 DEF NothingDangles
    <2>2. ValidNext(registers[s])
      BY <2>1, StaysValid
    <2>3. registers'[s] \in {registers[s], v} \/ s \notin DOMAIN registers
      BY <1>1, <1>4 DEF TypeOK
    <2>4. DOMAIN registers = 0..(Slots - 1)
      BY <1>1 DEF TypeOK
    <2>5. s \in 0..(Slots - 1)
      BY <1>1, MarkedInFile
    <2>6. QED  BY <2>2, <2>3, <2>4, <2>5
  <1>7. \E frame \in Frame :
           /\ frame.closure = Newest.closure /\ frame.base = Newest.base
           /\ Newest.locals <= frame.locals /\ frame.locals <= frame.live
           /\ frame.live <= FrameSize[FunctionOf(Newest)]
           /\ frames' = ReplaceNewest(frame)
    <2>1. CASE r = Newest.live
      <3> DEFINE frame == [Newest EXCEPT !.live = @ + 1]
      <3>1. Newest.live + 1 \in 0..Slots /\ Newest.live + 1 <= FrameSize[FunctionOf(Newest)]
        BY <1>2, <1>3, <2>1, ConstantsAssumption DEF Frame
      <3>2. frame \in Frame /\ frame.closure = Newest.closure /\ frame.base = Newest.base
        BY <1>2, <3>1 DEF Frame
      <3>3. frame.locals = Newest.locals /\ frame.live = Newest.live + 1
        BY <1>2 DEF Frame
      <3>4. Newest.locals <= frame.locals /\ frame.locals <= frame.live
        BY <1>2, <3>3 DEF Frame
      <3>5. frames' = ReplaceNewest(frame)
        BY <2>1 DEF Write
      <3>6. QED  BY <3>1, <3>2, <3>3, <3>4, <3>5
    <2>2. CASE r # Newest.live
      <3>1. frames' = ReplaceNewest(Newest)
        BY <1>1, <2>2, SameNewest DEF Write
      <3>2. Newest.locals <= Newest.locals
        BY <1>2 DEF Frame
      <3>3. QED  BY <1>2, <3>1, <3>2
    <2>3. QED  BY <2>1, <2>2
  <1>8. QED  BY <1>5, <1>6, <1>7

\* A step that adds no closure and no upvalue, and writes valid values.
LEMMA PlainHolds ==
    ASSUME IInv, Running,
           NEW frame \in Frame,
           frame.closure = Newest.closure, frame.base = Newest.base,
           Newest.locals <= frame.locals, frame.locals <= frame.live,
           frame.live <= FrameSize[FunctionOf(Newest)],
           frames' = ReplaceNewest(frame),
           UNCHANGED <<uncounted_frames, open_upvalues, building>>,
           registers' \in [0..(Slots - 1) -> Value \cup {Junk}],
           \A s \in MarkedSlots : ValidNext(registers'[s]),
           globals' \in [Global -> Value \cup {Undefined}],
           \A n \in Global : globals'[n] = Undefined \/ ValidNext(globals'[n]),
           heap' \in [Object -> HeapObject],
           \A o \in Object :
               /\ Keeps(o)
               /\ heap'[o].kind = "closure" => heap'[o] = heap[o]
               /\ heap'[o].kind = "upvalue" =>
                     heap[o].kind = "upvalue" /\ heap'[o].location = heap[o].location
               /\ \A p \in References(o)' : ValidNext(p)
    PROVE  IInv'
  <1>1. /\ TypeOK /\ ClosureInv /\ FrameInv /\ OpenUpvaluesOrdered /\ NothingDangles
        /\ frames # <<>> /\ building = None
    BY DEF IInv, Running
  <1>2. ASSUME NEW i \in DOMAIN frames
        PROVE  Keeps(frames[i].closure) /\ frames[i].closure # building'
    <2>1. frames[i].closure \in Object /\ frames[i].closure # building
      BY <1>1 DEF TypeOK, FrameInv, IsClosure
    <2>2. QED  BY <2>1
  <1>3. /\ frames' \in Seq(Frame) /\ DOMAIN frames' = DOMAIN frames /\ Newest' = frame
        /\ MarkedSlots' = MarkedSlots
        /\ \A i \in DOMAIN frames :
              /\ frames'[i].base = frames[i].base
              /\ i # Len(frames) => frames'[i] = frames[i]
    BY <1>1, <1>2, SameStack
  <1>4. /\ FrameInv'
        /\ \A i \in DOMAIN frames' :
              /\ IsClosure(frames[i].closure)'
              /\ frames'[i].locals <= frames'[i].live
              /\ frames'[i].live <= FrameSize[FunctionOf(frames[i])']
    BY <1>1, <1>2, SameStackFits
  <1>5. TypeOK'
    BY <1>1, <1>3, <1>4 DEF TypeOK
  <1>6. ClosureInv'
    <2>1. \A o \in Object : heap[o].kind = "upvalue" => heap'[o].kind = "upvalue"
      BY DEF Keeps
    <2>2. QED  BY <1>1, <2>1, ClosuresStay
  <1>7. BuildingInv'
    BY <1>1 DEF BuildingInv
  <1>8. OpenUpvaluesOrdered'
    <2>1. \A o \in Range(open_upvalues) : heap'[o].location = heap[o].location
      <3>1. \A o \in Range(open_upvalues) : o \in Object /\ heap[o].kind = "upvalue"
        BY <1>1, UpvalueSlots
      <3>2. QED  BY <3>1 DEF Keeps
    <2>2. ASSUME NEW i \in DOMAIN frames
          PROVE  frames'[i] \in Frame /\ frames[i].locals <= frames'[i].locals
      <3>1. frames[i] \in Frame /\ frames'[i] \in Frame
        BY <1>1, <1>3 DEF TypeOK
      <3>2. CASE i = Len(frames)
        BY <1>3, <3>1, <3>2 DEF Newest
      <3>3. CASE i # Len(frames)
        BY <1>3, <3>1, <3>3 DEF Frame
      <3>4. QED  BY <3>2, <3>3
    <2>3. QED  BY <1>1, <1>3, <2>1, <2>2, UpvaluesStay
  <1>9. NothingDangles'
    <2>1. \A i \in DOMAIN open_upvalues' : heap'[open_upvalues'[i]].kind = "upvalue"
      <3>1. \A i \in DOMAIN open_upvalues :
               open_upvalues[i] \in Object /\ heap[open_upvalues[i]].kind = "upvalue"
        BY <1>1 DEF TypeOK, NothingDangles
      <3>2. QED  BY <3>1 DEF Keeps
    <2>2. \A s \in MarkedSlots' : IsValid(registers[s])'
      BY <1>3 DEF IsValid, ValidNext
    <2>3. \A n \in Global : globals'[n] = Undefined \/ IsValid(globals[n])'
      BY DEF IsValid, ValidNext
    <2>4. \A o \in Object : \A p \in References(o)' : IsValid(p)'
      BY DEF IsValid, ValidNext
    <2>5. QED  BY <1>1, <1>4, <2>1, <2>2, <2>3, <2>4 DEF NothingDangles
  <1>10. QED  BY <1>4, <1>5, <1>6, <1>7, <1>8, <1>9 DEF IInv

-----------------------------------------------------------------------------
(* The instructions that move values.                                      *)

\* Nothing happens to the heap.
LEMMA SameHeap ==
    ASSUME IInv, UNCHANGED heap
    PROVE  /\ heap' \in [Object -> HeapObject]
           /\ \A o \in Object :
                 /\ Keeps(o)
                 /\ heap'[o] = heap[o]
                 /\ \A p \in References(o)' : ValidNext(p)
  <1>1. heap' \in [Object -> HeapObject]
    BY DEF IInv, TypeOK
  <1>2. ASSUME NEW o \in Object
        PROVE  Keeps(o) /\ heap'[o] = heap[o] /\ \A p \in References(o)' : ValidNext(p)
    <2>1. Keeps(o) /\ heap'[o] = heap[o]
      BY DEF Keeps
    <2>2. References(o)' = References(o)
      BY DEF References
    <2>3. \A p \in References(o) : ValidNext(p)
      BY DEF IInv, NothingDangles, IsValid, ValidNext
    <2>4. QED  BY <2>1, <2>2, <2>3
  <1>3. QED  BY <1>1, <1>2

\* Nothing happens to the registers, or to the globals.
LEMMA SameRegisters ==
    ASSUME IInv, UNCHANGED registers, \A o \in Object : Keeps(o)
    PROVE  /\ registers' \in [0..(Slots - 1) -> Value \cup {Junk}]
           /\ \A s \in MarkedSlots : ValidNext(registers'[s])
  <1>1. registers' \in [0..(Slots - 1) -> Value \cup {Junk}]
    BY DEF IInv, TypeOK
  <1>2. \A s \in MarkedSlots : ValidNext(registers[s])
    BY StaysValid DEF IInv, NothingDangles
  <1>3. QED  BY <1>1, <1>2

LEMMA SameGlobals ==
    ASSUME IInv, UNCHANGED globals, \A o \in Object : Keeps(o)
    PROVE  /\ globals' \in [Global -> Value \cup {Undefined}]
           /\ \A n \in Global : globals'[n] = Undefined \/ ValidNext(globals'[n])
  <1>1. globals' \in [Global -> Value \cup {Undefined}]
    BY DEF IInv, TypeOK
  <1>2. \A n \in Global : globals[n] = Undefined \/ ValidNext(globals[n])
    BY StaysValid DEF IInv, NothingDangles
  <1>3. QED  BY <1>1, <1>2

LEMMA NewestFrame ==
    ASSUME IInv, Running
    PROVE  /\ TypeOK /\ FrameInv /\ ClosureInv /\ OpenUpvaluesOrdered /\ NothingDangles
           /\ frames # <<>> /\ building = None
           /\ Newest \in Frame /\ FrameSize[FunctionOf(Newest)] \in Nat
           /\ Newest.locals <= Newest.locals
           /\ Newest.locals <= Newest.live /\ Newest.live <= FrameSize[FunctionOf(Newest)]
           /\ Live \subseteq 0..(FrameSize[FunctionOf(Newest)] - 1)
           /\ ReplaceNewest(Newest) = frames
  <1>1. TypeOK /\ FrameInv /\ frames # <<>>
    BY DEF IInv, Running
  <1>2. /\ Newest \in Frame /\ FrameSize[FunctionOf(Newest)] \in Nat
        /\ Newest.locals <= Newest.live /\ Newest.live <= FrameSize[FunctionOf(Newest)]
    BY <1>1, NewestType
  <1>3. Newest.locals \in Nat /\ Newest.live \in Nat
    BY <1>2 DEF Frame
  <1>4. Live \subseteq 0..(FrameSize[FunctionOf(Newest)] - 1)
    BY <1>2, <1>3 DEF Live
  <1>5. ReplaceNewest(Newest) = frames
    BY <1>1, SameNewest
  <1>6. QED  BY <1>1, <1>2, <1>3, <1>4, <1>5 DEF IInv, Running

LEMMA LoadHolds ==
    ASSUME IInv, NEW r, NEW v, Load(r, v)
    PROVE  IInv'
  <1>1. /\ Running /\ r \in Destination /\ v \in Readable /\ Write(r, v)
        /\ UNCHANGED <<uncounted_frames, open_upvalues, globals, heap, building>>
    BY DEF Load
  <1>2. \A o \in Object : Keeps(o)
    BY <1>1, SameHeap
  <1>3. v \in Value /\ ValidNext(v)
    BY <1>1, <1>2, ReadableValid, StaysValid
  <1>4. PICK frame \in Frame :
           /\ frame.closure = Newest.closure /\ frame.base = Newest.base
           /\ Newest.locals <= frame.locals /\ frame.locals <= frame.live
           /\ frame.live <= FrameSize[FunctionOf(Newest)]
           /\ frames' = ReplaceNewest(frame)
    BY <1>1, <1>2, <1>3, WriteHolds
  <1>5. /\ registers' \in [0..(Slots - 1) -> Value \cup {Junk}]
        /\ \A s \in MarkedSlots : ValidNext(registers'[s])
    BY <1>1, <1>2, <1>3, WriteHolds
  <1>6. QED  BY <1>1, <1>2, <1>4, <1>5, SameHeap, SameGlobals, PlainHolds

LEMMA NewDataHolds ==
    ASSUME IInv, NEW r, NEW o \in Object, NewData(r, o)
    PROVE  IInv'
  <1>1. /\ Running /\ r \in Destination /\ IsFresh(o) /\ Write(r, o)
        /\ heap' = [heap EXCEPT ![o] = Data]
        /\ UNCHANGED <<uncounted_frames, open_upvalues, globals, building>>
    BY DEF NewData
  <1>2. /\ heap' \in [Object -> HeapObject] /\ heap[o].kind = "free" /\ heap'[o] = Data
        /\ \A p \in Object \ {o} : heap'[p] = heap[p]
        /\ \A p \in Object : Keeps(p)
    <2>1. Data \in HeapObject
      BY DEF HeapObject
    <2>2. QED  BY <1>1, <2>1, FreshObject DEF IInv
  <1>3. o \in Value /\ ValidNext(o)
    BY <1>2 DEF Value, ValidNext, Data
  <1>4. PICK frame \in Frame :
           /\ frame.closure = Newest.closure /\ frame.base = Newest.base
           /\ Newest.locals <= frame.locals /\ frame.locals <= frame.live
           /\ frame.live <= FrameSize[FunctionOf(Newest)]
           /\ frames' = ReplaceNewest(frame)
    BY <1>1, <1>2, <1>3, WriteHolds
  <1>5. /\ registers' \in [0..(Slots - 1) -> Value \cup {Junk}]
        /\ \A s \in MarkedSlots : ValidNext(registers'[s])
    BY <1>1, <1>2, <1>3, WriteHolds
  <1>6. ASSUME NEW p \in Object
        PROVE  /\ Keeps(p)
               /\ heap'[p].kind = "closure" => heap'[p] = heap[p]
               /\ heap'[p].kind = "upvalue" =>
                     heap[p].kind = "upvalue" /\ heap'[p].location = heap[p].location
               /\ \A q \in References(p)' : ValidNext(q)
    <2>1. CASE p = o
      BY <1>2, <2>1 DEF Data, References
    <2>2. CASE p # o
      <3>1. heap'[p] = heap[p]
        BY <1>2, <2>2
      <3>2. References(p)' = References(p)
        BY <3>1 DEF References
      <3>3. \A q \in References(p) : ValidNext(q)
        BY <1>2, StaysValid DEF IInv, NothingDangles
      <3>4. QED  BY <1>2, <3>1, <3>2, <3>3
    <2>3. QED  BY <2>1, <2>2
  <1>7. QED  BY <1>1, <1>2, <1>4, <1>5, <1>6, SameGlobals, PlainHolds

LEMMA SetGlobalHolds ==
    ASSUME IInv, NEW n \in Global, NEW r, SetGlobal(n, r)
    PROVE  IInv'
  <1>1. /\ Running /\ r \in Live /\ globals' = [globals EXCEPT ![n] = Reg(r)]
        /\ UNCHANGED <<registers, frames, uncounted_frames, open_upvalues, heap, building>>
    BY DEF SetGlobal
  <1>2. \A o \in Object : Keeps(o)
    BY <1>1, SameHeap
  <1>3. Reg(r) \in Value /\ ValidNext(Reg(r))
    <2>1. Reg(r) \in Value /\ IsValid(Reg(r))
      BY <1>1, NewestFrame, LiveSlots
    <2>2. QED  BY <1>2, <2>1, StaysValid
  <1>4. /\ globals' \in [Global -> Value \cup {Undefined}]
        /\ \A m \in Global : globals'[m] = Undefined \/ ValidNext(globals'[m])
    <2>1. globals \in [Global -> Value \cup {Undefined}]
      BY DEF IInv, TypeOK
    <2>2. \A m \in Global : globals[m] = Undefined \/ ValidNext(globals[m])
      BY <1>2, StaysValid DEF IInv, NothingDangles
    <2>3. QED  BY <1>1, <1>3, <2>1, <2>2
  <1>5. QED  BY <1>1, <1>2, <1>4, NewestFrame, SameHeap, SameRegisters, PlainHolds

LEMMA SetUpvalueHolds ==
    ASSUME IInv, NEW i, NEW r, SetUpvalue(i, r)
    PROVE  IInv'
  <1> DEFINE up == heap[Newest.closure].upvalues[i]
             v == Reg(r)
  <1>1. /\ Running /\ r \in Live /\ i \in DOMAIN heap[Newest.closure].upvalues
        /\ UNCHANGED <<frames, uncounted_frames, open_upvalues, globals, building>>
        /\ IF heap[up].location = Closed
           THEN heap' = [heap EXCEPT ![up].closed = v] /\ UNCHANGED registers
           ELSE registers' = [registers EXCEPT ![heap[up].location] = v] /\ UNCHANGED heap
    BY DEF SetUpvalue
  <1>2. v \in Value /\ IsValid(v)
    BY <1>1, NewestFrame, LiveSlots
  <1>3. up \in Object /\ heap[up].kind = "upvalue"
    <2>1. Newest.closure \in Object /\ IsClosure(Newest.closure)
      BY <1>1, NewestFrame, NewestType DEF Frame
    <2>2. heap[Newest.closure].upvalues \in Seq(Object)
      BY <1>1, <2>1, NewestFrame, Kinds
    <2>3. QED  BY <1>1, <2>1, <2>2, NewestFrame DEF ClosureInv
  <1>4. frames' = ReplaceNewest(Newest)
    BY <1>1, NewestFrame
  <1>5. CASE heap[up].location = Closed
    <2>1. heap' = [heap EXCEPT ![up] = [heap[up] EXCEPT !.closed = v]] /\ UNCHANGED registers
      BY <1>1, <1>5
    <2>2. heap \in [Object -> HeapObject] /\ NothingDangles
      BY DEF IInv, TypeOK
    <2>3. heap[up] \in [kind : {"upvalue"}, location : 0..(Slots - 1) \cup {Closed}, closed : Value]
      BY <1>3, Kinds DEF IInv
    <2>4. /\ heap'[up] \in HeapObject /\ heap'[up].kind = "upvalue"
          /\ heap'[up].location = heap[up].location /\ heap'[up].closed = v
          /\ \A p \in Object \ {up} : heap'[p] = heap[p]
      BY <1>2, <1>3, <2>1, <2>2, <2>3 DEF HeapObject
    <2>5. heap' \in [Object -> HeapObject]
      BY <1>3, <2>1, <2>2, <2>4
    <2>6. \A p \in Object : Keeps(p)
      BY <1>3, <2>4 DEF Keeps
    <2>7. ASSUME NEW p \in Object
          PROVE  /\ heap'[p].kind = "closure" => heap'[p] = heap[p]
                 /\ heap'[p].kind = "upvalue" =>
                       heap[p].kind = "upvalue" /\ heap'[p].location = heap[p].location
                 /\ \A q \in References(p)' : ValidNext(q)
      <3>1. CASE p = up
        BY <1>2, <1>3, <2>4, <2>6, <3>1, StaysValid DEF References
      <3>2. CASE p # up
        <4>1. heap'[p] = heap[p] /\ References(p)' = References(p)
          BY <2>4, <3>2 DEF References
        <4>2. \A q \in References(p) : ValidNext(q)
          BY <2>2, <2>6, StaysValid DEF NothingDangles
        <4>3. QED  BY <4>1, <4>2
      <3>3. QED  BY <3>1, <3>2
    <2>8. QED
      BY <1>1, <1>4, <2>1, <2>5, <2>6, <2>7, NewestFrame, SameRegisters, SameGlobals, PlainHolds
  <1>6. CASE heap[up].location # Closed
    <2>1. registers' = [registers EXCEPT ![heap[up].location] = v] /\ UNCHANGED heap
      BY <1>1, <1>6
    <2>2. \A o \in Object : Keeps(o)
      BY <2>1, SameHeap
    <2>3. up \in Range(open_upvalues)
      BY <1>3, <1>6 DEF IInv, OpenUpvaluesOrdered
    <2>4. heap[up].location \in 0..(Slots - 1)
      BY <2>3, UpvalueSlots DEF IInv
    <2>5. registers \in [0..(Slots - 1) -> Value \cup {Junk}]
      BY DEF IInv, TypeOK
    <2>6. registers' \in [0..(Slots - 1) -> Value \cup {Junk}]
      BY <1>2, <2>1, <2>4, <2>5
    <2>7. ASSUME NEW s \in MarkedSlots
          PROVE  ValidNext(registers'[s])
      <3>1. s \in 0..(Slots - 1) /\ IsValid(registers[s])
        BY MarkedInFile DEF IInv, NothingDangles
      <3>2. registers'[s] = registers[s] \/ registers'[s] = v
        BY <2>1, <2>4, <2>5, <3>1
      <3>3. QED  BY <1>2, <2>2, <3>1, <3>2, StaysValid
    <2>8. QED
      BY <1>1, <1>4, <2>1, <2>2, <2>6, <2>7, NewestFrame, SameHeap, SameGlobals, PlainHolds
  <1>7. QED  BY <1>5, <1>6

\* What the compiler does between instructions changes the newest frame only.
LEMMA DeclareLocalHolds ==
    ASSUME IInv, DeclareLocal
    PROVE  IInv'
  <1> DEFINE frame == [Newest EXCEPT !.locals = @ + 1]
  <1>1. /\ Running /\ Newest.live = Newest.locals + 1 /\ frames' = ReplaceNewest(frame)
        /\ UNCHANGED <<registers, uncounted_frames, open_upvalues, globals, heap, building>>
    BY DEF DeclareLocal
  <1>2. /\ Newest \in Frame /\ Newest.locals \in Nat
        /\ Newest.live \in 0..Slots /\ Newest.live <= FrameSize[FunctionOf(Newest)]
    BY <1>1, NewestFrame DEF Frame
  <1>3. Newest.locals + 1 \in 0..Slots
    BY <1>1, <1>2
  <1>4. /\ frame \in Frame /\ frame.closure = Newest.closure /\ frame.base = Newest.base
        /\ frame.locals = Newest.locals + 1 /\ frame.live = Newest.live
    BY <1>2, <1>3 DEF Frame
  <1>5. Newest.locals <= frame.locals /\ frame.locals <= frame.live
    BY <1>1, <1>2, <1>4
  <1>6. QED
    BY <1>1, <1>2, <1>4, <1>5, SameHeap, SameRegisters, SameGlobals, PlainHolds

LEMMA FreeTemporariesHolds ==
    ASSUME IInv, NEW k, FreeTemporaries(k)
    PROVE  IInv'
  <1> DEFINE frame == [Newest EXCEPT !.live = k]
  <1>1. /\ Running /\ k \in Newest.locals..(Newest.live - 1) /\ frames' = ReplaceNewest(frame)
        /\ UNCHANGED <<registers, uncounted_frames, open_upvalues, globals, heap, building>>
    BY DEF FreeTemporaries
  <1>2. /\ Newest \in Frame /\ Newest.locals \in Nat /\ Newest.live \in 0..Slots
        /\ Newest.live <= FrameSize[FunctionOf(Newest)] /\ FrameSize[FunctionOf(Newest)] \in Nat
    BY <1>1, NewestFrame DEF Frame
  <1>3. k \in 0..Slots /\ k <= FrameSize[FunctionOf(Newest)] /\ Newest.locals <= k
    BY <1>1, <1>2, ConstantsAssumption
  <1>4. /\ frame \in Frame /\ frame.closure = Newest.closure /\ frame.base = Newest.base
        /\ frame.locals = Newest.locals /\ frame.live = k
    BY <1>2, <1>3 DEF Frame
  <1>5. Newest.locals <= frame.locals /\ frame.locals <= frame.live
    BY <1>2, <1>3, <1>4
  <1>6. QED
    BY <1>1, <1>3, <1>4, <1>5, SameHeap, SameRegisters, SameGlobals, PlainHolds

-----------------------------------------------------------------------------
(* close_upvalues.                                                         *)

\* The list is cut where the walk stops: what leaves it was at or above
\* `last`, and what stays is below.
LEMMA ListCut ==
    ASSUME TypeOK, FrameInv, OpenUpvaluesOrdered, NothingDangles, NEW last \in Int
    PROVE  /\ StillOpen(last) \in Seq(Object)
           /\ Leaving(last) \subseteq Range(open_upvalues)
           /\ Range(StillOpen(last)) \subseteq Range(open_upvalues)
           /\ Range(open_upvalues) \subseteq Leaving(last) \cup Range(StillOpen(last))
           /\ \A o \in Leaving(last) : heap[o].location >= last
           /\ \A o \in Range(StillOpen(last)) : heap[o].location < last
           /\ \A i, j \in DOMAIN StillOpen(last) :
                 i < j => heap[StillOpen(last)[i]].location > heap[StillOpen(last)[j]].location
  <1> DEFINE n == Len(open_upvalues)
             a == Above(last - 1)
             rest == StillOpen(last)
             At(i) == heap[open_upvalues[i]].location
  <1>1. /\ n \in Nat /\ DOMAIN open_upvalues = 1..n /\ open_upvalues \in Seq(Object)
        /\ a \in 0..n /\ Passed(last - 1) = 1..a
    <2>1. a \in 0..n /\ Passed(last - 1) = 1..a
      BY PassedPrefix
    <2>2. QED  BY <2>1 DEF TypeOK
  <1>2. \A i \in 1..n : At(i) \in 1..(Slots - 1) /\ Slots \in Nat
    <2>1. \A i \in 1..n : open_upvalues[i] \in Range(open_upvalues)
      BY <1>1 DEF Range
    <2>2. QED  BY <2>1, UpvalueSlots, ConstantsAssumption
  <1>3. /\ rest \in Seq(Object) /\ DOMAIN rest = 1..(n - a)
        /\ \A i \in 1..(n - a) : rest[i] = open_upvalues[i + a]
    BY <1>1, SMTT(30) DEF StillOpen
  <1>4. \A i \in 1..a : At(i) > last - 1
    <2>1. \A o \in Range(open_upvalues) : heap[o].location \in Int
      BY UpvalueSlots
    <2>2. QED  BY <2>1, WalkStops
  <1>5. a < n => At(a + 1) <= last - 1
    <2>1. \A o \in Range(open_upvalues) : heap[o].location \in Int
      BY UpvalueSlots
    <2>2. QED  BY <2>1, WalkStops
  <1>6. \A i, j \in 1..n : i < j => At(i) > At(j)
    BY <1>1 DEF OpenUpvaluesOrdered
  <1>7. \A i \in (a + 1)..n : At(i) < last
    <2>1. ASSUME NEW i \in (a + 1)..n
          PROVE  At(i) < last
      <3>1. a + 1 \in 1..n /\ i \in 1..n /\ a < n
        BY <1>1
      <3>2. i = a + 1 \/ At(a + 1) > At(i)
        BY <1>6, <3>1
      <3>3. At(i) \in Int /\ At(a + 1) \in Int
        BY <1>2, <3>1
      <3>4. QED  BY <1>5, <3>1, <3>2, <3>3
    <2>2. QED  BY <2>1
  <1>8. Leaving(last) = {open_upvalues[i] : i \in 1..a}
    BY <1>1 DEF Leaving
  <1>9. \A o \in Leaving(last) : o \in Range(open_upvalues) /\ heap[o].location >= last
    <2>1. ASSUME NEW o \in Leaving(last)
          PROVE  o \in Range(open_upvalues) /\ heap[o].location >= last
      <3>1. PICK i \in 1..a : o = open_upvalues[i]
        BY <1>8
      <3>2. i \in 1..n
        BY <1>1
      <3>3. At(i) > last - 1 /\ At(i) \in Int
        BY <1>2, <1>4, <3>2
      <3>4. QED  BY <1>1, <3>1, <3>2, <3>3 DEF Range
    <2>2. QED  BY <2>1
  <1>10. ASSUME NEW o \in Range(rest)
         PROVE  o \in Range(open_upvalues) /\ heap[o].location < last
    <2>1. PICK i \in 1..(n - a) : o = open_upvalues[i + a]
      BY <1>3 DEF Range
    <2>2. i + a \in (a + 1)..n /\ i + a \in 1..n
      BY <1>1, <2>1
    <2>3. QED  BY <1>1, <1>7, <2>1, <2>2 DEF Range
  <1>11. ASSUME NEW o \in Range(open_upvalues)
         PROVE  o \in Leaving(last) \cup Range(rest)
    <2>1. PICK i \in 1..n : o = open_upvalues[i]
      BY <1>1 DEF Range
    <2>2. CASE i \in 1..a
      BY <1>8, <2>1, <2>2
    <2>3. CASE i \notin 1..a
      <3>1. i - a \in 1..(n - a) /\ rest[i - a] = open_upvalues[i]
        BY <1>1, <1>3, <2>3
      <3>2. QED  BY <1>3, <2>1, <3>1 DEF Range
    <2>4. QED  BY <2>2, <2>3
  <1>12. ASSUME NEW i \in DOMAIN rest, NEW j \in DOMAIN rest, i < j
         PROVE  heap[rest[i]].location > heap[rest[j]].location
    <2>1. /\ rest[i] = open_upvalues[i + a] /\ rest[j] = open_upvalues[j + a]
          /\ i + a \in 1..n /\ j + a \in 1..n /\ i + a < j + a
      BY <1>1, <1>3, <1>12
    <2>2. QED  BY <1>6, <2>1
  <1>13. QED  BY <1>3, <1>9, <1>10, <1>11, <1>12

\* The heap after it: an upvalue that leaves has its value, and the rest is
\* as before.
LEMMA Closing ==
    ASSUME TypeOK, FrameInv, OpenUpvaluesOrdered, NothingDangles, NEW last \in Int,
           CloseUpvalues(last)
    PROVE  /\ open_upvalues' = StillOpen(last)
           /\ heap' \in [Object -> HeapObject]
           /\ \A o \in Object :
                 /\ Keeps(o) /\ heap'[o].kind = heap[o].kind
                 /\ heap'[o].kind = "closure" => heap'[o] = heap[o]
                 /\ heap'[o].kind = "upvalue" /\ heap'[o].location # Closed =>
                       /\ heap'[o].location = heap[o].location
                       /\ o \in Range(StillOpen(last))
                 /\ \A p \in References(o)' : ValidNext(p)
           /\ \A o \in Range(StillOpen(last)) : heap'[o] = heap[o]
  <1>1. /\ open_upvalues' = StillOpen(last)
        /\ heap' = [o \in Object |->
              IF o \in Leaving(last)
              THEN [heap[o] EXCEPT !.closed = registers[heap[o].location], !.location = Closed]
              ELSE heap[o]]
    BY DEF CloseUpvalues, ClosedFrom
  <1>2. ASSUME NEW o \in Leaving(last)
        PROVE  /\ o \in Object /\ heap[o].kind = "upvalue"
               /\ heap'[o] \in HeapObject /\ heap'[o].kind = "upvalue"
               /\ heap'[o].location = Closed
               /\ heap'[o].closed = registers[heap[o].location]
               /\ IsValid(registers[heap[o].location])
    <2>1. o \in Range(open_upvalues)
      BY ListCut
    <2>2. /\ o \in Object /\ heap[o].kind = "upvalue"
          /\ IsValid(registers[heap[o].location]) /\ registers[heap[o].location] \in Value
      BY <2>1, UpvalueSlots
    <2>3. heap[o] \in [kind : {"upvalue"}, location : 0..(Slots - 1) \cup {Closed}, closed : Value]
      BY <2>2, Kinds
    <2>4. heap'[o] = [heap[o] EXCEPT !.closed = registers[heap[o].location], !.location = Closed]
      BY <1>1, <2>2
    <2>5. heap'[o] \in [kind : {"upvalue"}, location : 0..(Slots - 1) \cup {Closed}, closed : Value]
      BY <2>2, <2>3, <2>4
    <2>6. heap'[o].location = Closed /\ heap'[o].closed = registers[heap[o].location]
      BY <2>3, <2>4
    <2>7. QED  BY <2>2, <2>5, <2>6 DEF HeapObject
  <1>3. \A o \in Object : o \notin Leaving(last) => heap'[o] = heap[o]
    BY <1>1
  <1>4. \A o \in Object : Keeps(o) /\ heap'[o].kind = heap[o].kind
    <2>1. \A o \in Leaving(last) : heap[o].kind = "upvalue" /\ heap'[o].kind = "upvalue"
      BY <1>2
    <2>2. QED  BY <1>3, <2>1 DEF Keeps
  <1>5. heap' \in [Object -> HeapObject]
    <2>1. \A o \in Object : heap'[o] \in HeapObject
      BY <1>2, <1>3 DEF TypeOK
    <2>2. heap' = [o \in Object |-> heap'[o]]
      BY <1>1
    <2>3. QED  BY <2>1, <2>2
  <1>6. \A o \in Range(StillOpen(last)) : heap'[o] = heap[o]
    <2>1. ASSUME NEW o \in Range(StillOpen(last))
          PROVE  heap'[o] = heap[o]
      <3>1. o \in Range(open_upvalues) /\ heap[o].location < last
        BY ListCut
      <3>2. o \in Object /\ heap[o].location \in 1..(Slots - 1) /\ Slots \in Nat
        BY <3>1, UpvalueSlots, ConstantsAssumption
      <3>3. o \in Leaving(last) => heap[o].location >= last
        BY ListCut
      <3>4. heap[o].location \in Int /\ ~(heap[o].location >= last)
        BY <3>1, <3>2
      <3>5. QED  BY <1>3, <3>2, <3>3, <3>4
    <2>2. QED  BY <2>1
  <1>7. ASSUME NEW o \in Object
        PROVE  /\ heap'[o].kind = "closure" => heap'[o] = heap[o]
               /\ heap'[o].kind = "upvalue" /\ heap'[o].location # Closed =>
                     /\ heap'[o].location = heap[o].location
                     /\ o \in Range(StillOpen(last))
               /\ \A p \in References(o)' : ValidNext(p)
    <2>1. CASE o \in Leaving(last)
      <3>1. References(o)' = {registers[heap[o].location]} \ {Nil}
        BY <1>2, <2>1 DEF References
      <3>2. \A p \in References(o)' : ValidNext(p)
        BY <1>2, <1>4, <2>1, <3>1, StaysValid
      <3>3. QED  BY <1>2, <2>1, <3>2
    <2>2. CASE o \notin Leaving(last)
      <3>1. heap'[o] = heap[o]
        BY <1>3, <2>2
      <3>2. References(o)' = References(o)
        BY <3>1 DEF References
      <3>3. \A p \in References(o) : ValidNext(p)
        BY <1>4, StaysValid DEF NothingDangles
      <3>4. heap[o].kind = "upvalue" /\ heap[o].location # Closed =>
               o \in Range(StillOpen(last))
        BY <2>2, ListCut DEF OpenUpvaluesOrdered
      <3>5. QED  BY <3>1, <3>2, <3>3, <3>4
    <2>3. QED  BY <2>1, <2>2
  <1>8. QED  BY <1>1, <1>4, <1>5, <1>6, <1>7

\* The list is in order again, if every variable still open is in a frame.
LEMMA OrderedAfterClosing ==
    ASSUME TypeOK, FrameInv, OpenUpvaluesOrdered, NothingDangles, NEW last \in Int,
           CloseUpvalues(last),
           \A o \in Range(StillOpen(last)) : \E i \in DOMAIN frames' :
               heap[o].location \in frames'[i].base..(frames'[i].base + frames'[i].locals - 1)
    PROVE  /\ OpenUpvaluesOrdered'
           /\ open_upvalues' \in Seq(Object)
           /\ \A i \in DOMAIN open_upvalues' : heap'[open_upvalues'[i]].kind = "upvalue"
  <1>1. /\ open_upvalues' = StillOpen(last) /\ StillOpen(last) \in Seq(Object)
        /\ \A o \in Range(StillOpen(last)) : heap'[o] = heap[o]
    BY Closing, ListCut
  <1>2. \A i \in DOMAIN open_upvalues' :
           /\ open_upvalues'[i] \in Range(StillOpen(last))
           /\ heap'[open_upvalues'[i]] = heap[open_upvalues'[i]]
    BY <1>1 DEF Range
  <1>3. \A i, j \in DOMAIN open_upvalues' :
           i < j => heap'[open_upvalues'[i]].location > heap'[open_upvalues'[j]].location
    BY <1>1, <1>2, ListCut
  <1>4. \A o \in Object : heap'[o].kind = "upvalue" /\ heap'[o].location # Closed =>
                              o \in Range(open_upvalues')
    BY <1>1, Closing
  <1>5. \A o \in Range(open_upvalues') : \E i \in DOMAIN frames' :
           heap'[o].location \in frames'[i].base..(frames'[i].base + frames'[i].locals - 1)
    BY <1>1
  <1>6. \A i \in DOMAIN open_upvalues' : heap'[open_upvalues'[i]].kind = "upvalue"
    <2>1. \A o \in Range(StillOpen(last)) : heap[o].kind = "upvalue"
      BY ListCut, UpvalueSlots
    <2>2. QED  BY <1>2, <2>1
  <1>7. QED  BY <1>1, <1>3, <1>4, <1>5, <1>6 DEF OpenUpvaluesOrdered

LEMMA EndScopeHolds ==
    ASSUME IInv, NEW k, EndScope(k)
    PROVE  IInv'
  <1> DEFINE frame == [Newest EXCEPT !.locals = k, !.live = k]
             last == Newest.base + k
  <1>1. /\ Running /\ k \in Arity[FunctionOf(Newest)]..(Newest.locals - 1)
        /\ Newest.live = Newest.locals
        /\ CloseUpvalues(last) /\ frames' = ReplaceNewest(frame)
        /\ UNCHANGED <<registers, uncounted_frames, globals, building>>
    BY DEF EndScope
  <1>2. /\ TypeOK /\ FrameInv /\ ClosureInv /\ OpenUpvaluesOrdered /\ NothingDangles
        /\ frames # <<>> /\ building = None
        /\ Newest \in Frame /\ Newest.base \in Nat /\ Newest.locals \in 0..Slots
        /\ Newest.locals <= FrameSize[FunctionOf(Newest)] /\ FrameSize[FunctionOf(Newest)] \in Nat
        /\ Arity[FunctionOf(Newest)] \in Nat
    BY <1>1, NewestFrame, NewestType DEF Frame
  <1>3. k \in 0..Slots /\ k <= k /\ k <= FrameSize[FunctionOf(Newest)] /\ last \in Int
    BY <1>1, <1>2, ConstantsAssumption
  <1>4. /\ frame \in Frame /\ frame.closure = Newest.closure /\ frame.base = Newest.base
        /\ frame.locals = k /\ frame.live = k
    BY <1>2, <1>3 DEF Frame
  <1>5. /\ heap' \in [Object -> HeapObject]
        /\ \A o \in Object :
              /\ Keeps(o) /\ heap'[o].kind = heap[o].kind
              /\ heap'[o].kind = "closure" => heap'[o] = heap[o]
              /\ \A p \in References(o)' : ValidNext(p)
    BY <1>1, <1>2, <1>3, Closing
  <1>6. ASSUME NEW i \in DOMAIN frames
        PROVE  Keeps(frames[i].closure) /\ frames[i].closure # building'
    <2>1. frames[i].closure \in Object /\ frames[i].closure # building
      BY <1>2 DEF TypeOK, FrameInv, IsClosure
    <2>2. QED  BY <1>1, <1>5, <2>1
  <1>7. /\ frames' \in Seq(Frame) /\ DOMAIN frames' = DOMAIN frames /\ Newest' = frame
        /\ Len(frames') = Len(frames) /\ MarkedSlots' = MarkedSlots
        /\ \A i \in DOMAIN frames :
              /\ frames'[i].base = frames[i].base
              /\ i # Len(frames) => frames'[i] = frames[i]
    <2>1. frame.locals <= frame.live /\ frame.live <= FrameSize[FunctionOf(Newest)]
      BY <1>3, <1>4
    <2>2. QED  BY <1>1, <1>2, <1>4, <1>6, <2>1, SameStack
  <1>8. /\ FrameInv'
        /\ \A i \in DOMAIN frames' :
              /\ IsClosure(frames[i].closure)'
              /\ frames'[i].locals <= frames'[i].live
              /\ frames'[i].live <= FrameSize[FunctionOf(frames[i])']
    <2>1. /\ uncounted_frames' = uncounted_frames /\ frame.locals <= frame.live
          /\ frame.live <= FrameSize[FunctionOf(Newest)]
      BY <1>1, <1>3, <1>4
    <2>2. QED  BY <1>1, <1>2, <1>4, <1>6, <2>1, SameStackFits
  <1>9. ASSUME NEW o \in Range(StillOpen(last))
        PROVE  \E i \in DOMAIN frames' :
                  heap[o].location \in frames'[i].base..(frames'[i].base + frames'[i].locals - 1)
    <2>1. o \in Range(open_upvalues) /\ heap[o].location < last
      BY <1>2, <1>3, ListCut
    <2>2. PICK i \in DOMAIN frames :
              heap[o].location \in frames[i].base..(frames[i].base + frames[i].locals - 1)
      BY <1>2, <2>1 DEF OpenUpvaluesOrdered
    <2>3. CASE i # Len(frames)
      BY <1>7, <2>2, <2>3
    <2>4. CASE i = Len(frames)
      <3>1. frames'[i] = frame
        BY <1>7, <2>4 DEF Newest
      <3>2. frames[i] = Newest
        BY <2>4 DEF Newest
      <3>3. heap[o].location \in frame.base..(frame.base + frame.locals - 1)
        BY <1>2, <1>3, <1>4, <2>1, <2>2, <3>2
      <3>4. QED  BY <1>7, <3>1, <3>3
    <2>5. QED  BY <2>3, <2>4
  <1>10. /\ OpenUpvaluesOrdered' /\ open_upvalues' \in Seq(Object)
         /\ \A i \in DOMAIN open_upvalues' : heap'[open_upvalues'[i]].kind = "upvalue"
    BY <1>1, <1>2, <1>3, <1>9, OrderedAfterClosing
  <1>11. /\ registers' \in [0..(Slots - 1) -> Value \cup {Junk}]
         /\ \A s \in MarkedSlots : ValidNext(registers'[s])
         /\ globals' \in [Global -> Value \cup {Undefined}]
         /\ \A n \in Global : globals'[n] = Undefined \/ ValidNext(globals'[n])
    BY <1>1, <1>5, SameRegisters, SameGlobals
  <1>12. TypeOK'
    BY <1>1, <1>2, <1>5, <1>7, <1>8, <1>10, <1>11 DEF TypeOK
  <1>13. ClosureInv'
    BY <1>1, <1>2, <1>5, ClosuresStay
  <1>14. BuildingInv'
    BY <1>1, <1>2 DEF BuildingInv
  <1>15. NothingDangles'
    <2>1. \A s \in MarkedSlots' : IsValid(registers[s])'
      BY <1>7, <1>11 DEF IsValid, ValidNext
    <2>2. \A n \in Global : globals'[n] = Undefined \/ IsValid(globals[n])'
      BY <1>11 DEF IsValid, ValidNext
    <2>3. \A o \in Object : \A p \in References(o)' : IsValid(p)'
      BY <1>5 DEF IsValid, ValidNext
    <2>4. QED  BY <1>1, <1>2, <1>8, <1>10, <2>1, <2>2, <2>3 DEF NothingDangles
  <1>16. QED  BY <1>8, <1>10, <1>12, <1>13, <1>14, <1>15 DEF IInv

\* The newest frames go, with what was captured of them closed, and the slots
\* beyond the last window go stale.
LEMMA PopHolds ==
    ASSUME IInv, Running,
           NEW last \in Int, CloseUpvalues(last),
           NEW fs \in Seq(Frame), DOMAIN fs \subseteq DOMAIN frames, Len(fs) <= Len(frames),
           \A i \in DOMAIN fs : fs[i] = frames[i], frames' = fs,
           \A o \in Range(StillOpen(last)) : \E i \in DOMAIN fs :
               heap[o].location \in fs[i].base..(fs[i].base + fs[i].locals - 1),
           NEW regs \in [0..(Slots - 1) -> Value \cup {Junk}],
           \A s \in MarkedSlots : IsValid(regs[s]),
           registers' = Settled(regs, fs),
           UNCHANGED <<uncounted_frames, globals, building>>
    PROVE  IInv'
  <1>1. /\ TypeOK /\ FrameInv /\ ClosureInv /\ OpenUpvaluesOrdered /\ NothingDangles
        /\ building = None
    BY DEF IInv, Running
  <1>2. /\ heap' \in [Object -> HeapObject]
        /\ \A o \in Object :
              /\ Keeps(o) /\ heap'[o].kind = heap[o].kind
              /\ heap'[o].kind = "closure" => heap'[o] = heap[o]
              /\ \A p \in References(o)' : ValidNext(p)
    BY <1>1, Closing
  <1>3. /\ OpenUpvaluesOrdered' /\ open_upvalues' \in Seq(Object)
        /\ \A i \in DOMAIN open_upvalues' : heap'[open_upvalues'[i]].kind = "upvalue"
    BY <1>1, OrderedAfterClosing
  <1>4. ASSUME NEW i \in DOMAIN fs
        PROVE  /\ i \in DOMAIN frames /\ frames'[i] = frames[i]
               /\ IsClosure(frames[i].closure)'
               /\ FunctionOf(frames[i])' = FunctionOf(frames[i])
               /\ WindowEnd(frames[i])' = WindowEnd(frames[i])
               /\ WindowEnd(fs[i]) = WindowEnd(frames[i])
    <2>1. i \in DOMAIN frames /\ frames'[i] = frames[i]
      OBVIOUS
    <2>2. IsClosure(frames[i].closure)
      BY <1>1, <2>1 DEF TypeOK
    <2>3. Keeps(frames[i].closure)
      BY <1>2, <2>2 DEF IsClosure
    <2>4. IsClosure(frames[i].closure)' /\ FunctionOf(frames[i])' = FunctionOf(frames[i])
      BY <2>1, <2>2, <2>3 DEF IsClosure, FunctionOf, Keeps
    <2>5. WindowEnd(frames[i])' = WindowEnd(frames[i])
      BY <2>1, <2>4 DEF WindowEnd, FunctionOf
    <2>6. QED  BY <2>1, <2>4, <2>5
  <1>5. MarkedSlots' = SlotsOf(fs) /\ SlotsOf(fs) \subseteq MarkedSlots
    <2>1. MarkedSlots' = SlotsOf(fs)
      BY <1>4 DEF MarkedSlots, SlotsOf
    <2>2. SlotsOf(fs) \subseteq MarkedSlots
      BY <1>4 DEF MarkedSlots, SlotsOf
    <2>3. QED  BY <2>1, <2>2
  <1>6. /\ registers' \in [0..(Slots - 1) -> Value \cup {Junk}]
        /\ \A s \in MarkedSlots' : ValidNext(registers'[s])
    <2>1. registers' = [s \in 0..(Slots - 1) |-> IF s \in SlotsOf(fs) THEN regs[s] ELSE Junk]
      BY DEF Settled
    <2>2. registers' \in [0..(Slots - 1) -> Value \cup {Junk}]
      BY <2>1
    <2>3. ASSUME NEW s \in MarkedSlots'
          PROVE  ValidNext(registers'[s])
      <3>1. s \in MarkedSlots /\ s \in 0..(Slots - 1) /\ s \in SlotsOf(fs)
        BY <1>1, <1>5, MarkedInFile
      <3>2. registers'[s] = regs[s]
        BY <2>1, <3>1
      <3>3. QED  BY <1>2, <3>1, <3>2, StaysValid
    <2>4. QED  BY <2>2, <2>3
  <1>7. /\ globals' \in [Global -> Value \cup {Undefined}]
        /\ \A n \in Global : globals'[n] = Undefined \/ ValidNext(globals'[n])
    BY <1>2, SameGlobals
  <1>8. TypeOK'
    <2>1. \A i \in DOMAIN frames' :
             /\ IsClosure(frames[i].closure)'
             /\ frames'[i].locals <= frames'[i].live
             /\ frames'[i].live <= FrameSize[FunctionOf(frames[i])']
      BY <1>1, <1>4 DEF TypeOK
    <2>2. QED  BY <1>1, <1>2, <1>3, <1>6, <1>7, <2>1 DEF TypeOK
  <1>9. ClosureInv'
    BY <1>1, <1>2, ClosuresStay
  <1>10. FrameInv'
    <2>1. ASSUME NEW i \in DOMAIN fs
          PROVE  /\ WindowEnd(frames[i])' <= Slots
                 /\ frames'[i].closure # building'
                 /\ i > 1 => frames'[i].base = frames'[i - 1].base + frames'[i - 1].live
      <3>1. i - 1 \in DOMAIN fs \/ ~(i > 1)
        OBVIOUS
      <3>2. WindowEnd(frames[i])' <= Slots /\ frames'[i].closure # building'
        BY <1>1, <1>4 DEF FrameInv
      <3>3. ASSUME i > 1
            PROVE  frames'[i].base = frames'[i - 1].base + frames'[i - 1].live
        BY <1>1, <1>4, <3>1, <3>3 DEF FrameInv
      <3>4. QED  BY <3>2, <3>3
    <2>2. Len(fs) <= MaxCallDepth + uncounted_frames
      <3>1. /\ Len(fs) \in Nat /\ Len(frames) \in Nat /\ uncounted_frames \in Nat
            /\ Len(frames) <= MaxCallDepth + uncounted_frames
        BY <1>1 DEF TypeOK, FrameInv
      <3>2. QED  BY <3>1, ConstantsAssumption
    <2>3. QED  BY <2>1, <2>2 DEF FrameInv
  <1>11. BuildingInv'
    BY <1>1 DEF BuildingInv
  <1>12. NothingDangles'
    <2>1. \A s \in MarkedSlots' : IsValid(registers[s])'
      BY <1>6 DEF IsValid, ValidNext
    <2>2. \A n \in Global : globals'[n] = Undefined \/ IsValid(globals[n])'
      BY <1>7 DEF IsValid, ValidNext
    <2>3. \A o \in Object : \A p \in References(o)' : IsValid(p)'
      BY <1>2 DEF IsValid, ValidNext
    <2>4. \A i \in DOMAIN frames' : IsClosure(frames[i].closure)'
      BY <1>4
    <2>5. QED  BY <1>1, <1>3, <2>1, <2>2, <2>3, <2>4 DEF NothingDangles
  <1>13. QED  BY <1>3, <1>8, <1>9, <1>10, <1>11, <1>12 DEF IInv

LEMMA ReturnHolds ==
    ASSUME IInv, NEW v, Return(v)
    PROVE  IInv'
  <1> DEFINE n == Len(frames)
             fs == SubSeq(frames, 1, n - 1)
             regs == IF n = 1 THEN [registers EXCEPT ![0] = Nil]
                              ELSE [registers EXCEPT ![Newest.base - 1] = v]
  <1>1. /\ Running /\ v \in {Nil} \cup {Reg(r) : r \in Live}
        /\ CloseUpvalues(Newest.base) /\ frames' = fs
        /\ registers' = Settled(regs, fs)
        /\ UNCHANGED <<uncounted_frames, globals, building>>
    BY DEF Return
  <1>2. /\ TypeOK /\ FrameInv /\ OpenUpvaluesOrdered /\ NothingDangles /\ frames # <<>>
    BY <1>1, NewestFrame
  <1>2a. n \in Nat \ {0} /\ DOMAIN frames = 1..n
    BY <1>2, NewestType
  <1>2b. Newest.base \in 1..Slots /\ Slots \in Nat /\ Newest.base \in Int
    BY <1>2, NewestType, ConstantsAssumption DEF Frame
  <1>2c. \A i \in 1..n : frames[i] \in Frame
    BY <1>2, <1>2a DEF TypeOK
  <1>3. v \in Value /\ IsValid(v)
    <2>1. CASE v = Nil
      BY <2>1 DEF Value, IsValid
    <2>2. CASE v # Nil
      <3>1. PICK r \in Live : v = Reg(r)
        BY <1>1, <2>2
      <3>2. QED  BY <1>1, <1>2, <3>1, NewestFrame, LiveSlots
    <2>3. QED  BY <2>1, <2>2
  <1>4. /\ fs \in Seq(Frame) /\ DOMAIN fs = 1..(n - 1) /\ Len(fs) = n - 1
        /\ \A i \in 1..(n - 1) : fs[i] = frames[i]
    <2>1. frames \in Seq(Frame)
      BY <1>2 DEF TypeOK
    <2>2. QED  BY <1>2a, <2>1
  <1>5. DOMAIN fs \subseteq DOMAIN frames /\ Len(fs) <= Len(frames)
    BY <1>2a, <1>4
  <1>6. registers \in [0..(Slots - 1) -> Value \cup {Junk}]
    BY <1>2 DEF TypeOK
  <1>7. regs \in [0..(Slots - 1) -> Value \cup {Junk}]
    BY <1>2b, <1>3, <1>6 DEF Value
  <1>8. ASSUME NEW s \in MarkedSlots
        PROVE  IsValid(regs[s])
    <2>1. IsValid(registers[s]) /\ s \in 0..(Slots - 1) /\ IsValid(Nil)
      BY <1>2, MarkedInFile DEF NothingDangles, IsValid
    <2>2. regs[s] \in {registers[s], v, Nil}
      BY <1>6, <2>1
    <2>3. QED  BY <1>3, <2>1, <2>2
  <1>9. ASSUME NEW o \in Range(StillOpen(Newest.base))
        PROVE  \E i \in DOMAIN fs :
                  heap[o].location \in fs[i].base..(fs[i].base + fs[i].locals - 1)
    <2>1. o \in Range(open_upvalues) /\ heap[o].location < Newest.base
      BY <1>2, <1>2b, ListCut
    <2>2. PICK i \in 1..n :
              heap[o].location \in frames[i].base..(frames[i].base + frames[i].locals - 1)
      BY <1>2, <1>2a, <2>1 DEF OpenUpvaluesOrdered
    <2>3. heap[o].location \in Int /\ frames[i].base \in Int
      <3>1. heap[o].location \in 1..(Slots - 1)
        BY <1>2, <2>1, UpvalueSlots
      <3>2. QED  BY <1>2b, <1>2c, <3>1 DEF Frame
    <2>4. i # n
      <3>1. heap[o].location >= frames[i].base
        BY <2>2, <2>3
      <3>2. frames[n].base = Newest.base
        BY DEF Newest
      <3>3. QED  BY <2>1, <2>3, <3>1, <3>2
    <2>5. i \in 1..(n - 1)
      <3>1. \A m \in Nat : \A j \in 1..m : j # m => j \in 1..(m - 1)
        OBVIOUS
      <3>2. QED  BY <1>2a, <2>4, <3>1
    <2>6. QED  BY <1>4, <2>2, <2>5
  <1>10. Newest.base \in Int /\ \A i \in DOMAIN fs : fs[i] = frames[i]
    BY <1>2b, <1>4
  <1> HIDE DEF regs, fs
  <1>11. QED
    BY <1>1, <1>4, <1>5, <1>7, <1>8, <1>9, <1>10, PopHolds

LEMMA RuntimeErrorHolds ==
    ASSUME IInv, RuntimeError
    PROVE  IInv'
  <1> DEFINE regs == [registers EXCEPT ![0] = Nil]
  <1>1. /\ Running /\ CloseUpvalues(0) /\ frames' = <<>>
        /\ registers' = Settled(regs, <<>>)
        /\ UNCHANGED <<uncounted_frames, globals, building>>
    BY DEF RuntimeError
  <1>2. /\ TypeOK /\ FrameInv /\ OpenUpvaluesOrdered /\ NothingDangles
        /\ Len(frames) \in Nat /\ Slots \in Nat
    BY <1>1, NewestFrame, ConstantsAssumption DEF TypeOK
  <1>3. <<>> \in Seq(Frame) /\ DOMAIN <<>> = {} /\ Len(<<>>) = 0
    OBVIOUS
  <1>4. registers \in [0..(Slots - 1) -> Value \cup {Junk}]
    BY <1>2 DEF TypeOK
  <1>5. regs \in [0..(Slots - 1) -> Value \cup {Junk}]
    BY <1>4 DEF Value
  <1>6. ASSUME NEW s \in MarkedSlots
        PROVE  IsValid(regs[s])
    <2>1. IsValid(registers[s]) /\ s \in 0..(Slots - 1) /\ IsValid(Nil)
      BY <1>2, MarkedInFile DEF NothingDangles, IsValid
    <2>2. regs[s] \in {registers[s], Nil}
      BY <1>4, <2>1
    <2>3. QED  BY <2>1, <2>2
  <1>7. Range(StillOpen(0)) = {}
    <2>1. ASSUME NEW o \in Range(StillOpen(0))
          PROVE  FALSE
      <3>1. o \in Range(open_upvalues) /\ heap[o].location < 0
        BY <1>2, ListCut
      <3>2. heap[o].location \in 1..(Slots - 1)
        BY <1>2, <3>1, UpvalueSlots
      <3>3. QED  BY <1>2, <3>1, <3>2
    <2>2. QED  BY <2>1
  <1> HIDE DEF regs
  <1>8. 0 \in Int /\ Len(<<>>) <= Len(frames) /\ DOMAIN <<>> \subseteq DOMAIN frames
        /\ \A i \in DOMAIN <<>> : <<>>[i] = frames[i]
    BY <1>2, <1>3
  <1>9. \A o \in Range(StillOpen(0)) : \E i \in DOMAIN <<>> :
           heap[o].location \in <<>>[i].base..(<<>>[i].base + <<>>[i].locals - 1)
    BY <1>7
  <1>10. QED  BY <1>1, <1>3, <1>5, <1>6, <1>8, <1>9, PopHolds

-----------------------------------------------------------------------------
(* Calls.                                                                  *)

\* The caller's frame gives its operands up, and the callee's frame, with
\* the arguments as its first variables, fits behind it.
LEMMA CalleeFits ==
    ASSUME IInv, NEW r, Call(r)
    PROVE  \E f \in Function, caller \in Frame, callee \in Frame :
              /\ Running /\ Len(frames) - uncounted_frames < MaxCallDepth
              /\ caller.closure = Newest.closure /\ caller.base = Newest.base
              /\ caller.locals = Newest.locals /\ caller.locals <= caller.live
              /\ caller.live <= FrameSize[FunctionOf(Newest)]
              /\ IsClosure(callee.closure) /\ heap[callee.closure].function = f
              /\ callee.base = Newest.base + caller.live
              /\ callee.locals = Arity[f] /\ callee.live = Arity[f]
              /\ callee.base + Arity[f] = Newest.base + Newest.live
              /\ callee.base + FrameSize[f] <= Slots
              /\ frames' = Append(ReplaceNewest(caller), callee)
              /\ registers' = Window(f, callee.base)
              /\ UNCHANGED <<uncounted_frames, open_upvalues, globals, heap, building>>
  <1> DEFINE closure == Reg(r)
             f == heap[closure].function
             base == Newest.base + r + 1
             caller == [Newest EXCEPT !.live = r + 1]
             callee == [closure |-> closure, base |-> base, locals |-> Arity[f], live |-> Arity[f]]
  <1>1. /\ Running /\ r \in Newest.locals..(Newest.live - 1)
        /\ IsClosure(closure) /\ Arity[f] = Newest.live - r - 1
        /\ Len(frames) - uncounted_frames < MaxCallDepth /\ FrameSize[f] <= Slots - base
        /\ registers' = Window(f, base)
        /\ frames' = Append(ReplaceNewest(caller), callee)
        /\ UNCHANGED <<uncounted_frames, open_upvalues, globals, heap, building>>
    BY DEF Call, HasRoom, FrameOf
  <1>2. base = Newest.base + r + 1
    OBVIOUS
  <1>3. /\ Newest \in Frame /\ Newest.base \in 1..Slots /\ Newest.locals \in Nat
        /\ Newest.live \in 0..Slots /\ Newest.live <= FrameSize[FunctionOf(Newest)]
        /\ FrameSize[FunctionOf(Newest)] \in Nat /\ Slots \in Nat
        /\ Newest.base + FrameSize[FunctionOf(Newest)] <= Slots
    BY <1>1, NewestFrame, NewestType, ConstantsAssumption DEF Frame
  <1>4. closure \in Object /\ f \in Function
    BY <1>1, NewestFrame, Kinds DEF IsClosure
  <1> HIDE DEF closure, base
  <1>5. Arity[f] \in Nat /\ FrameSize[f] \in Nat /\ Arity[f] <= FrameSize[f]
    BY <1>4, ConstantsAssumption
  <1>6. /\ r \in Nat /\ r < Newest.live /\ r + 1 \in 0..Slots /\ Newest.locals <= r + 1
        /\ r + 1 <= FrameSize[FunctionOf(Newest)]
        /\ Newest.base \in Nat \ {0} /\ Newest.live \in Nat /\ Slots \in Nat
        /\ Newest.base + Newest.live <= Slots
    <2>1. r \in Newest.locals..(Newest.live - 1)
      BY <1>1
    <2>2. /\ Newest.base \in Nat \ {0} /\ Newest.live \in Nat /\ Newest.locals \in Nat
          /\ Newest.live <= Slots /\ Slots \in Nat
          /\ Newest.base + Newest.live <= Slots
      BY <1>3
    <2>3. r \in Nat /\ r < Newest.live /\ r + 1 \in 0..Slots /\ Newest.locals <= r + 1
      BY <2>1, <2>2
    <2>4. r + 1 <= FrameSize[FunctionOf(Newest)]
      BY <1>3, <2>3
    <2>5. QED  BY <2>2, <2>3, <2>4
  <1>7. /\ base \in 1..Slots /\ base + Arity[f] = Newest.base + Newest.live
        /\ base = Newest.base + (r + 1)
        /\ base + FrameSize[f] <= Slots /\ Arity[f] \in 0..Slots
    <2>1. Arity[f] = Newest.live - r - 1 /\ FrameSize[f] <= Slots - base
      BY <1>1
    <2>2. QED  BY <1>2, <1>5, <1>6, <2>1
  <1>8. callee \in Frame
    BY <1>4, <1>7 DEF Frame
  <1>9. /\ caller \in Frame /\ caller.closure = Newest.closure /\ caller.base = Newest.base
        /\ caller.locals = Newest.locals /\ caller.live = r + 1
    BY <1>3, <1>6 DEF Frame
  <1>10. /\ callee.closure = closure /\ callee.base = base
         /\ callee.locals = Arity[f] /\ callee.live = Arity[f]
    OBVIOUS
  <1> HIDE DEF caller, callee, f
  <1>11. caller.locals <= caller.live /\ caller.live <= FrameSize[FunctionOf(Newest)]
    BY <1>6, <1>9
  <1>12. heap[callee.closure].function = f
    BY <1>10 DEF f
  <1>13. QED
    BY <1>1, <1>4, <1>7, <1>8, <1>9, <1>10, <1>11, <1>12

\* The frames after it: the ones below, the caller and the callee.
PushedFacts(n, caller, callee) ==
    /\ n = Len(frames) /\ DOMAIN frames = 1..n /\ frames[n] = Newest
    /\ frames' \in Seq(Frame) /\ Len(frames') = n + 1
    /\ DOMAIN frames' = (1..n) \cup {n + 1} /\ n + 1 \notin 1..n
    /\ frames'[n] = caller /\ frames'[n + 1] = callee
    /\ \A i \in 1..n : i # n => frames'[i] = frames[i]

\* A call makes them so.
LEMMA Pushed ==
    ASSUME frames \in Seq(Frame), frames # <<>>,
           NEW caller \in Frame, NEW callee \in Frame,
           frames' = Append(ReplaceNewest(caller), callee)
    PROVE  \E n \in Nat \ {0} : PushedFacts(n, caller, callee)
  <1> DEFINE fs == ReplaceNewest(caller)
  <1>1. PICK n \in Nat \ {0} : n = Len(frames) /\ DOMAIN frames = 1..n
    OBVIOUS
  <1>2. /\ fs \in Seq(Frame) /\ Len(fs) = n
        /\ \A i \in 1..n : fs[i] = IF i = n THEN caller ELSE frames[i]
    BY <1>1, Replaced
  <1> HIDE DEF fs
  <1>3. n \in 1..n /\ 1..(n + 1) = (1..n) \cup {n + 1} /\ n + 1 \notin 1..n
    BY ONLY n \in Nat \ {0}
  <1>4. fs[n] = caller /\ \A i \in 1..n : i # n => fs[i] = frames[i]
    BY <1>2, <1>3
  <1>5. /\ Append(fs, callee) \in Seq(Frame) /\ Len(Append(fs, callee)) = n + 1
        /\ DOMAIN Append(fs, callee) = 1..(n + 1)
        /\ Append(fs, callee)[n + 1] = callee
        /\ \A i \in 1..n : Append(fs, callee)[i] = fs[i]
    BY <1>2
  <1>6. frames' = Append(fs, callee)
    BY DEF fs
  <1>7. frames[n] = Newest
    BY <1>1 DEF Newest
  <1>8. frames'[n] = caller /\ \A i \in 1..n : i # n => frames'[i] = frames[i]
    BY <1>3, <1>4, <1>5, <1>6
  <1>9. PushedFacts(n, caller, callee)
    BY <1>1, <1>3, <1>5, <1>6, <1>7, <1>8 DEF PushedFacts
  <1>10. QED  BY <1>9

\* No frame fits worse than before.
LEMMA CallFramesHold ==
    ASSUME IInv, NEW r, Call(r)
    PROVE  /\ TypeOK' /\ FrameInv' /\ OpenUpvaluesOrdered'
           /\ \A s \in MarkedSlots' : ValidNext(registers'[s])
  <1>1. PICK f \in Function, caller \in Frame, callee \in Frame :
              /\ Running /\ Len(frames) - uncounted_frames < MaxCallDepth
              /\ caller.closure = Newest.closure /\ caller.base = Newest.base
              /\ caller.locals = Newest.locals /\ caller.locals <= caller.live
              /\ caller.live <= FrameSize[FunctionOf(Newest)]
              /\ IsClosure(callee.closure) /\ heap[callee.closure].function = f
              /\ callee.base = Newest.base + caller.live
              /\ callee.locals = Arity[f] /\ callee.live = Arity[f]
              /\ callee.base + Arity[f] = Newest.base + Newest.live
              /\ callee.base + FrameSize[f] <= Slots
              /\ frames' = Append(ReplaceNewest(caller), callee)
              /\ registers' = Window(f, callee.base)
              /\ UNCHANGED <<uncounted_frames, open_upvalues, globals, heap, building>>
    BY CalleeFits
  <1>2. /\ TypeOK /\ FrameInv /\ ClosureInv /\ OpenUpvaluesOrdered /\ NothingDangles
        /\ frames # <<>> /\ building = None /\ frames \in Seq(Frame)
    BY <1>1, NewestFrame DEF TypeOK
  <1>3p. PICK n \in Nat \ {0} : PushedFacts(n, caller, callee)
    BY <1>1, <1>2, Pushed
  <1>3. /\ n \in Nat \ {0}
        /\ n = Len(frames) /\ DOMAIN frames = 1..n /\ frames[n] = Newest
        /\ frames' \in Seq(Frame) /\ Len(frames') = n + 1
        /\ DOMAIN frames' = (1..n) \cup {n + 1} /\ n + 1 \notin 1..n
        /\ frames'[n] = caller /\ frames'[n + 1] = callee
        /\ \A i \in 1..n : i # n => frames'[i] = frames[i]
    BY <1>3p DEF PushedFacts
  <1>4. PICK m \in Nat : m = n + 1
    OBVIOUS
  <1>5. /\ DOMAIN frames' = (1..n) \cup {m} /\ frames'[m] = callee /\ Len(frames') = m
        /\ m - 1 = n /\ n \in 1..n
    BY <1>3, <1>4
  <1>6. /\ Arity[f] \in Nat /\ FrameSize[f] \in Nat /\ Arity[f] <= FrameSize[f]
        /\ Slots \in Nat /\ callee.base \in Nat /\ Newest.locals \in Nat
        /\ Newest.base \in Nat /\ Newest.live \in Nat
        /\ Newest.live <= FrameSize[FunctionOf(Newest)] /\ FrameSize[FunctionOf(Newest)] \in Nat
    <2>1. Arity[f] \in Nat /\ FrameSize[f] \in Nat /\ Arity[f] <= FrameSize[f] /\ Slots \in Nat
      BY ConstantsAssumption
    <2>2. callee.base \in Nat
      BY DEF Frame
    <2>3. /\ Newest \in Frame
          /\ Newest.live <= FrameSize[FunctionOf(Newest)] /\ FrameSize[FunctionOf(Newest)] \in Nat
      BY <1>1, NewestFrame
    <2>4. QED  BY <2>1, <2>2, <2>3 DEF Frame
  <1>7. ASSUME NEW i \in 1..n
        PROVE  /\ frames'[i].closure = frames[i].closure /\ frames'[i].base = frames[i].base
               /\ frames'[i] \in Frame /\ frames[i].locals <= frames'[i].locals
               /\ frames'[i].locals <= frames'[i].live
               /\ frames'[i].live <= FrameSize[FunctionOf(frames[i])]
               /\ FunctionOf(frames[i])' = FunctionOf(frames[i])
               /\ WindowEnd(frames[i])' = WindowEnd(frames[i])
               /\ IsClosure(frames[i].closure)'
    <2>1. /\ frames[i] \in Frame /\ IsClosure(frames[i].closure)
          /\ frames[i].locals <= frames[i].live
          /\ frames[i].live <= FrameSize[FunctionOf(frames[i])]
      BY <1>2, <1>3 DEF TypeOK
    <2>2. frames[i].locals <= frames[i].locals /\ Newest.locals <= Newest.locals
      BY <1>6, <2>1 DEF Frame
    <2>3. /\ frames'[i].closure = frames[i].closure /\ frames'[i].base = frames[i].base
          /\ frames'[i] \in Frame /\ frames[i].locals <= frames'[i].locals
          /\ frames'[i].locals <= frames'[i].live
          /\ frames'[i].live <= FrameSize[FunctionOf(frames[i])]
      <3>1. CASE i = n
        BY <1>1, <1>3, <2>2, <3>1
      <3>2. CASE i # n
        BY <1>3, <2>1, <2>2, <3>2
      <3>3. QED  BY <3>1, <3>2
    <2>4. FunctionOf(frames[i])' = FunctionOf(frames[i]) /\ IsClosure(frames[i].closure)'
      BY <1>1, <2>1, <2>3 DEF FunctionOf, IsClosure
    <2>5. WindowEnd(frames[i])' = WindowEnd(frames[i])
      BY <1>1, <2>3 DEF WindowEnd, FunctionOf
    <2>6. QED  BY <2>3, <2>4, <2>5
  <1>8. /\ FunctionOf(frames[m])' = f /\ WindowEnd(frames[m])' = callee.base + FrameSize[f]
        /\ IsClosure(frames[m].closure)'
    <2>1. FunctionOf(frames[m])' = f
      BY <1>1, <1>5 DEF FunctionOf
    <2>2. WindowEnd(frames[m])' = callee.base + FrameSize[f]
      BY <1>1, <1>5 DEF FunctionOf, WindowEnd
    <2>3. QED  BY <1>1, <1>5, <2>1, <2>2 DEF IsClosure
  <1>9. /\ registers' \in [0..(Slots - 1) -> Value \cup {Junk}]
        /\ \A s \in 0..(Slots - 1) :
              registers'[s] = IF s \in (callee.base + Arity[f])..(callee.base + FrameSize[f] - 1)
                              THEN Nil ELSE registers[s]
    BY <1>1, <1>2 DEF Window, TypeOK, Value
  <1>10. TypeOK'
    <2>1. \A i \in DOMAIN frames' :
             /\ IsClosure(frames[i].closure)'
             /\ frames'[i].locals <= frames'[i].live
             /\ frames'[i].live <= FrameSize[FunctionOf(frames[i])']
      <3>1. callee.locals <= callee.live /\ callee.live <= FrameSize[f]
        BY <1>1, <1>6
      <3>2. QED  BY <1>5, <1>7, <1>8, <3>1
    <2>2. QED  BY <1>1, <1>2, <1>3, <1>9, <2>1 DEF TypeOK
  <1>11. FrameInv'
    <2>1. Len(frames') <= MaxCallDepth + uncounted_frames'
      <3>1. uncounted_frames \in Nat /\ uncounted_frames' = uncounted_frames
        BY <1>1, <1>2 DEF TypeOK
      <3>2. MaxCallDepth \in Nat
        BY ConstantsAssumption
      <3>3. n - uncounted_frames < MaxCallDepth
        BY <1>1, <1>3
      <3>4. QED  BY <1>4, <1>5, <3>1, <3>2, <3>3
    <2>2. ASSUME NEW i \in 1..n
          PROVE  /\ WindowEnd(frames[i])' <= Slots /\ frames'[i].closure # building'
                 /\ i > 1 => frames'[i].base = frames'[i - 1].base + frames'[i - 1].live
      <3>1. WindowEnd(frames[i])' <= Slots /\ frames'[i].closure # building'
        BY <1>1, <1>2, <1>3, <1>7 DEF FrameInv
      <3>2. ASSUME i > 1
            PROVE  frames'[i].base = frames'[i - 1].base + frames'[i - 1].live
        <4>1. i - 1 \in 1..n /\ i - 1 # n
          BY <3>2
        <4>2. frames'[i - 1] = frames[i - 1] /\ frames'[i].base = frames[i].base
          BY <1>3, <1>7, <4>1
        <4>3. QED  BY <1>2, <1>3, <3>2, <4>2 DEF FrameInv
      <3>3. QED  BY <3>1, <3>2
    <2>3. /\ WindowEnd(frames[m])' <= Slots /\ frames'[m].closure # building'
          /\ frames'[m].base = frames'[m - 1].base + frames'[m - 1].live
      <3>1. callee.closure # None
        BY <1>1, ConstantsAssumption DEF IsClosure, None
      <3>2. frames'[m - 1] = caller
        BY <1>3, <1>5
      <3>3. QED  BY <1>1, <1>2, <1>5, <1>8, <3>1, <3>2
    <2>4. QED  BY <1>5, <2>1, <2>2, <2>3 DEF FrameInv
  <1>12. OpenUpvaluesOrdered'
    <2>1. \A o \in Range(open_upvalues) : heap'[o].location = heap[o].location
      BY <1>1
    <2>2. DOMAIN frames \subseteq DOMAIN frames'
      BY <1>3
    <2>3. QED  BY <1>1, <1>2, <1>3, <1>7, <2>1, <2>2, UpvaluesStay
  <1>13. ASSUME NEW s \in MarkedSlots', s \notin MarkedSlots
         PROVE  s \in 0..(callee.base + FrameSize[f] - 1)
    <2>1. s # 0
      BY <1>13 DEF MarkedSlots, SlotsOf
    <2>2. PICK i \in DOMAIN frames' : s \in 0..(WindowEnd(frames[i])' - 1)
      BY <1>13, <2>1 DEF MarkedSlots, SlotsOf
    <2>3. i \notin 1..n
      <3>1. ASSUME i \in 1..n
            PROVE  FALSE
        <4>1. s \in 0..(WindowEnd(frames[i]) - 1) /\ i \in DOMAIN frames
          BY <1>3, <1>7, <2>2, <3>1
        <4>2. QED  BY <1>13, <4>1 DEF MarkedSlots, SlotsOf
      <3>2. QED  BY <3>1
    <2>4. i = m
      BY <1>5, <2>3
    <2>5. s \in 0..(WindowEnd(frames[m])' - 1)
      BY <2>2, <2>4 DEF WindowEnd, FunctionOf
    <2>6. QED  BY <1>6, <1>8, <2>5
  <1>14. ASSUME NEW s \in MarkedSlots'
         PROVE  ValidNext(registers'[s])
    <2>1. CASE s \in MarkedSlots
      <3>1. IsValid(registers[s]) /\ s \in 0..(Slots - 1)
        BY <1>2, <2>1, MarkedInFile DEF NothingDangles
      <3>2. registers'[s] = registers[s] \/ registers'[s] = Nil
        BY <1>9, <3>1
      <3>3. \A o \in Object : Keeps(o)
        BY <1>1, SameHeap
      <3>4. ValidNext(registers[s]) /\ ValidNext(Nil)
        BY <3>1, <3>3, StaysValid DEF ValidNext
      <3>5. QED  BY <3>2, <3>4
    <2>2. CASE s \notin MarkedSlots
      <3>1. s \in 0..(callee.base + FrameSize[f] - 1)
        BY <1>13, <2>2
      <3>2. s \notin 0..(Newest.base + FrameSize[FunctionOf(Newest)] - 1)
        <4>1. 0..(WindowEnd(frames[n]) - 1) \subseteq MarkedSlots
          BY <1>3 DEF MarkedSlots, SlotsOf
        <4>2. WindowEnd(frames[n]) = Newest.base + FrameSize[FunctionOf(Newest)]
          BY <1>3 DEF WindowEnd
        <4>3. s \notin 0..(WindowEnd(frames[n]) - 1)
          BY <2>2, <4>1
        <4>4. QED  BY <1>6, <4>2, <4>3
      <3>3. callee.base + Arity[f] = Newest.base + Newest.live /\ callee.base + FrameSize[f] <= Slots
        BY <1>1
      <3>4. s \in (callee.base + Arity[f])..(callee.base + FrameSize[f] - 1) /\ s \in 0..(Slots - 1)
        BY <1>6, <3>1, <3>2, <3>3
      <3>5. QED  BY <1>9, <3>4 DEF ValidNext
    <2>3. QED  BY <2>1, <2>2
  <1>15. QED  BY <1>10, <1>11, <1>12, <1>14

LEMMA CallHolds ==
    ASSUME IInv, NEW r, Call(r)
    PROVE  IInv'
  <1>1. Running /\ UNCHANGED <<uncounted_frames, open_upvalues, globals, heap, building>>
    BY DEF Call
  <1>2. /\ TypeOK /\ ClosureInv /\ NothingDangles /\ building = None
    BY <1>1, NewestFrame
  <1>3. /\ TypeOK' /\ FrameInv' /\ OpenUpvaluesOrdered'
        /\ \A s \in MarkedSlots' : ValidNext(registers'[s])
    BY CallFramesHold
  <1>4. ClosureInv'
    BY <1>1, <1>2, ClosuresStay
  <1>5. BuildingInv'
    BY <1>1, <1>2 DEF BuildingInv
  <1>6. NothingDangles'
    <2>1. \A s \in MarkedSlots' : IsValid(registers[s])'
      BY <1>3 DEF IsValid, ValidNext
    <2>2. \A i \in DOMAIN open_upvalues' : heap'[open_upvalues'[i]].kind = "upvalue"
      BY <1>1, <1>2 DEF NothingDangles
    <2>3. \A m \in Global : globals'[m] = Undefined \/ IsValid(globals[m])'
      BY <1>1, <1>2 DEF NothingDangles, IsValid
    <2>4. \A o \in Object : \A p \in References(o)' : IsValid(p)'
      BY <1>1, <1>2 DEF NothingDangles, IsValid, References
    <2>5. \A i \in DOMAIN frames' : IsClosure(frames[i].closure)'
      BY <1>3 DEF TypeOK
    <2>6. QED  BY <1>1, <1>2, <2>1, <2>2, <2>3, <2>4, <2>5 DEF NothingDangles
  <1>7. QED  BY <1>3, <1>4, <1>5, <1>6 DEF IInv

\* The first frame, with the callee below it.
LEMMA EntryHolds ==
    ASSUME IInv, frames = <<>>,
           NEW closure \in Object, NEW f \in Function,
           Arity[f] = 0, FrameSize[f] <= Slots - 1,
           frames' = <<[closure |-> closure, base |-> 1, locals |-> 0, live |-> 0]>>,
           uncounted_frames' \in {0, 1},
           registers' = [[s \in DOMAIN registers |->
                             IF s \in 1..FrameSize[f] THEN Nil ELSE registers[s]]
                         EXCEPT ![0] = closure],
           UNCHANGED <<open_upvalues, globals, building>>,
           heap' \in [Object -> HeapObject],
           heap'[closure].kind = "closure", heap'[closure].function = f,
           \A o \in Object :
               /\ Keeps(o)
               /\ heap'[o].kind = "upvalue" =>
                     heap[o].kind = "upvalue" /\ heap'[o].location = heap[o].location
               /\ \A p \in References(o)' : ValidNext(p),
           ClosureInv'
    PROVE  IInv'
  <1>1. /\ TypeOK /\ FrameInv /\ OpenUpvaluesOrdered /\ NothingDangles /\ building = None
        /\ DOMAIN frames = {}
    BY DEF IInv, BuildingInv
  <1>2. FrameSize[f] \in Nat /\ Slots \in Nat /\ Slots >= 1 /\ MaxCallDepth \in Nat \ {0}
    BY ConstantsAssumption
  <1>3. PICK frame \in Frame :
            /\ frame = [closure |-> closure, base |-> 1, locals |-> 0, live |-> 0]
            /\ frame.closure = closure /\ frame.base = 1 /\ frame.locals = 0 /\ frame.live = 0
    BY <1>2 DEF Frame
  <1>4. /\ frames' \in Seq(Frame) /\ Len(frames') = 1 /\ DOMAIN frames' = {1}
        /\ frames'[1] = frame
    BY <1>3
  <1>5. /\ IsClosure(frames[1].closure)' /\ FunctionOf(frames[1])' = f
        /\ WindowEnd(frames[1])' = 1 + FrameSize[f]
    BY <1>3, <1>4 DEF IsClosure, FunctionOf, WindowEnd
  <1>6. /\ registers' \in [0..(Slots - 1) -> Value \cup {Junk}]
        /\ registers'[0] = closure
        /\ \A s \in 1..FrameSize[f] : registers'[s] = Nil
    <2>1. registers \in [0..(Slots - 1) -> Value \cup {Junk}]
      BY <1>1 DEF TypeOK
    <2>2. 0 \in 0..(Slots - 1) /\ \A s \in 1..FrameSize[f] : s \in 0..(Slots - 1) /\ s # 0
      BY <1>2
    <2>3. closure \in Value /\ Nil \in Value
      BY DEF Value
    <2>4. QED  BY <2>1, <2>2, <2>3
  <1>7. TypeOK'
    <2>1. \A i \in DOMAIN frames' :
             /\ IsClosure(frames[i].closure)'
             /\ frames'[i].locals <= frames'[i].live
             /\ frames'[i].live <= FrameSize[FunctionOf(frames[i])']
      BY <1>2, <1>3, <1>4, <1>5
    <2>2. QED  BY <1>1, <1>4, <1>6, <2>1 DEF TypeOK
  <1>8. FrameInv'
    <2>1. 1 <= MaxCallDepth + uncounted_frames'
      BY <1>2
    <2>2. closure # building'
      BY <1>1, ConstantsAssumption DEF None
    <2>3. WindowEnd(frames[1])' <= Slots
      BY <1>2, <1>5
    <2>4. QED  BY <1>3, <1>4, <2>1, <2>2, <2>3 DEF FrameInv
  <1>9. BuildingInv'
    BY <1>1 DEF BuildingInv
  <1>10. OpenUpvaluesOrdered'
    <2>1. \A o \in Range(open_upvalues) : heap'[o].location = heap[o].location
      <3>1. \A o \in Range(open_upvalues) : o \in Object /\ heap[o].kind = "upvalue"
        BY <1>1, UpvalueSlots
      <3>2. QED  BY <3>1 DEF Keeps
    <2>2. QED  BY <1>1, <2>1, UpvaluesStay
  <1>11. NothingDangles'
    <2>1. \A s \in MarkedSlots' : s = 0 \/ s \in 1..FrameSize[f]
      <3>1. ASSUME NEW s \in MarkedSlots', s # 0
            PROVE  s \in 1..FrameSize[f]
        <4>1. PICK i \in DOMAIN frames' : s \in 0..(WindowEnd(frames[i])' - 1)
          BY <3>1 DEF MarkedSlots, SlotsOf
        <4>2. i = 1
          BY <1>4
        <4>3. s \in 0..(WindowEnd(frames[1])' - 1)
          BY <4>1, <4>2 DEF WindowEnd, FunctionOf
        <4>4. QED  BY <1>2, <1>5, <3>1, <4>3
      <3>2. QED  BY <3>1
    <2>2. \A s \in MarkedSlots' : IsValid(registers[s])'
      BY <1>6, <2>1 DEF IsValid
    <2>3. \A i \in DOMAIN open_upvalues' : heap'[open_upvalues'[i]].kind = "upvalue"
      <3>1. \A i \in DOMAIN open_upvalues :
               open_upvalues[i] \in Object /\ heap[open_upvalues[i]].kind = "upvalue"
        BY <1>1 DEF TypeOK, NothingDangles
      <3>2. QED  BY <3>1 DEF Keeps
    <2>4. \A m \in Global : globals'[m] = Undefined \/ IsValid(globals[m])'
      <3>1. \A m \in Global : globals'[m] = Undefined \/ ValidNext(globals'[m])
        BY SameGlobals
      <3>2. QED  BY <3>1 DEF IsValid, ValidNext
    <2>5. \A o \in Object : \A p \in References(o)' : IsValid(p)'
      BY DEF IsValid, ValidNext
    <2>6. QED  BY <1>1, <1>4, <1>5, <2>2, <2>3, <2>4, <2>5 DEF NothingDangles
  <1>12. QED  BY <1>7, <1>8, <1>9, <1>10, <1>11 DEF IInv

\* A new closure changes no other object, and leads nowhere yet.
LEMMA NewClosure ==
    ASSUME IInv, NEW o \in Object, IsFresh(o), NEW f \in Function,
           heap' = [heap EXCEPT ![o] = NewClosureOf(f)],
           building' \in {None, o},
           building = None,
           building' = None <=> Captures[f] = <<>>
    PROVE  /\ heap' \in [Object -> HeapObject]
           /\ heap[o].kind = "free" /\ heap'[o] = NewClosureOf(f)
           /\ heap'[o].kind = "closure" /\ heap'[o].function = f
           /\ \A p \in Object :
                 /\ Keeps(p)
                 /\ heap'[p].kind = "upvalue" =>
                       heap[p].kind = "upvalue" /\ heap'[p].location = heap[p].location
                 /\ \A q \in References(p)' : ValidNext(q)
           /\ ClosureInv'
  <1>1. NewClosureOf(f) \in HeapObject
    <2>1. <<>> \in Seq(Object)
      OBVIOUS
    <2>2. QED  BY <2>1 DEF NewClosureOf, HeapObject
  <1>2. /\ heap' \in [Object -> HeapObject]
        /\ heap[o].kind = "free" /\ heap'[o] = NewClosureOf(f)
        /\ \A p \in Object \ {o} : heap'[p] = heap[p]
        /\ \A p \in Object : Keeps(p)
    BY <1>1, FreshObject DEF IInv
  <1>3. /\ heap'[o].kind = "closure" /\ heap'[o].function = f /\ heap'[o].upvalues = <<>>
    BY <1>2 DEF NewClosureOf
  <1>4. ASSUME NEW p \in Object
        PROVE  /\ heap'[p].kind = "upvalue" =>
                     heap[p].kind = "upvalue" /\ heap'[p].location = heap[p].location
               /\ \A q \in References(p)' : ValidNext(q)
    <2>1. CASE p = o
      <3>1. References(p)' = {}
        BY <1>3, <2>1, RangeEmpty DEF References
      <3>2. QED  BY <1>3, <2>1, <3>1
    <2>2. CASE p # o
      <3>1. heap'[p] = heap[p] /\ References(p)' = References(p)
        BY <1>2, <2>2 DEF References
      <3>2. \A q \in References(p) : ValidNext(q)
        BY <1>2, StaysValid DEF IInv, NothingDangles
      <3>3. QED  BY <3>1, <3>2
    <2>3. QED  BY <2>1, <2>2
  <1>5. ClosureInv'
    <2> SUFFICES ASSUME NEW c \in Object, heap'[c].kind = "closure"
                 PROVE  /\ \A i \in DOMAIN heap'[c].upvalues :
                              heap'[heap'[c].upvalues[i]].kind = "upvalue"
                        /\ c # building' =>
                              Len(heap'[c].upvalues) = Len(Captures[heap'[c].function])
                        /\ c = building' =>
                              Len(heap'[c].upvalues) < Len(Captures[heap'[c].function])
      BY DEF ClosureInv, IsClosure
    <2>1. CASE c = o
      <3>1. Captures[f] \in Seq(Capture) /\ o # None
        BY ConstantsAssumption DEF None
      <3>2. Len(Captures[f]) = 0 \/ Len(Captures[f]) > 0
        BY <3>1
      <3>3. Len(Captures[f]) = 0 <=> Captures[f] = <<>>
        BY <3>1
      <3>4. Len(heap'[c].upvalues) = 0 /\ DOMAIN heap'[c].upvalues = {}
        BY <1>3, <2>1
      <3>5. c = building' <=> Captures[f] # <<>>
        BY <2>1, <3>1
      <3>6. heap'[c].function = f
        BY <1>3, <2>1
      <3>7. QED  BY <3>2, <3>3, <3>4, <3>5, <3>6
    <2>2. CASE c # o
      <3>1. heap'[c] = heap[c] /\ IsClosure(c)
        BY <1>2, <2>2 DEF IsClosure
      <3>2. heap[c].upvalues \in Seq(Object)
        BY <3>1, Kinds DEF IInv
      <3>3. \A i \in DOMAIN heap[c].upvalues :
               heap[c].upvalues[i] \in Object /\ heap[heap[c].upvalues[i]].kind = "upvalue"
        BY <3>1, <3>2 DEF ClosureInv, IInv
      <3>4. \A i \in DOMAIN heap[c].upvalues : heap'[heap[c].upvalues[i]].kind = "upvalue"
        BY <1>2, <3>3 DEF Keeps
      <3>5. c # building /\ c # building'
        BY <2>2, ConstantsAssumption DEF None
      <3>6. QED  BY <3>1, <3>4, <3>5 DEF ClosureInv, IInv
    <2>3. QED  BY <2>1, <2>2
  <1>6. QED  BY <1>2, <1>3, <1>4, <1>5

LEMMA RunHolds ==
    ASSUME IInv, NEW o \in Object, Run(o)
    PROVE  IInv'
  <1>1. /\ frames = <<>> /\ IsFresh(o)
        /\ heap' = [heap EXCEPT ![o] = NewClosureOf(Script)]
        /\ registers' = [[s \in DOMAIN registers |->
                             IF s \in 1..FrameSize[Script] THEN Nil ELSE registers[s]]
                         EXCEPT ![0] = o]
        /\ frames' = <<[closure |-> o, base |-> 1, locals |-> 0, live |-> 0]>>
        /\ uncounted_frames' = 1
        /\ UNCHANGED <<open_upvalues, globals, building>>
    BY DEF Run
  <1>2. /\ Script \in Function /\ Arity[Script] = 0 /\ Captures[Script] = <<>>
        /\ FrameSize[Script] <= Slots - 1
    BY ConstantsAssumption
  <1>3. building = None
    BY <1>1 DEF IInv, BuildingInv
  <1>4. /\ heap' \in [Object -> HeapObject]
        /\ heap'[o].kind = "closure" /\ heap'[o].function = Script
        /\ \A p \in Object :
              /\ Keeps(p)
              /\ heap'[p].kind = "upvalue" =>
                    heap[p].kind = "upvalue" /\ heap'[p].location = heap[p].location
              /\ \A q \in References(p)' : ValidNext(q)
        /\ ClosureInv'
    BY <1>1, <1>2, <1>3, NewClosure
  <1>5. uncounted_frames' \in {0, 1}
    BY <1>1
  <1>6. QED  BY <1>1, <1>2, <1>4, <1>5, EntryHolds

LEMMA CallGlobalHolds ==
    ASSUME IInv, NEW n \in Global, CallGlobal(n)
    PROVE  IInv'
  <1>1. PICK closure \in Object, f \in Function :
           /\ frames = <<>> /\ uncounted_frames' = 0
           /\ heap[closure].kind = "closure" /\ heap[closure].function = f
           /\ Arity[f] = 0 /\ FrameSize[f] <= Slots - 1
           /\ registers' = [Window(f, 1) EXCEPT ![0] = closure]
           /\ frames' = <<[closure |-> closure, base |-> 1, locals |-> 0, live |-> 0]>>
           /\ UNCHANGED <<open_upvalues, globals, heap, building>>
    <2>1. IsClosure(globals[n])
      BY DEF CallGlobal
    <2>2. globals[n] \in Object /\ heap[globals[n]].function \in Function
      BY <2>1, Kinds DEF IsClosure, IInv
    <2>3. QED  BY <2>1, <2>2 DEF CallGlobal, IsClosure, FrameOf
  <1>2. FrameSize[f] \in Nat
    BY ConstantsAssumption
  <1>3. \A s : s \in (1 + 0)..(1 + FrameSize[f] - 1) <=> s \in 1..FrameSize[f]
    BY <1>2
  <1>4. registers' = [[s \in DOMAIN registers |->
                          IF s \in 1..FrameSize[f] THEN Nil ELSE registers[s]]
                      EXCEPT ![0] = closure]
    BY <1>1, <1>3 DEF Window
  <1>5. /\ heap' \in [Object -> HeapObject]
        /\ \A o \in Object :
              /\ Keeps(o) /\ heap'[o] = heap[o]
              /\ \A p \in References(o)' : ValidNext(p)
    BY <1>1, SameHeap
  <1>6. ClosureInv'
    BY <1>1, ClosuresStay DEF IInv
  <1>7. heap'[closure].kind = "closure" /\ heap'[closure].function = f
    BY <1>1
  <1>8. uncounted_frames' \in {0, 1}
    BY <1>1
  <1>9. QED  BY <1>1, <1>4, <1>5, <1>6, <1>7, <1>8, EntryHolds

-----------------------------------------------------------------------------
(* Closures and their captures.                                            *)

LEMMA ClosureHolds ==
    ASSUME IInv, NEW f, NEW declares \in BOOLEAN, NEW o \in Object, Closure(f, declares, o)
    PROVE  IInv'
  <1> DEFINE frame == [Newest EXCEPT !.live = @ + 1,
                                     !.locals = @ + (IF declares THEN 1 ELSE 0)]
             slot == Newest.base + Newest.live
  <1>1. /\ Running /\ f \in Nested[FunctionOf(Newest)]
        /\ Newest.live = Newest.locals /\ Newest.live < FrameSize[FunctionOf(Newest)]
        /\ \A i \in DOMAIN Captures[f] :
              Captures[f][i].is_local =>
                  Captures[f][i].index < Newest.locals + (IF declares THEN 1 ELSE 0)
        /\ IsFresh(o) /\ heap' = [heap EXCEPT ![o] = NewClosureOf(f)]
        /\ registers' = [registers EXCEPT ![slot] = o]
        /\ frames' = ReplaceNewest(frame)
        /\ building' = IF Captures[f] = <<>> THEN None ELSE o
        /\ UNCHANGED <<uncounted_frames, open_upvalues, globals>>
    BY DEF Closure
  <1>2. /\ TypeOK /\ FrameInv /\ ClosureInv /\ OpenUpvaluesOrdered /\ NothingDangles
        /\ frames # <<>> /\ building = None
        /\ Newest \in Frame /\ FrameSize[FunctionOf(Newest)] \in Nat
        /\ FunctionOf(Newest) \in Function
    BY <1>1, NewestFrame, NewestType
  <1>3. f \in Function
    BY <1>1, <1>2, ConstantsAssumption
  <1>4. o # None
    BY ConstantsAssumption DEF None
  <1>5. /\ heap' \in [Object -> HeapObject]
        /\ heap[o].kind = "free" /\ heap'[o].kind = "closure" /\ heap'[o].function = f
        /\ \A p \in Object :
              /\ Keeps(p)
              /\ heap'[p].kind = "upvalue" =>
                    heap[p].kind = "upvalue" /\ heap'[p].location = heap[p].location
              /\ \A q \in References(p)' : ValidNext(q)
        /\ ClosureInv'
    BY <1>1, <1>2, <1>3, <1>4, NewClosure
  <1>6. /\ Newest.live \in 0..(FrameSize[FunctionOf(Newest)] - 1)
        /\ Newest.live \in Nat /\ Newest.locals \in Nat /\ Newest.base \in Nat
        /\ Newest.base + FrameSize[FunctionOf(Newest)] <= Slots
        /\ Newest.base >= 1 /\ Slots \in Nat
    <2>1. Newest.live \in Nat /\ Newest.locals \in Nat /\ Newest.base \in Nat /\ Newest.base >= 1
      BY <1>2 DEF Frame
    <2>2. Newest.base + FrameSize[FunctionOf(Newest)] <= Slots
      BY <1>2, NewestType
    <2>3. Slots \in Nat
      BY ConstantsAssumption
    <2>4. QED  BY <1>1, <1>2, <2>1, <2>2, <2>3
  <1>7. slot \in MarkedSlots /\ slot \in 1..(Slots - 1)
    BY <1>2, <1>6, LiveSlots
  <1>8. /\ frame \in Frame /\ frame.closure = Newest.closure /\ frame.base = Newest.base
        /\ frame.live = Newest.live + 1
        /\ frame.locals = Newest.locals + (IF declares THEN 1 ELSE 0)
    <2>1. Newest.live + 1 \in 0..Slots
      BY <1>2, <1>6
    <2>2. Newest.locals + (IF declares THEN 1 ELSE 0) \in 0..Slots
      BY <1>1, <1>6, <2>1
    <2>3. QED  BY <1>2, <2>1, <2>2 DEF Frame
  <1>9. /\ frame.locals <= frame.live /\ frame.live <= FrameSize[FunctionOf(Newest)]
        /\ Newest.locals <= frame.locals /\ frame.live > 0 /\ frame.live - 1 = Newest.live
    BY <1>1, <1>2, <1>6, <1>8
  <1> HIDE DEF frame
  <1>10. ASSUME NEW i \in DOMAIN frames
         PROVE  Keeps(frames[i].closure) /\ frames[i].closure # building'
    <2>1. frames[i].closure \in Object /\ IsClosure(frames[i].closure)
      BY <1>2 DEF TypeOK, IsClosure
    <2>2. frames[i].closure # o /\ frames[i].closure # None
      BY <1>5, <2>1, ConstantsAssumption DEF IsClosure, None
    <2>3. QED  BY <1>1, <1>5, <2>1, <2>2
  <1>11. /\ frames' \in Seq(Frame) /\ frames' # <<>> /\ DOMAIN frames' = DOMAIN frames
         /\ Newest' = frame /\ MarkedSlots' = MarkedSlots
         /\ \A i \in DOMAIN frames :
               /\ frames'[i].base = frames[i].base
               /\ i # Len(frames) => frames'[i] = frames[i]
    BY <1>1, <1>2, <1>8, <1>9, <1>10, SameStack
  <1>12. /\ FrameInv'
         /\ \A i \in DOMAIN frames' :
               /\ IsClosure(frames[i].closure)'
               /\ frames'[i].locals <= frames'[i].live
               /\ frames'[i].live <= FrameSize[FunctionOf(frames[i])']
    BY <1>1, <1>2, <1>8, <1>9, <1>10, SameStackFits
  <1>13. registers \in [0..(Slots - 1) -> Value \cup {Junk}] /\ o \in Value
    BY <1>2 DEF TypeOK, Value
  <1>14. registers' \in [0..(Slots - 1) -> Value \cup {Junk}] /\ registers'[slot] = o
    BY <1>1, <1>7, <1>13
  <1>15. ASSUME NEW s \in MarkedSlots
         PROVE  ValidNext(registers'[s])
    <2>1. IsValid(registers[s]) /\ s \in 0..(Slots - 1)
      BY <1>2, MarkedInFile DEF NothingDangles
    <2>2. registers'[s] = registers[s] \/ registers'[s] = o
      BY <1>1, <1>13, <2>1
    <2>3. ValidNext(registers[s])
      BY <1>5, <2>1, StaysValid
    <2>4. ValidNext(o)
      BY <1>5 DEF ValidNext
    <2>5. QED  BY <2>2, <2>3, <2>4
  <1>16. TypeOK'
    <2>1. building' \in Object \cup {None}
      BY <1>1
    <2>2. QED  BY <1>1, <1>2, <1>5, <1>11, <1>12, <1>14, <2>1 DEF TypeOK
  <1>17. BuildingInv'
    <2> SUFFICES ASSUME building' # None
                 PROVE  BuildingInv'
      BY DEF BuildingInv
    <2>1. building' = o
      BY <1>1
    <2>2. Newest'.live > 0 /\ Reg(Newest.live - 1)' = o
      <3>1. Newest'.base + (Newest'.live - 1) = slot
        BY <1>8, <1>9, <1>11
      <3>2. QED  BY <1>9, <1>11, <1>14, <3>1 DEF Reg
    <2>3. FunctionOf(Newest)' = FunctionOf(Newest)
      <3>1. Newest.closure \in Object /\ IsClosure(Newest.closure)
        BY <1>2, NewestType DEF IsClosure
      <3>2. Keeps(Newest.closure)
        BY <1>5, <3>1
      <3>3. QED  BY <1>8, <1>11, <3>1, <3>2 DEF FunctionOf, Keeps, IsClosure
    <2>4. \A i \in DOMAIN Captures[f] :
             Captures[f][i].is_local => Captures[f][i].index < Newest'.locals
      BY <1>1, <1>8, <1>11
    <2>5. QED  BY <1>1, <1>5, <1>11, <2>1, <2>2, <2>3, <2>4 DEF BuildingInv
  <1>18. OpenUpvaluesOrdered'
    <2>1. \A p \in Range(open_upvalues) : heap'[p].location = heap[p].location
      <3>1. \A p \in Range(open_upvalues) : p \in Object /\ heap[p].kind = "upvalue"
        BY <1>2, UpvalueSlots
      <3>2. QED  BY <1>5, <3>1 DEF Keeps
    <2>2. ASSUME NEW i \in DOMAIN frames
          PROVE  frames'[i] \in Frame /\ frames[i].locals <= frames'[i].locals
      <3>1. frames[i] \in Frame /\ frames'[i] \in Frame
        BY <1>2, <1>11 DEF TypeOK
      <3>2. CASE i = Len(frames)
        BY <1>9, <1>11, <3>1, <3>2 DEF Newest
      <3>3. CASE i # Len(frames)
        BY <1>11, <3>1, <3>3 DEF Frame
      <3>4. QED  BY <3>2, <3>3
    <2>3. QED  BY <1>1, <1>2, <1>5, <1>11, <2>1, <2>2, UpvaluesStay
  <1>19. NothingDangles'
    <2>1. \A s \in MarkedSlots' : IsValid(registers[s])'
      BY <1>11, <1>15 DEF IsValid, ValidNext
    <2>2. \A i \in DOMAIN open_upvalues' : heap'[open_upvalues'[i]].kind = "upvalue"
      <3>1. \A i \in DOMAIN open_upvalues :
               open_upvalues[i] \in Object /\ heap[open_upvalues[i]].kind = "upvalue"
        BY <1>2 DEF TypeOK, NothingDangles
      <3>2. QED  BY <1>1, <1>5, <3>1 DEF Keeps
    <2>3. \A m \in Global : globals'[m] = Undefined \/ IsValid(globals[m])'
      <3>1. \A m \in Global : globals'[m] = Undefined \/ ValidNext(globals'[m])
        BY <1>1, <1>5, SameGlobals
      <3>2. QED  BY <3>1 DEF IsValid, ValidNext
    <2>4. \A p \in Object : \A q \in References(p)' : IsValid(q)'
      BY <1>5 DEF IsValid, ValidNext
    <2>5. building' # None => IsClosure(building)'
      BY <1>1, <1>5 DEF IsClosure
    <2>6. QED  BY <1>12, <2>1, <2>2, <2>3, <2>4, <2>5 DEF NothingDangles
  <1>20. QED  BY <1>5, <1>12, <1>16, <1>17, <1>18, <1>19 DEF IInv

\* The closure being built has its next Capture word.
LEMMA NextWord ==
    ASSUME IInv, building # None
    PROVE  /\ TypeOK /\ FrameInv /\ ClosureInv /\ OpenUpvaluesOrdered /\ NothingDangles
           /\ frames # <<>> /\ building \in Object /\ IsClosure(building)
           /\ heap[building].function \in Nested[FunctionOf(Newest)]
           /\ heap[building].function \in Function
           /\ heap[building].upvalues \in Seq(Object)
           /\ Len(heap[building].upvalues) < Len(Captures[heap[building].function])
           /\ NextCapture \in Capture
           /\ NextCapture.is_local => NextCapture.index < Newest.locals
           /\ ~NextCapture.is_local => NextCapture.index < Len(Captures[FunctionOf(Newest)])
  <1> DEFINE g == heap[building].function
             u == heap[building].upvalues
  <1>1. /\ TypeOK /\ FrameInv /\ ClosureInv /\ OpenUpvaluesOrdered /\ NothingDangles
        /\ frames # <<>> /\ IsClosure(building) /\ building \in Object
        /\ g \in Nested[FunctionOf(Newest)]
    BY DEF IInv, NothingDangles, BuildingInv, IsClosure
  <1>2. g \in Function /\ u \in Seq(Object) /\ FunctionOf(Newest) \in Function
    BY <1>1, Kinds, NewestType
  <1>3. Len(u) < Len(Captures[g]) /\ Len(u) \in Nat
    BY <1>1, <1>2 DEF ClosureInv
  <1>4. Captures[g] \in Seq(Capture)
    BY <1>2, ConstantsAssumption
  <1>5. Len(u) + 1 \in DOMAIN Captures[g]
    BY <1>3, <1>4
  <1>6. NextCapture = Captures[g][Len(u) + 1]
    BY DEF NextCapture
  <1> HIDE DEF g, u
  <1>7. NextCapture \in Capture
    BY <1>4, <1>5, <1>6
  <1>8. NextCapture.is_local => NextCapture.index < Newest.locals
    BY <1>5, <1>6 DEF IInv, BuildingInv, g
  <1>9. ~NextCapture.is_local => NextCapture.index < Len(Captures[FunctionOf(Newest)])
    BY <1>1, <1>2, <1>5, <1>6, ConstantsAssumption
  <1>10. QED  BY <1>1, <1>2, <1>3, <1>7, <1>8, <1>9 DEF g, u

\* The closure being built gets one more upvalue.
LEMMA UpvalueAdded ==
    ASSUME IInv, building # None,
           NEW objects \in [Object -> HeapObject], NEW up \in Object,
           objects[building] = heap[building], objects[up].kind = "upvalue",
           \A o \in Object :
               /\ heap[o].kind # "free" => objects[o] = heap[o]
               /\ heap[o].kind = "free" => objects[o].kind # "closure",
           AddUpvalue(objects, up)
    PROVE  /\ heap' \in [Object -> HeapObject]
           /\ \A o \in Object :
                 /\ Keeps(o)
                 /\ o # building => heap'[o] = objects[o]
                 /\ heap'[o].kind = objects[o].kind
           /\ heap'[building].function = heap[building].function
           /\ heap'[building].upvalues = Append(heap[building].upvalues, up)
           /\ building' \in {None, building}
           /\ ClosureInv'
  <1> DEFINE u == heap[building].upvalues
             g == heap[building].function
  <1>1. /\ TypeOK /\ ClosureInv /\ building \in Object /\ IsClosure(building)
        /\ u \in Seq(Object) /\ g \in Function /\ Captures[g] \in Seq(Capture)
        /\ Len(u) < Len(Captures[g])
    BY NextWord, ConstantsAssumption
  <1>2. heap[building] \in [kind : {"closure"}, function : Function, upvalues : Seq(Object)]
    BY <1>1, Kinds
  <1>3. heap' = [objects EXCEPT ![building] = [heap[building] EXCEPT !.upvalues = Append(u, up)]]
    BY DEF AddUpvalue
  <1>4. Append(u, up) \in Seq(Object)
    BY <1>1
  <1>5. /\ heap'[building] \in [kind : {"closure"}, function : Function, upvalues : Seq(Object)]
        /\ heap'[building].kind = "closure" /\ heap'[building].function = g
        /\ heap'[building].upvalues = Append(u, up)
    BY <1>1, <1>2, <1>3, <1>4
  <1>6. \A o \in Object : o # building => heap'[o] = objects[o]
    BY <1>3
  <1>7. heap' \in [Object -> HeapObject]
    <2>1. heap'[building] \in HeapObject
      BY <1>5 DEF HeapObject
    <2>2. \A o \in Object : heap'[o] \in HeapObject
      BY <1>6, <2>1
    <2>3. heap' = [o \in Object |-> heap'[o]]
      BY <1>3
    <2>4. QED  BY <2>2, <2>3
  <1>8. \A o \in Object : heap'[o].kind = objects[o].kind
    BY <1>1, <1>5, <1>6 DEF IsClosure
  <1>9. \A o \in Object : Keeps(o)
    BY <1>1, <1>5, <1>6 DEF Keeps, IsClosure
  <1>10. /\ building' = IF Len(u) + 1 = Len(Captures[g]) THEN None ELSE building
         /\ building' \in {None, building}
    BY DEF AddUpvalue
  <1>11. ClosureInv'
    <2> SUFFICES ASSUME NEW c \in Object, heap'[c].kind = "closure"
                 PROVE  /\ \A i \in DOMAIN heap'[c].upvalues :
                              heap'[heap'[c].upvalues[i]].kind = "upvalue"
                        /\ c # building' =>
                              Len(heap'[c].upvalues) = Len(Captures[heap'[c].function])
                        /\ c = building' =>
                              Len(heap'[c].upvalues) < Len(Captures[heap'[c].function])
      BY DEF ClosureInv, IsClosure
    <2>1. c # None
      BY ConstantsAssumption DEF None
    <2>2. \A o \in Object : heap[o].kind = "upvalue" => heap'[o].kind = "upvalue"
      BY <1>9 DEF Keeps
    <2>3. CASE c = building
      <3>1. Len(Append(u, up)) = Len(u) + 1 /\ Len(u) \in Nat /\ Len(Captures[g]) \in Nat
        BY <1>1
      <3>2. /\ DOMAIN Append(u, up) = 1..(Len(u) + 1) /\ DOMAIN u = 1..Len(u)
            /\ Append(u, up)[Len(u) + 1] = up
            /\ \A i \in 1..Len(u) : Append(u, up)[i] = u[i]
        BY <1>1
      <3>3. \A i \in 1..(Len(u) + 1) : i \in 1..Len(u) \/ i = Len(u) + 1
        BY <3>1
      <3>4. \A i \in 1..Len(u) : u[i] \in Object /\ heap[u[i]].kind = "upvalue"
        BY <1>1, <3>2 DEF ClosureInv
      <3>5. \A i \in DOMAIN Append(u, up) : heap'[Append(u, up)[i]].kind = "upvalue"
        BY <1>8, <2>2, <3>2, <3>3, <3>4
      <3>6. c # building' => Len(u) + 1 = Len(Captures[g])
        BY <1>10, <2>3
      <3>7. c = building' => Len(u) + 1 < Len(Captures[g])
        <4>1. ASSUME c = building'
              PROVE  Len(u) + 1 # Len(Captures[g])
          BY <1>10, <2>1, <4>1
        <4>2. QED  BY <1>1, <3>1, <4>1
      <3>8. QED  BY <1>5, <2>3, <3>1, <3>5, <3>6, <3>7
    <2>4. CASE c # building
      <3>1. heap[c].kind # "free" /\ heap'[c] = heap[c] /\ IsClosure(c)
        BY <1>6, <2>4 DEF IsClosure
      <3>2. heap[c].upvalues \in Seq(Object)
        BY <1>1, <3>1, Kinds
      <3>3. \A i \in DOMAIN heap[c].upvalues :
               heap[c].upvalues[i] \in Object /\ heap[heap[c].upvalues[i]].kind = "upvalue"
        BY <1>1, <3>1, <3>2 DEF ClosureInv
      <3>4. c # building'
        BY <1>10, <2>1, <2>4
      <3>5. QED  BY <1>1, <2>2, <2>4, <3>1, <3>3, <3>4 DEF ClosureInv
    <2>5. QED  BY <2>3, <2>4
  <1>12. QED  BY <1>5, <1>7, <1>6, <1>8, <1>9, <1>10, <1>11

\* With the list in order, that is all a capture does.
LEMMA CaptureHolds ==
    ASSUME IInv, building # None,
           NEW objects \in [Object -> HeapObject], NEW up \in Object,
           objects[building] = heap[building], objects[up].kind = "upvalue",
           \A o \in Object :
               /\ heap[o].kind # "free" => objects[o] = heap[o]
               /\ heap[o].kind = "free" => objects[o].kind # "closure"
               /\ objects[o].kind = "upvalue" /\ heap[o].kind = "free" => objects[o].closed = Nil,
           AddUpvalue(objects, up),
           open_upvalues' \in Seq(Object),
           \A i \in DOMAIN open_upvalues' : objects[open_upvalues'[i]].kind = "upvalue",
           OpenUpvaluesOrdered',
           UNCHANGED <<registers, frames, uncounted_frames, globals>>
    PROVE  IInv'
  <1> DEFINE u == heap[building].upvalues
  <1>1. /\ TypeOK /\ FrameInv /\ NothingDangles /\ frames # <<>>
        /\ building \in Object /\ IsClosure(building) /\ u \in Seq(Object)
    BY NextWord
  <1>2. /\ heap' \in [Object -> HeapObject]
        /\ \A o \in Object :
              /\ Keeps(o)
              /\ o # building => heap'[o] = objects[o]
              /\ heap'[o].kind = objects[o].kind
        /\ heap'[building].function = heap[building].function
        /\ heap'[building].upvalues = Append(u, up)
        /\ building' \in {None, building}
        /\ ClosureInv'
    BY UpvalueAdded
  <1>3. ASSUME NEW i \in DOMAIN frames
        PROVE  Keeps(frames[i].closure) /\ frames[i].closure # building'
    <2>1. frames[i].closure \in Object /\ frames[i].closure # building
      BY <1>1 DEF TypeOK, FrameInv, IsClosure
    <2>2. frames[i].closure # None
      BY <2>1, ConstantsAssumption DEF None
    <2>3. QED  BY <1>2, <2>1, <2>2
  <1>4. /\ Newest \in Frame /\ Newest.closure = Newest.closure /\ Newest.base = Newest.base
        /\ Newest.locals <= Newest.live /\ Newest.live <= FrameSize[FunctionOf(Newest)]
        /\ frames' = ReplaceNewest(Newest)
    BY <1>1, NewestType, SameNewest
  <1>5. MarkedSlots' = MarkedSlots /\ Newest' = Newest /\ FunctionOf(Newest)' = FunctionOf(Newest)
    <2>1. MarkedSlots' = MarkedSlots /\ Newest' = Newest
      BY <1>1, <1>3, <1>4, SameStack
    <2>2. Newest.closure \in Object /\ IsClosure(Newest.closure)
      BY <1>1, NewestType DEF IsClosure
    <2>3. Keeps(Newest.closure)
      BY <1>2, <2>2
    <2>4. QED  BY <2>1, <2>2, <2>3 DEF FunctionOf, Keeps, IsClosure
  <1>6. /\ FrameInv'
        /\ \A i \in DOMAIN frames' :
              /\ IsClosure(frames[i].closure)'
              /\ frames'[i].locals <= frames'[i].live
              /\ frames'[i].live <= FrameSize[FunctionOf(frames[i])']
    BY <1>1, <1>3, <1>4, SameStackFits
  <1>7. TypeOK'
    <2>1. building' \in Object \cup {None}
      BY <1>1, <1>2
    <2>2. QED  BY <1>1, <1>2, <1>6, <2>1 DEF TypeOK
  <1>8. BuildingInv'
    <2> SUFFICES ASSUME building' # None
                 PROVE  BuildingInv'
      BY DEF BuildingInv
    <2>1. building' = building
      BY <1>2
    <2>2. Reg(Newest.live - 1)' = Reg(Newest.live - 1)
      BY <1>5 DEF Reg
    <2>3. QED  BY <1>2, <1>5, <2>1, <2>2 DEF BuildingInv, IInv
  <1>9. NothingDangles'
    <2>1. \A s \in MarkedSlots' : IsValid(registers[s])'
      <3>1. \A s \in MarkedSlots : ValidNext(registers'[s])
        BY <1>2, SameRegisters
      <3>2. QED  BY <1>5, <3>1 DEF IsValid, ValidNext
    <2>2. \A i \in DOMAIN open_upvalues' : heap'[open_upvalues'[i]].kind = "upvalue"
      BY <1>2
    <2>3. \A m \in Global : globals'[m] = Undefined \/ IsValid(globals[m])'
      <3>1. \A m \in Global : globals'[m] = Undefined \/ ValidNext(globals'[m])
        BY <1>2, SameGlobals
      <3>2. QED  BY <3>1 DEF IsValid, ValidNext
    <2>4. ASSUME NEW o \in Object, NEW q \in References(o)'
          PROVE  IsValid(q)'
      <3>1. CASE o = building
        <4>1. References(o)' = Range(u) \cup {up}
          <5>1. Range(Append(u, up)) = Range(u) \cup {up}
            BY <1>1, RangeAppend
          <5>2. heap'[o].kind = "closure"
            BY <1>1, <1>2, <3>1 DEF IsClosure
          <5>3. QED  BY <1>2, <3>1, <5>1, <5>2 DEF References
        <4>2. CASE q = up
          BY <1>2, <4>2 DEF IsValid
        <4>3. CASE q \in Range(u)
          <5>1. q \in References(o)
            BY <1>1, <3>1, <4>3 DEF References, IsClosure
          <5>2. ValidNext(q)
            BY <1>1, <1>2, <5>1, StaysValid DEF NothingDangles
          <5>3. QED  BY <5>2 DEF IsValid, ValidNext
        <4>4. QED  BY <4>1, <4>2, <4>3
      <3>2. CASE o # building /\ heap[o].kind # "free"
        <4>1. heap'[o] = heap[o] /\ References(o)' = References(o)
          BY <1>2, <3>2 DEF References
        <4>2. ValidNext(q)
          BY <1>1, <1>2, <4>1, StaysValid DEF NothingDangles
        <4>3. QED  BY <4>2 DEF IsValid, ValidNext
      <3>3. CASE o # building /\ heap[o].kind = "free"
        <4>1. heap'[o] = objects[o] /\ heap'[o].kind # "closure"
          BY <1>2, <3>3
        <4>2. References(o)' = {}
          BY <3>3, <4>1 DEF References
        <4>3. QED  BY <4>2
      <3>4. QED  BY <3>1, <3>2, <3>3
    <2>5. building' # None => IsClosure(building)'
      BY <1>1, <1>2 DEF IsClosure
    <2>6. QED  BY <1>6, <2>1, <2>2, <2>3, <2>4, <2>5 DEF NothingDangles
  <1>10. QED  BY <1>2, <1>6, <1>7, <1>8, <1>9 DEF IInv

\* An upvalue that is there already: nothing but the closure changes.
LEMMA KnownUpvalueHolds ==
    ASSUME IInv, building # None, NEW up \in Object, heap[up].kind = "upvalue",
           AddUpvalue(heap, up),
           UNCHANGED <<registers, frames, uncounted_frames, open_upvalues, globals>>
    PROVE  IInv'
  <1>1. /\ TypeOK /\ FrameInv /\ OpenUpvaluesOrdered /\ NothingDangles
        /\ building \in Object /\ IsClosure(building)
    BY NextWord
  <1>2. /\ heap \in [Object -> HeapObject]
        /\ \A o \in Object : heap[o].kind = "free" => heap[o].kind \notin {"closure", "upvalue"}
    BY <1>1 DEF TypeOK
  <1>3. \A o \in Object :
            /\ o # building => heap'[o] = heap[o]
            /\ heap'[o].kind = heap[o].kind
    BY <1>2, UpvalueAdded
  <1>4. \A o \in Object : heap[o].kind = "upvalue" => o # building
    BY <1>1 DEF IsClosure
  <1>5. \A i \in DOMAIN open_upvalues :
            open_upvalues[i] \in Object /\ heap[open_upvalues[i]].kind = "upvalue"
    BY <1>1 DEF TypeOK, NothingDangles
  <1>6. OpenUpvaluesOrdered'
    <2>1. \A o \in Range(open_upvalues) : heap'[o].location = heap[o].location
      BY <1>3, <1>4, <1>5 DEF Range
    <2>2. \A o \in Object : heap'[o].kind = "upvalue" /\ heap'[o].location # Closed =>
             heap[o].kind = "upvalue" /\ heap[o].location # Closed
      BY <1>3, <1>4
    <2>3. \A i \in DOMAIN frames :
             /\ frames[i] \in Frame
             /\ frames[i].locals <= frames[i].locals
      <3>1. \A i \in DOMAIN frames : frames[i] \in Frame
        BY <1>1 DEF TypeOK
      <3>2. \A frame \in Frame : frame.locals <= frame.locals
        BY ConstantsAssumption DEF Frame
      <3>3. QED  BY <3>1, <3>2
    <2>4. QED  BY <1>1, <2>1, <2>2, <2>3, UpvaluesStay
  <1>7. open_upvalues' \in Seq(Object)
        /\ \A i \in DOMAIN open_upvalues' : heap[open_upvalues'[i]].kind = "upvalue"
    BY <1>1, <1>5 DEF TypeOK
  <1>8. QED  BY <1>2, <1>6, <1>7, CaptureHolds

LEMMA CaptureOuterHolds ==
    ASSUME IInv, building # None, CaptureOuter
    PROVE  IInv'
  <1> DEFINE c == Newest.closure
             k == NextCapture.index
  <1>1. /\ TypeOK /\ FrameInv /\ ClosureInv /\ frames # <<>>
        /\ NextCapture \in Capture
        /\ k < Len(Captures[FunctionOf(Newest)])
    BY NextWord DEF CaptureOuter
  <1>2. c \in Object /\ IsClosure(c) /\ c # building
    BY <1>1, NewestType DEF IsClosure
  <1>3. /\ heap[c].upvalues \in Seq(Object)
        /\ Len(heap[c].upvalues) = Len(Captures[FunctionOf(Newest)])
        /\ \A i \in DOMAIN heap[c].upvalues : heap[heap[c].upvalues[i]].kind = "upvalue"
    BY <1>1, <1>2, Kinds DEF ClosureInv, FunctionOf
  <1>4. k \in Nat
    BY <1>1 DEF Capture
  <1>5. k + 1 \in DOMAIN heap[c].upvalues
    BY <1>1, <1>3, <1>4
  <1>6. PICK up \in Object : up = heap[c].upvalues[k + 1]
    BY <1>3, <1>5
  <1>7. heap[up].kind = "upvalue"
    BY <1>3, <1>5, <1>6
  <1>8. AddUpvalue(heap, up) /\ UNCHANGED <<registers, frames, uncounted_frames, open_upvalues, globals>>
    BY <1>6 DEF CaptureOuter
  <1>9. QED  BY <1>7, <1>8, KnownUpvalueHolds

LEMMA CaptureSharedHolds ==
    ASSUME IInv, building # None, CaptureShared
    PROVE  IInv'
  <1> DEFINE local == Newest.base + NextCapture.index
             k == Above(local) + 1
  <1>1. /\ TypeOK /\ FrameInv /\ NothingDangles /\ frames # <<>>
        /\ NextCapture \in Capture
    BY NextWord
  <1>2. local \in Int
    BY <1>1, NewestType DEF Capture, Frame
  <1>3. /\ Above(local) < Len(open_upvalues)
        /\ AddUpvalue(heap, open_upvalues[k])
        /\ UNCHANGED <<registers, frames, uncounted_frames, open_upvalues, globals>>
    BY DEF CaptureShared, Shares
  <1>4. Above(local) \in 0..Len(open_upvalues)
    BY <1>1, <1>2, PassedPrefix
  <1> HIDE DEF local
  <1>5. k \in DOMAIN open_upvalues
    BY <1>1, <1>3, <1>4 DEF TypeOK
  <1>6. open_upvalues[k] \in Object /\ heap[open_upvalues[k]].kind = "upvalue"
    BY <1>1, <1>5 DEF TypeOK, NothingDangles
  <1>7. QED  BY <1>3, <1>6, KnownUpvalueHolds

\* A new upvalue in its place in the list.
LEMMA CaptureNewHolds ==
    ASSUME IInv, building # None, NEW o \in Object, CaptureNew(o)
    PROVE  IInv'
  <1> DEFINE objects == [heap EXCEPT ![o] = OpenUpvalue(Newest.base + NextCapture.index)]
  <1>1. /\ TypeOK /\ FrameInv /\ OpenUpvaluesOrdered /\ NothingDangles /\ frames # <<>>
        /\ building \in Object /\ IsClosure(building)
        /\ NextCapture \in Capture /\ NextCapture.is_local
        /\ NextCapture.index < Newest.locals
    BY NextWord DEF CaptureNew
  <1>2. PICK local \in 1..(Slots - 1) :
            /\ local = Newest.base + NextCapture.index
            /\ local \in Newest.base..(Newest.base + Newest.locals - 1)
    <2>1. /\ NextCapture.index \in Nat /\ Newest.base \in Nat
          /\ Newest.locals \in Nat /\ Newest.live \in Nat
      BY <1>1, NewestType DEF Capture, Frame
    <2>2. Newest.locals <= FrameSize[FunctionOf(Newest)] /\ FrameSize[FunctionOf(Newest)] \in Nat
      BY <1>1, <2>1, NewestType
    <2>3. NextCapture.index \in 0..(FrameSize[FunctionOf(Newest)] - 1)
      BY <1>1, <2>1, <2>2
    <2>4. Newest.base + NextCapture.index \in 1..(Slots - 1)
      BY <1>1, <2>3, LiveSlots
    <2>5. QED  BY <1>1, <2>1, <2>4
  <1>3. /\ ~Shares(local) /\ IsFresh(o)
        /\ AddUpvalue(objects, o)
        /\ open_upvalues' = SubSeq(open_upvalues, 1, Above(local)) \o <<o>>
                            \o SubSeq(open_upvalues, Above(local) + 1, Len(open_upvalues))
        /\ UNCHANGED <<registers, frames, uncounted_frames, globals>>
    BY <1>2 DEF CaptureNew
  <1>4. /\ OpenUpvalue(local) \in HeapObject
        /\ OpenUpvalue(local).kind = "upvalue" /\ OpenUpvalue(local).location = local
        /\ OpenUpvalue(local).closed = Nil
    <2>1. local \in 0..(Slots - 1) \cup {Closed} /\ Nil \in Value
      BY DEF Value
    <2>2. QED  BY <2>1 DEF OpenUpvalue, HeapObject
  <1>5. /\ objects \in [Object -> HeapObject] /\ heap[o].kind = "free"
        /\ objects[o] = OpenUpvalue(local)
        /\ \A p \in Object \ {o} : objects[p] = heap[p]
    BY <1>1, <1>2, <1>3, <1>4 DEF TypeOK, IsFresh, FreeAddresses
  <1> HIDE DEF objects
  <1>6. o # building /\ objects[building] = heap[building] /\ objects[o].kind = "upvalue"
    BY <1>1, <1>4, <1>5 DEF IsClosure
  <1>7. \A p \in Object :
            /\ heap[p].kind # "free" => objects[p] = heap[p]
            /\ heap[p].kind = "free" => objects[p].kind # "closure"
            /\ objects[p].kind = "upvalue" /\ heap[p].kind = "free" => objects[p].closed = Nil
    BY <1>4, <1>5
  <1>8. \A p \in Object :
            /\ p # building => heap'[p] = objects[p]
            /\ heap'[p].kind = objects[p].kind
    BY <1>3, <1>5, <1>6, <1>7, UpvalueAdded
  <1>9. /\ heap'[o].location = local
        /\ \A p \in Object : heap[p].kind = "upvalue" => heap'[p] = heap[p]
    BY <1>1, <1>4, <1>5, <1>6, <1>7, <1>8 DEF IsClosure
  <1>10. \A p \in Range(open_upvalues) :
             p \in Object /\ heap[p].kind = "upvalue" /\ heap[p].location \in 1..(Slots - 1)
    BY <1>1, UpvalueSlots
  <1>11. PICK n \in Nat : n = Len(open_upvalues) /\ DOMAIN open_upvalues = 1..n
    BY <1>1 DEF TypeOK
  <1>12. PICK a \in 0..n : a = Above(local)
    BY <1>1, <1>11, PassedPrefix
  <1>13. /\ \A i \in 1..a : heap[open_upvalues[i]].location > local
         /\ a < n => heap[open_upvalues[a + 1]].location < local
    <2>1. \A p \in Range(open_upvalues) : heap[p].location \in Int
      BY <1>10
    <2>2. /\ \A i \in 1..a : heap[open_upvalues[i]].location > local
          /\ a < n => heap[open_upvalues[a + 1]].location <= local
      BY <1>1, <1>11, <1>12, <2>1, WalkStops
    <2>3. a < n => heap[open_upvalues[a + 1]].location # local
      BY <1>3, <1>11, <1>12 DEF Shares
    <2>4. a < n => heap[open_upvalues[a + 1]].location \in Int
      <3>1. ASSUME a < n
            PROVE  a + 1 \in 1..n
        BY <3>1
      <3>2. QED  BY <1>11, <2>1, <3>1 DEF Range
    <2>5. QED  BY <2>2, <2>3, <2>4
  <1>14. /\ open_upvalues' \in Seq(Object) /\ DOMAIN open_upvalues' = 1..(n + 1)
         /\ open_upvalues'[a + 1] = o
         /\ \A i \in DOMAIN open_upvalues : i <= a => open_upvalues'[i] = open_upvalues[i]
         /\ \A i \in DOMAIN open_upvalues : i > a => open_upvalues'[i + 1] = open_upvalues[i]
         /\ Range(open_upvalues') = Range(open_upvalues) \cup {o}
    <2>1. open_upvalues \in Seq(Object)
      BY <1>1 DEF TypeOK
    <2>2. open_upvalues' = Inserted(open_upvalues, a, o)
      BY <1>3, <1>11, <1>12 DEF Inserted
    <2>3. open_upvalues' \in Seq(Object)
      BY <1>11, <2>1, <2>2, InsertedAt
    <2>8. open_upvalues'[a + 1] = o
      BY <1>11, <2>1, <2>2, InsertedAt
    <2>4. DOMAIN open_upvalues' = 1..(n + 1)
      BY <1>11, <2>1, <2>2, InsertedAt
    <2>5. Range(open_upvalues') = Range(open_upvalues) \cup {o}
      BY <1>11, <2>1, <2>2, InsertedAt
    <2>6. MovesUp(open_upvalues, open_upvalues', a)
      BY <1>11, <2>1, <2>2, InsertedAt
    <2>7. QED  BY <2>3, <2>4, <2>5, <2>6, <2>8 DEF MovesUp
  <1>15. \A i \in 1..n : /\ open_upvalues[i] \in Range(open_upvalues)
                         /\ heap[open_upvalues[i]].location \in Int
                         /\ heap'[open_upvalues[i]].location = heap[open_upvalues[i]].location
    BY <1>9, <1>10, <1>11 DEF Range
  <1>16. \A i, j \in 1..(n + 1) :
             i < j => heap'[open_upvalues'[i]].location > heap'[open_upvalues'[j]].location
    <2> DEFINE f == [i \in 1..n |-> heap[open_upvalues[i]].location]
               g == [i \in 1..(n + 1) |-> heap'[open_upvalues'[i]].location]
    <2>1. Descending(f, n)
      <3>1. \A i, j \in 1..n : i < j => heap[open_upvalues[i]].location > heap[open_upvalues[j]].location
        BY <1>1, <1>11 DEF OpenUpvaluesOrdered
      <3>2. QED  BY <1>15, <3>1 DEF Descending
    <2>2. \A i \in 1..a : f[i] > local /\ g[i] = f[i]
      <3>1. \A i \in 1..a : i \in 1..n /\ i \in 1..(n + 1) /\ i <= a
        OBVIOUS
      <3>2. QED  BY <1>11, <1>13, <1>14, <1>15, <3>1
    <2>3. a < n => f[a + 1] < local
      <3>1. a < n => a + 1 \in 1..n
        OBVIOUS
      <3>2. QED  BY <1>13, <3>1
    <2>4. g[a + 1] = local
      <3>1. a + 1 \in 1..(n + 1)
        OBVIOUS
      <3>2. QED  BY <1>9, <1>14, <3>1
    <2>5. ASSUME NEW i \in (a + 1)..n
          PROVE  g[i + 1] = f[i]
      <3>1. i + 1 \in 1..(n + 1) /\ i \in 1..n /\ i > a
        OBVIOUS
      <3>2. open_upvalues'[i + 1] = open_upvalues[i]
        BY <1>11, <1>14, <3>1
      <3>3. QED  BY <1>15, <3>1, <3>2
    <2> HIDE DEF f, g
    <2>6. Descending(g, n + 1)
      <3>1. local \in Int
        OBVIOUS
      <3>2. \A i \in (a + 1)..n : g[i + 1] = f[i]
        BY <2>5
      <3>3. QED  BY <2>1, <2>2, <2>3, <2>4, <3>1, <3>2, InsertedInOrder
    <2>7. \A i, j \in 1..(n + 1) : i < j => g[i] > g[j]
      BY <2>6 DEF Descending
    <2>8. QED  BY <2>7 DEF g
  <1>17. OpenUpvaluesOrdered'
    <2>1. ASSUME NEW p \in Object, heap'[p].kind = "upvalue", heap'[p].location # Closed
          PROVE  p \in Range(open_upvalues')
      <3>1. CASE p = o
        BY <1>14, <3>1
      <3>2. CASE p # o
        <4>1. heap[p].kind = "upvalue" /\ heap'[p] = heap[p]
          BY <1>5, <1>8, <1>9, <2>1, <3>2
        <4>2. QED  BY <1>1, <1>14, <2>1, <4>1 DEF OpenUpvaluesOrdered
      <3>3. QED  BY <3>1, <3>2
    <2>2. ASSUME NEW p \in Range(open_upvalues')
          PROVE  \E i \in DOMAIN frames' :
                    heap'[p].location \in frames'[i].base..(frames'[i].base + frames'[i].locals - 1)
      <3>1. frames' = frames
        BY <1>3
      <3>2. CASE p = o
        <4>1. Len(frames) \in DOMAIN frames
          BY <1>1, NewestType
        <4>2. QED  BY <1>2, <1>9, <3>1, <3>2, <4>1 DEF Newest
      <3>3. CASE p \in Range(open_upvalues)
        <4>1. heap'[p] = heap[p]
          BY <1>9, <1>10, <3>3
        <4>2. QED  BY <1>1, <3>1, <3>3, <4>1 DEF OpenUpvaluesOrdered
      <3>4. QED  BY <1>14, <2>2, <3>2, <3>3
    <2>3. QED  BY <1>14, <1>16, <2>1, <2>2 DEF OpenUpvaluesOrdered
  <1>18. \A i \in DOMAIN open_upvalues' : objects[open_upvalues'[i]].kind = "upvalue"
    <2>1. \A p \in Range(open_upvalues') : objects[p].kind = "upvalue"
      BY <1>6, <1>7, <1>10, <1>14
    <2>2. QED  BY <2>1 DEF Range
  <1>19. QED  BY <1>3, <1>5, <1>6, <1>7, <1>14, <1>17, <1>18, CaptureHolds

-----------------------------------------------------------------------------
(* A collection.                                                           *)

\* What the gray stack reaches holds the start and what each member leads to.
LEMMA ReachClosed ==
    ASSUME \A o \in Object : References(o) \subseteq Object, NEW S \in SUBSET Object
    PROVE  /\ Reach(S) \subseteq Object
           /\ S \subseteq Reach(S)
           /\ \A p \in Reach(S) : References(p) \subseteq Reach(S)
  <1>1. Reach(S) \subseteq Object /\ S \subseteq Reach(S)
    BY DEF Reach
  <1>2. ASSUME NEW p \in Reach(S), NEW q \in References(p), q \notin Reach(S)
        PROVE  FALSE
    <2>1. p \in Object /\ q \in Object
      BY <1>1
    <2>2. PICK T \in SUBSET Object :
              /\ S \subseteq T /\ \A o \in T : References(o) \subseteq T
              /\ q \notin T
      BY <1>2, <2>1 DEF Reach
    <2>3. p \in T
      BY <2>2 DEF Reach
    <2>4. QED  BY <2>2, <2>3
  <1>3. QED  BY <1>1, <1>2

LEMMA CollectHolds ==
    ASSUME IInv, Collect
    PROVE  IInv'
  <1> DEFINE R == Reach(Roots)
  <1>1. /\ TypeOK /\ ClosureInv /\ FrameInv /\ BuildingInv
        /\ OpenUpvaluesOrdered /\ NothingDangles
    BY DEF IInv
  <1>2. /\ heap' = [o \in Object |-> IF o \in R THEN heap[o] ELSE Freed]
        /\ UNCHANGED <<registers, frames, uncounted_frames, open_upvalues, globals, building>>
    BY DEF Collect
  <1>3. ASSUME NEW o \in Object
        PROVE  References(o) \subseteq Object
    <2>1. CASE heap[o].kind = "closure"
      <3>1. heap[o].upvalues \in Seq(Object)
        BY <1>1, <2>1, Kinds DEF IsClosure
      <3>2. QED  BY <2>1, <3>1 DEF References, Range
    <2>2. CASE heap[o].kind = "upvalue"
      <3>1. heap[o].closed \in Value
        BY <1>1, <2>2, Kinds
      <3>2. QED  BY <2>2, <3>1 DEF References, Value
    <2>3. CASE heap[o].kind \notin {"closure", "upvalue"}
      BY <2>3 DEF References
    <2>4. QED  BY <2>1, <2>2, <2>3
  <1>4. /\ R \subseteq Object /\ Roots \subseteq R
        /\ \A p \in R : References(p) \subseteq R
    <2>1. Roots \in SUBSET Object
      BY DEF Roots
    <2>2. QED  BY <1>3, <2>1, ReachClosed
  <1>5. /\ \A o \in R : heap'[o] = heap[o]
        /\ \A o \in Object : heap'[o].kind # "free" => o \in R
        /\ \A o \in Object : o \notin R => heap'[o] = Freed
    BY <1>2, <1>4 DEF Freed
  <1>6. heap' \in [Object -> HeapObject]
    <2>1. Freed \in HeapObject /\ heap \in [Object -> HeapObject]
      BY <1>1 DEF HeapObject, TypeOK
    <2>2. QED  BY <1>2, <2>1
  <1> HIDE DEF R
  <1>7. ASSUME NEW s \in MarkedSlots
        PROVE  ValidNext(registers[s]) /\ (registers[s] # Nil => registers[s] \in R)
    <2>1. IsValid(registers[s])
      BY <1>1 DEF NothingDangles
    <2>2. registers[s] \in Object => registers[s] \in R
      BY <1>4 DEF Roots
    <2>3. QED  BY <1>5, <2>1, <2>2 DEF IsValid, ValidNext
  <1>8. ASSUME NEW i \in DOMAIN frames
        PROVE  /\ frames[i].closure \in R /\ IsClosure(frames[i].closure)'
               /\ heap'[frames[i].closure] = heap[frames[i].closure]
               /\ FunctionOf(frames[i])' = FunctionOf(frames[i])
               /\ WindowEnd(frames[i])' = WindowEnd(frames[i])
    <2>1. frames[i].closure \in Object /\ IsClosure(frames[i].closure)
      BY <1>1 DEF TypeOK, IsClosure
    <2>2. frames[i].closure \in R
      BY <1>4, <2>1 DEF Roots
    <2>3. heap'[frames[i].closure] = heap[frames[i].closure]
      BY <1>5, <2>2
    <2>4. QED  BY <1>2, <2>1, <2>2, <2>3 DEF IsClosure, FunctionOf, WindowEnd
  <1>9. MarkedSlots' = MarkedSlots
    BY <1>2, <1>8 DEF MarkedSlots, SlotsOf
  <1>10. \A o \in Range(open_upvalues) :
             /\ o \in R /\ heap'[o] = heap[o] /\ heap[o].kind = "upvalue"
    <2>1. \A o \in Range(open_upvalues) : o \in Object /\ heap[o].kind = "upvalue"
      BY <1>1, UpvalueSlots
    <2>2. QED  BY <1>4, <1>5, <2>1 DEF Roots
  <1>11. \A n \in Global : globals[n] = Undefined \/ ValidNext(globals[n])
    <2>1. ASSUME NEW n \in Global, globals[n] # Undefined
          PROVE  ValidNext(globals[n])
      <3>1. IsValid(globals[n]) /\ globals[n] \in Range(globals)
        BY <1>1, <2>1 DEF NothingDangles, TypeOK, Range
      <3>2. globals[n] \in Object => globals[n] \in R
        BY <1>4, <3>1 DEF Roots
      <3>3. QED  BY <1>5, <3>1, <3>2 DEF IsValid, ValidNext
    <2>2. QED  BY <2>1
  <1>12. ASSUME NEW o \in Object
         PROVE  \A q \in References(o)' : ValidNext(q)
    <2>1. CASE o \in R
      <3>1. References(o)' = References(o)
        BY <1>5, <2>1 DEF References
      <3>2. \A q \in References(o) : q \in R /\ q \in Object /\ IsValid(q)
        BY <1>1, <1>3, <1>4, <2>1 DEF NothingDangles
      <3>3. \A q \in References(o) : ValidNext(q)
        BY <1>5, <3>2 DEF IsValid, ValidNext
      <3>4. QED  BY <3>1, <3>3
    <2>2. CASE o \notin R
      <3>1. heap'[o].kind = "free"
        BY <1>5, <2>2 DEF Freed
      <3>2. References(o)' = {}
        BY <3>1 DEF References
      <3>3. QED  BY <3>2
    <2>3. QED  BY <2>1, <2>2
  <1>13. ASSUME building # None
         PROVE  /\ building \in R /\ IsClosure(building)' /\ heap'[building] = heap[building]
                /\ frames # <<>> /\ Newest' = Newest
                /\ FunctionOf(Newest)' = FunctionOf(Newest)
                /\ Reg(Newest.live - 1)' = Reg(Newest.live - 1)
    <2>1. /\ frames # <<>> /\ Newest.live > 0 /\ Reg(Newest.live - 1) = building
          /\ IsClosure(building) /\ building \in Object
      BY <1>1, <1>13 DEF BuildingInv, NothingDangles, IsClosure
    <2>2. Newest.live - 1 \in 0..(FrameSize[FunctionOf(Newest)] - 1)
      BY <1>1, <2>1, NewestType DEF Frame
    <2>3. Newest.base + (Newest.live - 1) \in MarkedSlots
      BY <1>1, <2>1, <2>2, LiveSlots
    <2>4. building \in R
      BY <1>7, <1>13, <2>1, <2>3 DEF Reg, None, Nil
    <2>5. Newest' = Newest /\ Len(frames) \in DOMAIN frames
      BY <1>1, <1>2, <2>1, NewestType DEF Newest
    <2>6. FunctionOf(Newest)' = FunctionOf(Newest)
      BY <1>2, <1>8, <2>5 DEF Newest
    <2>7. Reg(Newest.live - 1)' = Reg(Newest.live - 1)
      BY <1>2, <2>5 DEF Reg
    <2>8. QED  BY <1>2, <1>5, <2>1, <2>4, <2>5, <2>6, <2>7 DEF IsClosure
  <1>14. TypeOK'
    <2>1. \A i \in DOMAIN frames' :
             /\ IsClosure(frames[i].closure)'
             /\ frames'[i].locals <= frames'[i].live
             /\ frames'[i].live <= FrameSize[FunctionOf(frames[i])']
      BY <1>1, <1>2, <1>8 DEF TypeOK
    <2>2. QED  BY <1>1, <1>2, <1>6, <2>1 DEF TypeOK
  <1>15. ClosureInv'
    <2> SUFFICES ASSUME NEW c \in Object, heap'[c].kind = "closure"
                 PROVE  /\ \A i \in DOMAIN heap'[c].upvalues :
                              heap'[heap'[c].upvalues[i]].kind = "upvalue"
                        /\ c # building' =>
                              Len(heap'[c].upvalues) = Len(Captures[heap'[c].function])
                        /\ c = building' =>
                              Len(heap'[c].upvalues) < Len(Captures[heap'[c].function])
      BY DEF ClosureInv, IsClosure
    <2>1. c \in R /\ heap'[c] = heap[c] /\ IsClosure(c)
      BY <1>5 DEF IsClosure
    <2>2. \A i \in DOMAIN heap[c].upvalues :
             heap[c].upvalues[i] \in R /\ heap[heap[c].upvalues[i]].kind = "upvalue"
      <3>1. References(c) = Range(heap[c].upvalues)
        BY <2>1 DEF References, IsClosure
      <3>2. QED  BY <1>1, <1>4, <2>1, <3>1 DEF ClosureInv, Range
    <2>3. QED  BY <1>1, <1>2, <1>5, <2>1, <2>2 DEF ClosureInv
  <1>16. FrameInv'
    <2>1. \A i \in DOMAIN frames : WindowEnd(frames[i])' <= Slots
      BY <1>1, <1>8 DEF FrameInv
    <2>2. QED  BY <1>1, <1>2, <2>1 DEF FrameInv
  <1>17. BuildingInv'
    <2> SUFFICES ASSUME building' # None
                 PROVE  BuildingInv'
      BY DEF BuildingInv
    <2>1. building # None /\ building' = building
      BY <1>2
    <2>2. QED  BY <1>1, <1>2, <1>13, <2>1 DEF BuildingInv
  <1>18. OpenUpvaluesOrdered'
    <2>1. \A o \in Object : heap'[o].kind = "upvalue" /\ heap'[o].location # Closed =>
             heap[o].kind = "upvalue" /\ heap[o].location # Closed
      BY <1>5
    <2>2. \A i \in DOMAIN frames :
             frames[i] \in Frame /\ frames[i].locals <= frames[i].locals
      <3>1. \A i \in DOMAIN frames : frames[i] \in Frame
        BY <1>1 DEF TypeOK
      <3>2. \A frame \in Frame : frame.locals <= frame.locals
        BY ConstantsAssumption DEF Frame
      <3>3. QED  BY <3>1, <3>2
    <2>3. \A o \in Range(open_upvalues) : heap'[o].location = heap[o].location
      BY <1>10
    <2>4. QED  BY <1>1, <1>2, <2>1, <2>2, <2>3, UpvaluesStay
  <1>19. NothingDangles'
    <2>1. \A s \in MarkedSlots' : IsValid(registers[s])'
      BY <1>2, <1>7, <1>9 DEF IsValid, ValidNext
    <2>2. \A i \in DOMAIN frames' : IsClosure(frames[i].closure)'
      BY <1>2, <1>8
    <2>3. \A i \in DOMAIN open_upvalues' : heap'[open_upvalues'[i]].kind = "upvalue"
      BY <1>2, <1>10 DEF Range
    <2>4. \A n \in Global : globals'[n] = Undefined \/ IsValid(globals[n])'
      BY <1>2, <1>11 DEF IsValid, ValidNext
    <2>5. \A o \in Object : \A q \in References(o)' : IsValid(q)'
      BY <1>12 DEF IsValid, ValidNext
    <2>6. building' # None => IsClosure(building)'
      BY <1>2, <1>13
    <2>7. QED  BY <2>1, <2>2, <2>3, <2>4, <2>5, <2>6 DEF NothingDangles
  <1>20. QED  BY <1>14, <1>15, <1>16, <1>17, <1>18, <1>19 DEF IInv

-----------------------------------------------------------------------------
(* Every step.                                                             *)

LEMMA InitHolds ==
    Init => IInv
  <1> SUFFICES ASSUME Init PROVE IInv
    OBVIOUS
  <1>1. /\ frames = <<>> /\ DOMAIN frames = {} /\ open_upvalues = <<>>
        /\ DOMAIN open_upvalues = {} /\ Range(open_upvalues) = {}
        /\ uncounted_frames = 0 /\ building = None
        /\ registers = [s \in 0..(Slots - 1) |-> IF s = 0 THEN Nil ELSE Junk]
        /\ globals = [n \in Global |-> Undefined]
        /\ heap = [o \in Object |-> Freed]
    BY DEF Init, Range
  <1>2. \A o \in Object : heap[o].kind = "free" /\ heap[o] \in HeapObject
    BY <1>1 DEF Freed, HeapObject
  <1>3. TypeOK
    <2>1. frames \in Seq(Frame) /\ open_upvalues \in Seq(Object)
      BY <1>1
    <2>2. registers \in [0..(Slots - 1) -> Value \cup {Junk}]
      BY <1>1 DEF Value
    <2>3. heap \in [Object -> HeapObject] /\ globals \in [Global -> Value \cup {Undefined}]
      BY <1>1, <1>2
    <2>4. QED  BY <1>1, <2>1, <2>2, <2>3 DEF TypeOK
  <1>4. ClosureInv
    BY <1>2 DEF ClosureInv, IsClosure
  <1>5. FrameInv
    <2>1. Len(frames) = 0 /\ MaxCallDepth \in Nat
      BY <1>1, ConstantsAssumption
    <2>2. QED  BY <1>1, <2>1 DEF FrameInv
  <1>6. BuildingInv
    BY <1>1 DEF BuildingInv
  <1>7. OpenUpvaluesOrdered
    BY <1>1, <1>2 DEF OpenUpvaluesOrdered
  <1>8. NothingDangles
    <2>1. MarkedSlots = {0} /\ IsValid(registers[0])
      <3>1. MarkedSlots = {0}
        BY <1>1 DEF MarkedSlots, SlotsOf
      <3>2. 0 \in 0..(Slots - 1)
        BY ConstantsAssumption
      <3>3. QED  BY <1>1, <3>1, <3>2 DEF IsValid
    <2>2. \A o \in Object : References(o) = {}
      BY <1>2 DEF References
    <2>3. QED  BY <1>1, <2>1, <2>2 DEF NothingDangles
  <1>9. QED  BY <1>3, <1>4, <1>5, <1>6, <1>7, <1>8 DEF IInv

\* An instruction of the running frame.
LEMMA InstructionHolds ==
    ASSUME IInv, Running, Instruction
    PROVE  IInv'
  <1>1. FreeAddresses \subseteq Object
    BY DEF FreeAddresses
  <1>2. CASE \E r \in Destination, v \in Readable : Load(r, v)
    BY <1>2, LoadHolds
  <1>3. CASE \E r \in Destination, o \in FreeAddresses : NewData(r, o)
    BY <1>1, <1>3, NewDataHolds
  <1>4. CASE \E r \in Live : \E i \in DOMAIN heap[Newest.closure].upvalues : SetUpvalue(i, r)
    BY <1>4, SetUpvalueHolds
  <1>5. CASE \E r \in Live, n \in Global : SetGlobal(n, r)
    BY <1>5, SetGlobalHolds
  <1>6. CASE \E r \in Live : FreeTemporaries(r)
    BY <1>6, FreeTemporariesHolds
  <1>7. CASE \E r \in Live : EndScope(r)
    BY <1>7, EndScopeHolds
  <1>8. CASE \E r \in Live : Call(r)
    BY <1>8, CallHolds
  <1>9. CASE DeclareLocal
    BY <1>9, DeclareLocalHolds
  <1>10. CASE \E f \in Nested[FunctionOf(Newest)], declares \in BOOLEAN, o \in FreeAddresses :
                  Closure(f, declares, o)
    BY <1>1, <1>10, ClosureHolds
  <1>11. CASE \E v \in Value : Return(v)
    BY <1>11, ReturnHolds
  <1>12. CASE RuntimeError
    BY <1>12, RuntimeErrorHolds
  <1>13. QED
    BY <1>2, <1>3, <1>4, <1>5, <1>6, <1>7, <1>8, <1>9, <1>10, <1>11, <1>12 DEF Instruction

LEMMA StutterHolds ==
    ASSUME IInv, UNCHANGED vars
    PROVE  IInv'
  BY DEF vars, IInv, TypeOK, ClosureInv, FrameInv, BuildingInv, OpenUpvaluesOrdered,
         NothingDangles, IsClosure, IsValid, FunctionOf, WindowEnd, MarkedSlots, SlotsOf,
         References, Newest, Reg

LEMMA StepHolds ==
    IInv /\ [Next]_vars => IInv'
  <1> SUFFICES ASSUME IInv, [Next]_vars
               PROVE  IInv'
    OBVIOUS
  <1>1. CASE Running /\ Instruction
    BY <1>1, InstructionHolds
  <1>2. CASE building # None /\ NextUpvalue
    <2>1. FreeAddresses \subseteq Object
      BY DEF FreeAddresses
    <2>2. QED  BY <1>2, <2>1, CaptureOuterHolds, CaptureSharedHolds, CaptureNewHolds
               DEF NextUpvalue
  <1>3. CASE Collect
    BY <1>3, CollectHolds
  <1>4. CASE \E o \in Object : Run(o)
    BY <1>4, RunHolds
  <1>5. CASE \E n \in Global : CallGlobal(n)
    BY <1>5, CallGlobalHolds
  <1>6. CASE UNCHANGED vars
    BY <1>6, StutterHolds
  <1>7. QED  BY <1>1, <1>2, <1>3, <1>4, <1>5, <1>6 DEF Next

-----------------------------------------------------------------------------
(* The theorems.                                                           *)

\* The inductive invariant holds of every reachable state.
LEMMA Invariant ==
    Spec => []IInv
  <1>1. QED  BY InitHolds, StepHolds, PTL DEF Spec

\* Every variable has its type in every state: in particular a frame's base
\* and counts stay inside the file, and its closure is a closure.
THEOREM TypeCorrect ==
    Spec => []TypeOK
  <1>1. IInv => TypeOK
    BY DEF IInv
  <1>2. QED  BY <1>1, Invariant, PTL

\* The list that capture_upvalue searches and close_upvalues empties is
\* always in order and complete, whatever is called, captured, closed,
\* returned from or abandoned by a runtime error.
THEOREM AlwaysOrdered ==
    Spec => []OpenUpvaluesOrdered
  <1>1. IInv => OpenUpvaluesOrdered
    BY DEF IInv
  <1>2. QED  BY <1>1, Invariant, PTL

\* mark_roots reads only slots that hold a value, and a collection in any
\* state, also between two captures of a CLOSURE, frees nothing in use.
THEOREM NeverDangles ==
    Spec => []NothingDangles
  <1>1. IInv => NothingDangles
    BY DEF IInv
  <1>2. QED  BY <1>1, Invariant, PTL

\* The checks of call_value are enough for both arrays: no frame beyond the
\* depth limit (and the script's own), no window beyond the registers.
THEOREM AlwaysWithinLimits ==
    Spec => []WithinLimits
  <1>1. ASSUME IInv
        PROVE  WithinLimits
    <2>1. /\ FrameInv /\ uncounted_frames \in {0, 1}
          /\ Len(frames) \in Nat /\ MaxCallDepth \in Nat
      BY <1>1, ConstantsAssumption DEF IInv, TypeOK
    <2>2. Len(frames) <= MaxCallDepth + 1
      BY <2>1 DEF FrameInv
    <2>3. QED  BY <2>1, <2>2 DEF FrameInv, WithinLimits
  <1>2. QED  BY <1>1, Invariant, PTL

-----------------------------------------------------------------------------
(* The windows of the boxed variables.                                      *)

\* The registers in use of one frame end before those of any later one begin,
\* and a frame that is waiting for a call holds its callee in a temporary.
StackedInv ==
    \A i, j \in DOMAIN frames : i < j =>
        /\ frames[i].base + frames[i].live <= frames[j].base
        /\ frames[i].locals < frames[i].live

BoxesInv == IInv /\ StackedInv

-----------------------------------------------------------------------------
(* The windows stay apart.                                                 *)

\* A call: the callee's window starts where the caller's registers end.
LEMMA StackedPush ==
    ASSUME TypeOK, FrameInv, StackedInv, frames # <<>>,
           NEW caller \in Frame, NEW callee \in Frame,
           caller.base = Newest.base, caller.locals < caller.live,
           callee.base = Newest.base + caller.live,
           frames' = Append(ReplaceNewest(caller), callee)
    PROVE  StackedInv'
  <1>0. frames \in Seq(Frame)
    BY DEF TypeOK
  <1>1p. PICK n \in Nat \ {0} : PushedFacts(n, caller, callee)
    BY <1>0, Pushed
  <1>1. /\ n \in Nat \ {0}
        /\ n = Len(frames) /\ DOMAIN frames = 1..n /\ frames[n] = Newest
        /\ DOMAIN frames' = (1..n) \cup {n + 1} /\ n + 1 \notin 1..n
        /\ frames'[n] = caller /\ frames'[n + 1] = callee
        /\ \A i \in 1..n : i # n => frames'[i] = frames[i]
    BY <1>1p DEF PushedFacts
  <1>2. \A i \in 1..n : frames[i] \in Frame
    BY <1>1 DEF TypeOK
  <1>3. ASSUME NEW i \in 1..n, NEW j \in (1..n) \cup {n + 1}, i < j
        PROVE  /\ frames'[i].base + frames'[i].live <= frames'[j].base
               /\ frames'[i].locals < frames'[i].live
    <2>1. CASE i = n
      <3>1. j = n + 1
        BY <1>3, <2>1
      <3>2. QED  BY <1>1, <2>1, <3>1 DEF Frame
    <2>2. CASE i # n
      <3>1. i < n /\ frames'[i] = frames[i] /\ n \in 1..n
        BY <1>1, <2>2
      <3>2. /\ frames[i].base + frames[i].live <= frames[n].base
            /\ frames[i].locals < frames[i].live
        BY <1>1, <3>1 DEF StackedInv
      <3>3. frames[i] \in Frame /\ frames[n] \in Frame /\ Newest = frames[n]
        BY <1>1, <1>2, <3>1
      <3>4. CASE j = n
        BY <1>1, <3>1, <3>2, <3>4
      <3>5. CASE j = n + 1
        <4>1. frames'[j].base = frames[n].base + caller.live
          BY <1>1, <3>3, <3>5
        <4>2. /\ frames[i].base \in Nat /\ frames[i].live \in Nat
              /\ frames[n].base \in Nat /\ caller.live \in Nat
          BY <3>3, SMTT(30) DEF Frame
        <4>3. frames[i].base + frames[i].live <= frames[n].base + caller.live
          BY <3>2, <4>2
        <4>4. QED  BY <3>1, <3>2, <4>1, <4>3
      <3>6. CASE j \in 1..n /\ j # n
        <4>1. frames'[j] = frames[j]
          BY <1>1, <3>6
        <4>2. QED  BY <1>1, <1>3, <3>1, <3>6, <4>1 DEF StackedInv
      <3>7. QED  BY <3>4, <3>5, <3>6
    <2>3. QED  BY <2>1, <2>2
  <1>4. ASSUME NEW i \in DOMAIN frames', NEW j \in DOMAIN frames', i < j
        PROVE  i \in 1..n
    BY <1>1, <1>4
  <1>5. QED  BY <1>1, <1>3, <1>4 DEF StackedInv

\* A return, or the loss of all frames.
LEMMA StackedPop ==
    ASSUME StackedInv, DOMAIN frames' \subseteq DOMAIN frames,
           \A i \in DOMAIN frames' : frames'[i] = frames[i]
    PROVE  StackedInv'
  BY DEF StackedInv

\* A first frame.
LEMMA StackedFirst ==
    ASSUME NEW frame, frames' = <<frame>>
    PROVE  StackedInv'
  BY DEF StackedInv

-----------------------------------------------------------------------------
(* The boxes of registers.                                                 *)

\* No two open upvalues are of one register.
LEMMA OneBox ==
    ASSUME IInv, NEW o \in Range(open_upvalues), NEW p \in Range(open_upvalues),
           heap[o].location = heap[p].location
    PROVE  o = p
  <1>1. PICK i \in DOMAIN open_upvalues : o = open_upvalues[i]
    BY DEF Range
  <1>2. PICK j \in DOMAIN open_upvalues : p = open_upvalues[j]
    BY DEF Range
  <1>3. open_upvalues \in Seq(Object) /\ i \in Nat /\ j \in Nat
    BY DEF IInv, TypeOK
  <1>4. heap[o].location \in Int
    BY UpvalueSlots DEF IInv
  <1>5. ~(i < j) /\ ~(j < i)
    BY <1>1, <1>2, <1>4 DEF IInv, OpenUpvaluesOrdered
  <1>6. QED  BY <1>1, <1>2, <1>3, <1>5

\* The box of a register is its open upvalue.
LEMMA BoxOfOpen ==
    ASSUME IInv, NEW o \in Range(open_upvalues), NEW s, s = heap[o].location
    PROVE  BoxOf(s) = o
  <1>1. OpenAt(s) = {o}
    BY OneBox DEF OpenAt
  <1>2. QED  BY <1>1 DEF BoxOf

\* A register has a box of its own, or none.
LEMMA BoxCases ==
    ASSUME IInv, NEW s
    PROVE  \/ BoxOf(s) = 0 /\ \A o \in Range(open_upvalues) : heap[o].location # s
           \/ /\ BoxOf(s) \in Range(open_upvalues) /\ heap[BoxOf(s)].location = s
              /\ BoxOf(s) # 0 /\ BoxOf(s) \in Object /\ s # Closed
              /\ BoxOf(s) \in OfKind("upvalue")
  <1>1. CASE OpenAt(s) = {}
    BY <1>1 DEF OpenAt, BoxOf
  <1>2. CASE OpenAt(s) # {}
    <2>1. PICK o \in Range(open_upvalues) : s = heap[o].location
      BY <1>2 DEF OpenAt
    <2>2. BoxOf(s) = o
      BY <2>1, BoxOfOpen
    <2>3. o \in Object /\ heap[o].kind = "upvalue" /\ heap[o].location \in 1..(Slots - 1)
      BY UpvalueSlots DEF IInv
    <2>4. o # 0 /\ s # Closed
      BY <2>1, <2>3, ConstantsAssumption DEF Closed
    <2>5. QED  BY <2>1, <2>2, <2>3, <2>4 DEF OfKind
  <1>3. QED  BY <1>1, <1>2

\* Only variables have boxes.
LEMMA TemporaryHasNoBox ==
    ASSUME IInv, NEW s,
           \A i \in DOMAIN frames : s \notin frames[i].base..(frames[i].base + frames[i].locals - 1)
    PROVE  BoxOf(s) = 0
  <1>1. BoxOf(s) # 0 => BoxOf(s) \in Range(open_upvalues) /\ heap[BoxOf(s)].location = s
    BY BoxCases
  <1>2. QED  BY <1>1 DEF IInv, OpenUpvaluesOrdered

\* The list and the places stay.
LEMMA SameBoxes ==
    ASSUME UNCHANGED open_upvalues,
           \A o \in Range(open_upvalues) : heap'[o].location = heap[o].location
    PROVE  \A s : BoxOf(s)' = BoxOf(s)
  <1>1. ASSUME NEW s
        PROVE  BoxOf(s)' = BoxOf(s)
    <2>1. OpenAt(s)' = OpenAt(s)
      BY DEF OpenAt
    <2>2. QED  BY <2>1 DEF BoxOf
  <1>2. QED  BY <1>1

-----------------------------------------------------------------------------
(* The mapped state.                                                       *)

ActivationRecord == [closure : Object, vals : Seq(Value), boxed : Seq(Object \cup {0})]

\* The box of each slot, or 0.
Box == [s \in 0..(Slots - 1) |-> BoxOf(s)]

\* An activation, from its window.
Act(closure, base, live, box, regs) ==
    [closure |-> closure,
     vals |-> [r \in 1..live |-> IF box[base + r - 1] = 0 THEN regs[base + r - 1] ELSE Nil],
     boxed |-> [r \in 1..live |-> box[base + r - 1]]]

\* What is known of the boxes of registers: all that is needed of open_upvalues.
BoxFacts ==
    /\ DOMAIN Box = 0..(Slots - 1)
    /\ \A s \in 0..(Slots - 1) :
          \/ Box[s] = 0 /\ \A o \in Range(open_upvalues) : heap[o].location # s
          \/ /\ Box[s] # 0 /\ Box[s] \in Range(open_upvalues) /\ heap[Box[s]].location = s
             /\ Box[s] \in Object /\ heap[Box[s]].kind = "upvalue"
    /\ \A o \in Object : heap[o].kind = "upvalue" /\ heap[o].location # Closed =>
          /\ heap[o].location \in 1..(Slots - 1) /\ Box[heap[o].location] = o

\* Every activation is its frame's.
ActivationFacts ==
    /\ Len(frames) \in Nat /\ DOMAIN frames = 1..Len(frames)
    /\ Activations \in Seq(ActivationRecord) /\ Len(Activations) = Len(frames)
    /\ DOMAIN Activations = 1..Len(frames)
    /\ \A i \in 1..Len(frames) :
          /\ frames[i].closure \in Object /\ IsClosure(frames[i].closure)
          /\ frames[i].base \in Nat \ {0} /\ frames[i].live \in Nat /\ frames[i].locals \in Nat
          /\ frames[i].locals <= frames[i].live
          /\ frames[i].base + frames[i].live <= Slots
          /\ \A s \in frames[i].base..(frames[i].base + frames[i].live - 1) :
                registers[s] \in Value
          /\ Activations[i] =
                Act(frames[i].closure, frames[i].base, frames[i].live, Box, registers)

\* Every closure and every upvalue is mapped to one.
HeapFacts ==
    /\ DOMAIN Closures = OfKind("closure") /\ DOMAIN Boxes = OfKind("upvalue")
    /\ \A c \in OfKind("closure") :
          Closures[c] = [function |-> heap[c].function, upvalues |-> heap[c].upvalues]
    /\ \A b \in OfKind("upvalue") :
          Boxes[b] = IF heap[b].location = Closed THEN heap[b].closed
                                                  ELSE registers[heap[b].location]

\* The registers in use of a frame are in the file and hold values.
LEMMA InUse ==
    ASSUME IInv, NEW i \in DOMAIN frames, NEW r \in 0..(frames[i].live - 1)
    PROVE  /\ frames[i].base + r \in 1..(Slots - 1)
           /\ registers[frames[i].base + r] \in Value
           /\ IsValid(registers[frames[i].base + r])
  <1>1. /\ frames[i] \in Frame /\ IsClosure(frames[i].closure)
        /\ frames[i].live <= FrameSize[FunctionOf(frames[i])]
    BY DEF IInv, TypeOK
  <1>2. FunctionOf(frames[i]) \in Function
    BY <1>1, Kinds DEF IInv, Frame, FunctionOf
  <1>3. frames[i].base + r \in 0..(WindowEnd(frames[i]) - 1) /\ frames[i].base + r # 0
    BY <1>1, <1>2, ConstantsAssumption DEF WindowEnd, Frame
  <1>4. frames[i].base + r \in MarkedSlots /\ frames[i].base + r \in 0..(Slots - 1)
    BY <1>3, WindowMarked DEF IInv
  <1>5. IsValid(registers[frames[i].base + r])
    BY <1>4 DEF IInv, NothingDangles
  <1>6. QED  BY <1>3, <1>4, <1>5, ConstantsAssumption DEF IsValid, Value

\* The open upvalues give each slot at most one box, and each open upvalue is
\* the box of the slot it points at.
LEMMA BoxesOfRegisters ==
    IInv => BoxFacts
  <1> SUFFICES ASSUME IInv
               PROVE  BoxFacts
    OBVIOUS
  <1>1. DOMAIN Box = 0..(Slots - 1) /\ \A s \in 0..(Slots - 1) : Box[s] = BoxOf(s)
    BY DEF Box
  <1>2. ASSUME NEW s \in 0..(Slots - 1)
        PROVE  \/ Box[s] = 0 /\ \A o \in Range(open_upvalues) : heap[o].location # s
               \/ /\ Box[s] # 0 /\ Box[s] \in Range(open_upvalues)
                  /\ heap[Box[s]].location = s
                  /\ Box[s] \in Object /\ heap[Box[s]].kind = "upvalue"
    <2>1. Box[s] = BoxOf(s)
      BY <1>1
    <2>2. QED  BY <2>1, BoxCases DEF OfKind
  <1>3. ASSUME NEW o \in Object, heap[o].kind = "upvalue", heap[o].location # Closed
        PROVE  heap[o].location \in 1..(Slots - 1) /\ Box[heap[o].location] = o
    <2>1. o \in Range(open_upvalues)
      BY <1>3 DEF IInv, OpenUpvaluesOrdered
    <2>2. heap[o].location \in 1..(Slots - 1)
      BY <2>1, UpvalueSlots DEF IInv
    <2>3. PICK s \in 0..(Slots - 1) : s = heap[o].location
      BY <2>2
    <2>4. BoxOf(s) = o
      BY <2>1, <2>3, BoxOfOpen
    <2>5. QED  BY <1>1, <2>2, <2>3, <2>4
  <1>4. QED  BY <1>1, <1>2, <1>3 DEF BoxFacts

\* A window in the file makes an activation.
LEMMA ActType ==
    ASSUME NEW closure \in Object, NEW base \in Nat, NEW live \in Nat, NEW box, NEW regs,
           \A s \in base..(base + live - 1) : regs[s] \in Value /\ box[s] \in Object \cup {0}
    PROVE  /\ Act(closure, base, live, box, regs) \in ActivationRecord
           /\ Act(closure, base, live, box, regs).closure = closure
           /\ Len(Act(closure, base, live, box, regs).vals) = live
           /\ DOMAIN Act(closure, base, live, box, regs).vals = 1..live
           /\ Len(Act(closure, base, live, box, regs).boxed) = live
           /\ DOMAIN Act(closure, base, live, box, regs).boxed = 1..live
           /\ \A r \in 0..(live - 1) :
                 /\ Act(closure, base, live, box, regs).boxed[r + 1] = box[base + r]
                 /\ Act(closure, base, live, box, regs).vals[r + 1] =
                       IF box[base + r] = 0 THEN regs[base + r] ELSE Nil
  <1> DEFINE v == [r \in 1..live |->
                     IF box[base + r - 1] = 0 THEN regs[base + r - 1] ELSE Nil]
             b == [r \in 1..live |-> box[base + r - 1]]
  <1>1. \A r \in 1..live : base + r - 1 \in base..(base + live - 1)
    OBVIOUS
  <1>2. v \in [1..live -> Value] /\ b \in [1..live -> Object \cup {0}]
    BY <1>1 DEF Value
  <1>3. /\ v \in Seq(Value) /\ Len(v) = live /\ DOMAIN v = 1..live
        /\ b \in Seq(Object \cup {0}) /\ Len(b) = live /\ DOMAIN b = 1..live
    <2> HIDE DEF v, b
    <2>1. QED  BY <1>2, FunctionIsSeq
  <1>4. ASSUME NEW r \in 0..(live - 1)
        PROVE  /\ b[r + 1] = box[base + r]
               /\ v[r + 1] = IF box[base + r] = 0 THEN regs[base + r] ELSE Nil
    <2>1. r + 1 \in 1..live /\ base + (r + 1) - 1 = base + r
      OBVIOUS
    <2>2. QED  BY <2>1
  <1>5. Act(closure, base, live, box, regs) = [closure |-> closure, vals |-> v, boxed |-> b]
    BY DEF Act
  <1> HIDE DEF v, b
  <1>6. QED  BY <1>3, <1>4, <1>5 DEF ActivationRecord

\* What two windows have in common.
LEMMA ActSame ==
    ASSUME NEW closure, NEW base \in Nat, NEW live \in Nat, NEW box, NEW regs,
           NEW box2, NEW regs2,
           \A s \in base..(base + live - 1) :
              box2[s] = box[s] /\ (box[s] = 0 => regs2[s] = regs[s])
    PROVE  Act(closure, base, live, box2, regs2) = Act(closure, base, live, box, regs)
  <1>1. \A r \in 1..live : base + r - 1 \in base..(base + live - 1)
    OBVIOUS
  <1>2. QED  BY <1>1 DEF Act

\* The registers in use of each frame make an activation.
LEMMA ActivationsOfFrames ==
    IInv => ActivationFacts
  <1> SUFFICES ASSUME IInv
               PROVE  ActivationFacts
    OBVIOUS
  <1>0. frames \in Seq(Frame)
    BY DEF IInv, TypeOK
  <1>1. PICK n \in Nat : n = Len(frames) /\ DOMAIN frames = 1..n
    BY <1>0
  <1>2. ASSUME NEW i \in 1..n
        PROVE  /\ frames[i].closure \in Object /\ IsClosure(frames[i].closure)
               /\ frames[i].base \in Nat \ {0} /\ frames[i].live \in Nat
               /\ frames[i].locals \in Nat /\ frames[i].locals <= frames[i].live
               /\ frames[i].base + frames[i].live <= Slots
               /\ \A s \in frames[i].base..(frames[i].base + frames[i].live - 1) :
                     registers[s] \in Value /\ BoxOf(s) \in Object \cup {0} /\ BoxOf(s) = Box[s]
               /\ ActivationOf(frames[i]) =
                     Act(frames[i].closure, frames[i].base, frames[i].live, Box, registers)
               /\ ActivationOf(frames[i]) \in ActivationRecord
    <2>1. /\ frames[i] \in Frame /\ IsClosure(frames[i].closure)
          /\ frames[i].locals <= frames[i].live
          /\ frames[i].live <= FrameSize[FunctionOf(frames[i])]
          /\ WindowEnd(frames[i]) <= Slots
      BY <1>1 DEF IInv, TypeOK, FrameInv
    <2>2. PICK closure \in Object, base \in Nat \ {0}, live \in Nat, locals \in Nat :
              /\ closure = frames[i].closure /\ base = frames[i].base
              /\ live = frames[i].live /\ locals = frames[i].locals
      BY <2>1 DEF Frame
    <2>3. FrameSize[FunctionOf(frames[i])] \in Nat
      <3>1. FunctionOf(frames[i]) \in Function
        BY <2>1, <2>2, Kinds DEF IInv, FunctionOf
      <3>2. QED  BY <3>1, ConstantsAssumption
    <2>4. base + live <= Slots
      BY <2>1, <2>2, <2>3, ConstantsAssumption, SMTT(30) DEF WindowEnd
    <2>5. ASSUME NEW s \in base..(base + live - 1)
          PROVE  /\ registers[s] \in Value /\ BoxOf(s) \in Object \cup {0} /\ BoxOf(s) = Box[s]
      <3>1. s - base \in 0..(live - 1) /\ base + (s - base) = s /\ s \in 0..(Slots - 1)
        BY <2>4, ConstantsAssumption
      <3>2. registers[s] \in Value
        BY <1>1, <2>2, <3>1, InUse
      <3>3. QED  BY <3>1, <3>2, BoxCases DEF Box
    <2>6. ActivationOf(frames[i]) = Act(closure, base, live, Box, registers)
      <3>1. \A r \in 1..live : base + r - 1 \in base..(base + live - 1)
        OBVIOUS
      <3>2. \A r \in 1..live : BoxOf(base + r - 1) = Box[base + r - 1]
        BY <2>5, <3>1
      <3>3. QED  BY <2>2, <3>2 DEF ActivationOf, Act
    <2>7. Act(closure, base, live, Box, registers) \in ActivationRecord
      BY <2>5, ActType
    <2>8. QED  BY <2>1, <2>2, <2>4, <2>5, <2>6, <2>7
  <1>3. Activations = [i \in 1..n |-> ActivationOf(frames[i])]
    BY <1>1 DEF Activations
  <1>4. /\ Activations \in Seq(ActivationRecord) /\ Len(Activations) = n
        /\ DOMAIN Activations = 1..n
    <2>1. Activations \in [1..n -> ActivationRecord]
      BY <1>2, <1>3
    <2>2. QED  BY <2>1, FunctionIsSeq
  <1>5. QED  BY <1>1, <1>2, <1>3, <1>4 DEF ActivationFacts

\* The closures and upvalues of the heap are the closures and boxes promised.
LEMMA MapsOfHeap ==
    IInv => HeapFacts
  BY DEF HeapFacts, Closures, Boxes, Through

\* All of this holds after a step that keeps the invariant.
LEMMA FactsNext ==
    IInv' => BoxFacts' /\ ActivationFacts' /\ HeapFacts'
  BY BoxesOfRegisters, ActivationsOfFrames, MapsOfHeap, PTL

-----------------------------------------------------------------------------
(* What changes of the mapped state, and what does not.                    *)

Facts == BoxFacts /\ ActivationFacts /\ HeapFacts

\* A frame nothing happens to is the same activation: its registers that are
\* no box's are as before.
LEMMA SameActivation ==
    ASSUME Facts, Facts', NEW i \in 1..Len(frames), i \in 1..Len(frames'),
           frames'[i].closure = frames[i].closure, frames'[i].base = frames[i].base,
           frames'[i].live = frames[i].live,
           \A s \in frames[i].base..(frames[i].base + frames[i].live - 1) :
              /\ Box'[s] = Box[s]
              /\ Box[s] = 0 => registers'[s] = registers[s]
    PROVE  Activations'[i] = Activations[i]
  <1>1. PICK closure \in Object, base \in Nat, live \in Nat :
            closure = frames[i].closure /\ base = frames[i].base /\ live = frames[i].live
    BY DEF Facts, ActivationFacts
  <1>2. Activations[i] = Act(closure, base, live, Box, registers)
    BY <1>1 DEF Facts, ActivationFacts
  <1>3. Activations'[i] = Act(closure, base, live, Box', registers')
    BY <1>1 DEF Facts, ActivationFacts
  <1>4. Act(closure, base, live, Box', registers') = Act(closure, base, live, Box, registers)
    BY <1>1, ActSame
  <1>5. QED  BY <1>2, <1>3, <1>4

\* Nothing happens to any.
LEMMA SameActivations ==
    ASSUME Facts, Facts', Len(frames') = Len(frames),
           \A i \in 1..Len(frames) : Activations'[i] = Activations[i]
    PROVE  Activations' = Activations
  <1>1. /\ Activations \in Seq(ActivationRecord) /\ Len(Activations) = Len(frames)
        /\ Activations' \in Seq(ActivationRecord) /\ Len(Activations') = Len(frames)
    BY DEF Facts, ActivationFacts
  <1>2. QED  BY <1>1

\* Only the newest changes.
LEMMA NewestReplaced ==
    ASSUME Facts, Facts', Len(frames') = Len(frames), frames # <<>>,
           \A i \in 1..Len(frames) : i # Len(frames) => Activations'[i] = Activations[i],
           NEW act, Activations'[Len(frames)] = act
    PROVE  Activations' = Boxed!ReplaceNewest(act)
  <1>1. PICK n \in Nat : n = Len(frames) /\ n = Len(frames')
    BY DEF Facts, ActivationFacts
  <1>2. /\ Activations \in Seq(ActivationRecord) /\ Len(Activations) = n
        /\ Activations' \in Seq(ActivationRecord) /\ Len(Activations') = n
        /\ DOMAIN Activations = 1..n /\ DOMAIN Activations' = 1..n
    BY <1>1 DEF Facts, ActivationFacts
  <1>3. \A i \in 1..n : Activations'[i] = IF i = n THEN act ELSE Activations[i]
    BY <1>1
  <1>4. Activations' = [i \in 1..n |-> IF i = n THEN act ELSE Activations[i]]
    BY <1>2, <1>3
  <1>5. Boxed!ReplaceNewest(act) = [i \in 1..n |-> IF i = n THEN act ELSE Activations[i]]
    BY <1>2 DEF Boxed!ReplaceNewest
  <1>6. QED  BY <1>4, <1>5

\* What the newest frame and the newest activation have in common.
NewestFacts(n, closure, base, live, locals) ==
    /\ n = Len(frames) /\ Newest = frames[n] /\ Newest \in Frame
    /\ DOMAIN frames = 1..n /\ n \in 1..n
    /\ Newest.closure = closure /\ Newest.base = base
    /\ Newest.live = live /\ Newest.locals = locals
    /\ locals <= live /\ base + live <= Slots /\ IsClosure(closure)
    /\ Activations # <<>> /\ Len(Activations) = n /\ DOMAIN Activations = 1..n
    /\ Activations[n] = Boxed!Newest
    /\ Boxed!Newest = Act(closure, base, live, Box, registers)
    /\ Boxed!Newest \in ActivationRecord
    /\ Boxed!Newest.closure = closure
    /\ Len(Boxed!Newest.vals) = live /\ Len(Boxed!Newest.boxed) = live
    /\ Boxed!Registers(Boxed!Newest) = Live /\ Live = 0..(live - 1)
    /\ \A r \in Live :
          /\ Boxed!Newest.boxed[r + 1] = Box[base + r]
          /\ Boxed!Newest.vals[r + 1] =
                IF Box[base + r] = 0 THEN registers[base + r] ELSE Nil
    /\ \A r \in Live : Reg(r) = registers[base + r]
    /\ \A s \in base..(base + live - 1) :
          registers[s] \in Value /\ Box[s] \in Object \cup {0} /\ s \in 0..(Slots - 1)

\* The newest activation is the newest frame's.
LEMMA NewestActivation ==
    ASSUME IInv, Facts, frames # <<>>
    PROVE  \E n \in Nat \ {0}, closure \in Object, base \in Nat \ {0}, live \in Nat,
              locals \in Nat : NewestFacts(n, closure, base, live, locals)
  <1>1. PICK n \in Nat \ {0} :
            /\ n = Len(frames) /\ Newest = frames[n] /\ Newest \in Frame
            /\ DOMAIN frames = 1..n /\ n \in 1..n
    <2>1. /\ Len(frames) \in Nat \ {0} /\ Newest = frames[Len(frames)] /\ Newest \in Frame
          /\ DOMAIN frames = 1..Len(frames)
      BY NewestType DEF IInv, Newest
    <2>2. Len(frames) \in 1..Len(frames)
      BY <2>1
    <2>3. QED  BY <2>1, <2>2
  <1>2. PICK closure \in Object, base \in Nat \ {0}, live \in Nat, locals \in Nat :
            /\ Newest.closure = closure /\ Newest.base = base
            /\ Newest.live = live /\ Newest.locals = locals
    BY <1>1 DEF Facts, ActivationFacts
  <1>3. /\ locals <= live /\ base + live <= Slots /\ IsClosure(closure)
        /\ Activations[n] = Act(closure, base, live, Box, registers)
        /\ \A s \in base..(base + live - 1) : registers[s] \in Value
    BY <1>1, <1>2 DEF Facts, ActivationFacts
  <1>4. ASSUME NEW s \in base..(base + live - 1)
        PROVE  registers[s] \in Value /\ Box[s] \in Object \cup {0} /\ s \in 0..(Slots - 1)
    <2>1. s \in 0..(Slots - 1)
      BY <1>3, ConstantsAssumption
    <2>2. QED  BY <1>3, <2>1 DEF Facts, BoxFacts
  <1>5. /\ Activations # <<>> /\ Len(Activations) = n /\ DOMAIN Activations = 1..n
        /\ Activations[n] = Boxed!Newest
    BY <1>1 DEF Facts, ActivationFacts, Boxed!Newest
  <1>6. /\ Boxed!Newest \in ActivationRecord
        /\ Boxed!Newest.closure = closure
        /\ Len(Boxed!Newest.vals) = live /\ Len(Boxed!Newest.boxed) = live
        /\ \A r \in 0..(live - 1) :
              /\ Boxed!Newest.boxed[r + 1] = Box[base + r]
              /\ Boxed!Newest.vals[r + 1] =
                    IF Box[base + r] = 0 THEN registers[base + r] ELSE Nil
    <2>1. Boxed!Newest = Act(closure, base, live, Box, registers)
      BY <1>3, <1>5
    <2>2. \A s \in base..(base + live - 1) : registers[s] \in Value /\ Box[s] \in Object \cup {0}
      BY <1>4
    <2>3. PICK act : act = Act(closure, base, live, Box, registers)
      OBVIOUS
    <2>4. /\ act \in ActivationRecord /\ act.closure = closure
          /\ Len(act.vals) = live /\ Len(act.boxed) = live
          /\ \A r \in 0..(live - 1) :
                /\ act.boxed[r + 1] = Box[base + r]
                /\ act.vals[r + 1] = IF Box[base + r] = 0 THEN registers[base + r] ELSE Nil
      BY <2>2, <2>3, ActType
    <2>5. QED  BY <2>1, <2>3, <2>4
  <1>7. Boxed!Registers(Boxed!Newest) = Live /\ Live = 0..(live - 1)
    BY <1>2, <1>6 DEF Boxed!Registers, Live
  <1>8. \A r \in Live : Reg(r) = registers[base + r]
    BY <1>2 DEF Reg
  <1>9. NewestFacts(n, closure, base, live, locals)
    BY <1>1, <1>2, <1>3, <1>4, <1>5, <1>6, <1>7, <1>8 DEF NewestFacts
  <1>10. QED  BY <1>1, <1>2, <1>9

\* Where the windows of the frames below the newest end.
LEMMA BelowNewest ==
    ASSUME BoxesInv, Facts, frames # <<>>, NEW i \in 1..Len(frames), i # Len(frames)
    PROVE  /\ frames[i].base + frames[i].live <= Newest.base
           /\ frames[i].locals < frames[i].live
           /\ \A s \in frames[i].base..(frames[i].base + frames[i].live - 1) :
                 s < Newest.base /\ s \in 0..(Slots - 1)
  <1>1p. PICK n \in Nat \ {0}, closure \in Object, base \in Nat \ {0}, live \in Nat,
              locals \in Nat : NewestFacts(n, closure, base, live, locals)
    BY NewestActivation DEF BoxesInv
  <1>1. /\ n \in Nat \ {0} /\ base \in Nat \ {0}
        /\ n = Len(frames) /\ DOMAIN frames = 1..n /\ base = Newest.base /\ Newest = frames[n]
        /\ base <= Slots
    BY <1>1p, ConstantsAssumption DEF NewestFacts, Frame
  <1>2. i < n /\ i \in DOMAIN frames /\ n \in DOMAIN frames
    BY <1>1
  <1>3. frames[i].base + frames[i].live <= base /\ frames[i].locals < frames[i].live
    BY <1>1, <1>2 DEF BoxesInv, StackedInv
  <1>4. frames[i].base \in Nat /\ frames[i].live \in Nat
    BY <1>1 DEF Facts, ActivationFacts
  <1>5. \A s \in frames[i].base..(frames[i].base + frames[i].live - 1) :
           s < base /\ s \in 0..(Slots - 1)
    <2>1. PICK below \in Nat, size \in Nat : below = frames[i].base /\ size = frames[i].live
      BY <1>4
    <2>2. below + size <= base /\ base \in Nat /\ base <= Slots /\ Slots \in Nat
      BY <1>1, <1>3, <2>1, ConstantsAssumption
    <2>3. \A s \in below..(below + size - 1) : s < base /\ s \in 0..(Slots - 1)
      BY <2>2
    <2>4. QED  BY <2>1, <2>3
  <1>6. QED  BY <1>1, <1>3, <1>5

\* No temporary, and no register beyond those in use, has a box.
LEMMA NoBoxAbove ==
    ASSUME BoxesInv, Facts, frames # <<>>, NEW s \in 0..(Slots - 1),
           s >= Newest.base + Newest.locals
    PROVE  Box[s] = 0
  <1>1p. PICK n \in Nat \ {0}, closure \in Object, base \in Nat \ {0}, live \in Nat,
              locals \in Nat : NewestFacts(n, closure, base, live, locals)
    BY NewestActivation DEF BoxesInv
  <1>1. /\ n \in Nat \ {0} /\ base \in Nat \ {0}
        /\ live \in Nat /\ locals \in Nat
        /\ n = Len(frames) /\ DOMAIN frames = 1..n /\ Newest = frames[n]
        /\ base = Newest.base /\ live = Newest.live /\ locals = Newest.locals
    BY <1>1p DEF NewestFacts
  <1>2. ASSUME NEW i \in DOMAIN frames,
               s \in frames[i].base..(frames[i].base + frames[i].locals - 1)
        PROVE  FALSE
    <2>1. CASE i = n
      BY <1>1, <1>2, <2>1
    <2>2. CASE i # n
      <3>1. /\ frames[i].base + frames[i].live <= base /\ frames[i].locals < frames[i].live
        BY <1>1, <2>2, BelowNewest
      <3>2. frames[i].base \in Nat /\ frames[i].live \in Nat /\ frames[i].locals \in Nat
        BY <1>1 DEF Facts, ActivationFacts
      <3>3. s >= base
        BY <1>1
      <3>4. QED  BY <1>2, <3>1, <3>2, <3>3
    <2>3. QED  BY <2>1, <2>2
  <1>3. BoxOf(s) = 0
    BY <1>2, TemporaryHasNoBox DEF BoxesInv
  <1>4. QED  BY <1>3 DEF Box

\* The list and the places stay, and so do the boxes.
LEMMA SameBox ==
    ASSUME UNCHANGED open_upvalues,
           \A o \in Range(open_upvalues) : heap'[o].location = heap[o].location
    PROVE  Box' = Box
  <1>1. \A s : BoxOf(s)' = BoxOf(s)
    BY SameBoxes
  <1>2. QED  BY <1>1 DEF Box

\* The frames after a change of the newest.
LEMMA NewestChanged ==
    ASSUME BoxesInv, frames # <<>>, NEW frame, frames' = ReplaceNewest(frame)
    PROVE  /\ Len(frames') = Len(frames) /\ Len(frames) \in Nat \ {0}
           /\ DOMAIN frames' = 1..Len(frames) /\ DOMAIN frames = 1..Len(frames)
           /\ frames'[Len(frames)] = frame
           /\ \A i \in 1..Len(frames) : i # Len(frames) => frames'[i] = frames[i]
           /\ frame.base = Newest.base => StackedInv'
  <1>0. frames \in Seq(Frame)
    BY DEF BoxesInv, IInv, TypeOK
  <1>1. PICK n \in Nat \ {0} : n = Len(frames) /\ DOMAIN frames = 1..n
    BY <1>0
  <1>2. frames' = [i \in 1..n |-> IF i = n THEN frame ELSE frames[i]]
    BY <1>1 DEF ReplaceNewest
  <1>3. Len(frames') = n /\ DOMAIN frames' = 1..n
    <2>1. frames' \in [1..n -> Frame \cup {frame}]
      BY <1>0, <1>1, <1>2
    <2>2. QED  BY <2>1, FunctionIsSeq
  <1>4. frames'[n] = frame /\ \A i \in 1..n : i # n => frames'[i] = frames[i]
    BY <1>2
  <1>5. ASSUME frame.base = Newest.base
        PROVE  StackedInv'
    <2>1. ASSUME NEW i \in 1..n, NEW j \in 1..n, i < j
          PROVE  /\ frames'[i].base + frames'[i].live <= frames'[j].base
                 /\ frames'[i].locals < frames'[i].live
      <3>1. i # n /\ frames'[i] = frames[i] /\ frames'[j].base = frames[j].base
        BY <1>1, <1>4, <1>5, <2>1 DEF Newest
      <3>2. QED  BY <1>1, <2>1, <3>1 DEF BoxesInv, StackedInv
    <2>2. QED  BY <1>3, <2>1 DEF StackedInv
  <1>6. QED  BY <1>1, <1>3, <1>4, <1>5

\* A register in use of one frame, or the next one, is none of a frame below.
LEMMA BelowUnchanged ==
    ASSUME BoxesInv, Facts, Facts', frames # <<>>,
           Len(frames') = Len(frames),
           NEW i \in 1..Len(frames), i # Len(frames), frames'[i] = frames[i],
           \A s \in 0..(Slots - 1) : s < Newest.base =>
              Box'[s] = Box[s] /\ (Box[s] = 0 => registers'[s] = registers[s])
    PROVE  Activations'[i] = Activations[i]
  <1>1. \A s \in frames[i].base..(frames[i].base + frames[i].live - 1) :
           Box'[s] = Box[s] /\ (Box[s] = 0 => registers'[s] = registers[s])
    BY BelowNewest
  <1>2. i \in 1..Len(frames')
    OBVIOUS
  <1>3. QED  BY <1>1, <1>2, SameActivation

\* A value stored in a register that is no box's, in use or the next.
LEMMA ActStored ==
    ASSUME NEW closure \in Object, NEW base \in Nat, NEW live \in Nat, NEW box, NEW regs,
           \A s \in base..(base + live - 1) : regs[s] \in Value /\ box[s] \in Object \cup {0},
           NEW r \in 0..live, NEW v \in Value, box[base + r] = 0,
           NEW regs2, regs2[base + r] = v,
           \A s \in base..(base + live - 1) : s # base + r => regs2[s] = regs[s],
           NEW live2 \in Nat, live2 = IF r = live THEN live + 1 ELSE live
    PROVE  Boxed!Stored(Act(closure, base, live, box, regs), r, v) =
              Act(closure, base, live2, box, regs2)
  <1> DEFINE act == Act(closure, base, live, box, regs)
             act2 == Act(closure, base, live2, box, regs2)
  <1>1. /\ act \in ActivationRecord /\ act.closure = closure
        /\ Len(act.vals) = live /\ DOMAIN act.vals = 1..live
        /\ Len(act.boxed) = live /\ DOMAIN act.boxed = 1..live
        /\ \A q \in 0..(live - 1) :
              /\ act.boxed[q + 1] = box[base + q]
              /\ act.vals[q + 1] = IF box[base + q] = 0 THEN regs[base + q] ELSE Nil
    BY ActType
  <1>2. live2 \in Nat /\ (r = live => live2 = live + 1) /\ (r # live => live2 = live)
    OBVIOUS
  <1>3. \A s \in base..(base + live2 - 1) : regs2[s] \in Value /\ box[s] \in Object \cup {0}
    <2>1. ASSUME NEW s \in base..(base + live2 - 1)
          PROVE  regs2[s] \in Value /\ box[s] \in Object \cup {0}
      <3>1. s = base + r \/ s \in base..(base + live - 1)
        BY <1>2
      <3>2. QED  BY <3>1
    <2>2. QED  BY <2>1
  <1>4. /\ act2 \in ActivationRecord /\ act2.closure = closure
        /\ Len(act2.vals) = live2 /\ DOMAIN act2.vals = 1..live2
        /\ Len(act2.boxed) = live2 /\ DOMAIN act2.boxed = 1..live2
        /\ \A q \in 0..(live2 - 1) :
              /\ act2.boxed[q + 1] = box[base + q]
              /\ act2.vals[q + 1] = IF box[base + q] = 0 THEN regs2[base + q] ELSE Nil
    BY <1>2, <1>3, ActType
  <1> HIDE DEF act, act2
  <1>5. ASSUME NEW q \in 0..(live2 - 1)
        PROVE  /\ q = r => act2.vals[q + 1] = v /\ act2.boxed[q + 1] = 0
               /\ q # r => act2.vals[q + 1] = act.vals[q + 1] /\ q \in 0..(live - 1)
               /\ q \in 0..(live - 1) => act2.boxed[q + 1] = act.boxed[q + 1]
    <2>1. /\ act2.boxed[q + 1] = box[base + q]
          /\ act2.vals[q + 1] = IF box[base + q] = 0 THEN regs2[base + q] ELSE Nil
      BY <1>4
    <2>2. CASE q = r
      BY <1>1, <2>1, <2>2
    <2>3. CASE q # r
      <3>1. q \in 0..(live - 1) /\ base + q # base + r /\ base + q \in base..(base + live - 1)
        BY <1>2, <2>3
      <3>2. QED  BY <1>1, <2>1, <2>3, <3>1
    <2>4. QED  BY <2>2, <2>3
  <1>6. CASE r = live
    <2>1. act2.vals = Append(act.vals, v)
      <3>1. act2.vals \in Seq(Value) /\ act.vals \in Seq(Value)
        BY <1>1, <1>4 DEF ActivationRecord
      <3>2. \A k \in 1..live : act2.vals[k] = act.vals[k]
        <4>1. ASSUME NEW k \in 1..live
              PROVE  act2.vals[k] = act.vals[k]
          <5>1. k - 1 \in 0..(live2 - 1) /\ k - 1 # r /\ (k - 1) + 1 = k
            BY <1>2, <1>6
          <5>2. QED  BY <1>5, <5>1
        <4>2. QED  BY <4>1
      <3>3. act2.vals[live + 1] = v
        <4>1. r \in 0..(live2 - 1)
          BY <1>2, <1>6
        <4>2. QED  BY <1>5, <1>6, <4>1
      <3>4. Len(act2.vals) = live + 1 /\ Len(act.vals) = live
        BY <1>1, <1>2, <1>4, <1>6
      <3>5. QED  BY <3>1, <3>2, <3>3, <3>4
    <2>2. act2.boxed = Append(act.boxed, 0)
      <3>1. act2.boxed \in Seq(Object \cup {0}) /\ act.boxed \in Seq(Object \cup {0})
        BY <1>1, <1>4 DEF ActivationRecord
      <3>2. \A k \in 1..live : act2.boxed[k] = act.boxed[k]
        <4>1. ASSUME NEW k \in 1..live
              PROVE  act2.boxed[k] = act.boxed[k]
          <5>1. k - 1 \in 0..(live2 - 1) /\ k - 1 \in 0..(live - 1) /\ (k - 1) + 1 = k
            BY <1>2, <1>6
          <5>2. QED  BY <1>5, <5>1
        <4>2. QED  BY <4>1
      <3>3. act2.boxed[live + 1] = 0
        <4>1. r \in 0..(live2 - 1)
          BY <1>2, <1>6
        <4>2. QED  BY <1>5, <1>6, <4>1
      <3>4. Len(act2.boxed) = live + 1 /\ Len(act.boxed) = live
        BY <1>1, <1>2, <1>4, <1>6
      <3>5. QED  BY <3>1, <3>2, <3>3, <3>4
    <2>3. Boxed!Stored(act, r, v) =
             [act EXCEPT !.vals = Append(@, v), !.boxed = Append(@, 0)]
      BY <1>1, <1>6 DEF Boxed!Stored
    <2>4. Boxed!Stored(act, r, v) =
             [closure |-> closure, vals |-> Append(act.vals, v), boxed |-> Append(act.boxed, 0)]
      <3>1. PICK vs, bs : vs = Append(act.vals, v) /\ bs = Append(act.boxed, 0)
        OBVIOUS
      <3>2. [act EXCEPT !.vals = vs, !.boxed = bs]
               \in [closure : {closure}, vals : {vs}, boxed : {bs}]
        BY <1>1 DEF ActivationRecord
      <3>3. \A rec \in [closure : {closure}, vals : {vs}, boxed : {bs}] :
               rec = [closure |-> closure, vals |-> vs, boxed |-> bs]
        OBVIOUS
      <3>4. QED  BY <2>3, <3>1, <3>2, <3>3
    <2>5. act2 = [closure |-> closure, vals |-> act2.vals, boxed |-> act2.boxed]
      BY <1>4 DEF ActivationRecord
    <2>6. Boxed!Stored(act, r, v) = act2
      BY <2>1, <2>2, <2>4, <2>5
    <2>7. QED  BY <2>6 DEF act, act2
  <1>7. CASE r # live
    <2>1. act2.vals = [act.vals EXCEPT ![r + 1] = v]
      <3>1. ASSUME NEW k \in 1..live
            PROVE  act2.vals[k] = IF k = r + 1 THEN v ELSE act.vals[k]
        <4>1. k - 1 \in 0..(live2 - 1) /\ (k - 1) + 1 = k /\ (k - 1 = r <=> k = r + 1)
          BY <1>2, <1>7
        <4>2. QED  BY <1>5, <4>1
      <3>2. act2.vals \in Seq(Value) /\ act.vals \in Seq(Value)
        BY <1>1, <1>4 DEF ActivationRecord
      <3>3. DOMAIN act2.vals = 1..live /\ DOMAIN act.vals = 1..live
        BY <1>1, <1>2, <1>4, <1>7
      <3>4. QED  BY <3>1, <3>2, <3>3
    <2>2. act2.boxed = act.boxed
      <3>1. ASSUME NEW k \in 1..live
            PROVE  act2.boxed[k] = act.boxed[k]
        <4>1. k - 1 \in 0..(live2 - 1) /\ k - 1 \in 0..(live - 1) /\ (k - 1) + 1 = k
          BY <1>2, <1>7
        <4>2. QED  BY <1>5, <4>1
      <3>2. act2.boxed \in Seq(Object \cup {0}) /\ act.boxed \in Seq(Object \cup {0})
        BY <1>1, <1>4 DEF ActivationRecord
      <3>3. Len(act2.boxed) = live /\ Len(act.boxed) = live
        BY <1>1, <1>2, <1>4, <1>7
      <3>4. QED  BY <3>1, <3>2, <3>3
    <2>3. Boxed!Stored(act, r, v) = [act EXCEPT !.vals = [act.vals EXCEPT ![r + 1] = v]]
      BY <1>1, <1>7 DEF Boxed!Stored
    <2>4. Boxed!Stored(act, r, v) = act2
      BY <1>1, <1>4, <2>1, <2>2, <2>3 DEF ActivationRecord
    <2>5. QED  BY <2>4 DEF act, act2
  <1>8. QED  BY <1>6, <1>7

-----------------------------------------------------------------------------
(* Instructions that write a register.                                     *)

\* A value goes to a register's box, if it has one, or to the register.
LEMMA WriteMaps ==
    ASSUME BoxesInv, IInv', Facts, Facts', Running,
           NEW r \in Destination, NEW v \in Value, Write(r, v),
           UNCHANGED open_upvalues,
           \A o \in Object : heap[o].kind = "upvalue" => heap'[o] = heap[o],
           \A o \in Object : heap'[o].kind = "upvalue" => heap[o].kind = "upvalue"
    PROVE  Boxed!Write(r, v) /\ r \in Boxed!RegisterIndex /\ StackedInv'
  <1>0. frames # <<>> /\ IInv
    BY DEF Running, BoxesInv
  <1>1p. PICK n \in Nat \ {0}, closure \in Object, base \in Nat \ {0}, live \in Nat,
              locals \in Nat : NewestFacts(n, closure, base, live, locals)
    BY <1>0, NewestActivation
  <1>1. /\ n \in Nat \ {0} /\ closure \in Object /\ base \in Nat \ {0}
        /\ live \in Nat /\ locals \in Nat
        /\ n = Len(frames) /\ Newest = frames[n] /\ Newest \in Frame
        /\ DOMAIN frames = 1..n /\ n \in 1..n
        /\ Newest.closure = closure /\ Newest.base = base
        /\ Newest.live = live /\ Newest.locals = locals
        /\ locals <= live /\ base + live <= Slots
        /\ Boxed!Newest = Act(closure, base, live, Box, registers)
        /\ Len(Boxed!Newest.vals) = live /\ Live = 0..(live - 1)
        /\ \A q \in Live : Boxed!Newest.boxed[q + 1] = Box[base + q]
        /\ \A s \in base..(base + live - 1) :
              registers[s] \in Value /\ Box[s] \in Object \cup {0}
    BY <1>1p DEF NewestFacts
  <1>2. PICK slot \in Nat :
            slot = base + r /\ slot \in 0..(Slots - 1) /\ r \in 0..live
    <2>1. r \in 0..live /\ r \in 0..(FrameSize[FunctionOf(Newest)] - 1)
      BY <1>0, <1>1, NewestType DEF Destination, IInv
    <2>2. base + r \in 1..(Slots - 1)
      BY <1>0, <1>1, <2>1, LiveSlots DEF IInv
    <2>3. QED  BY <2>1, <2>2
  <1>3. /\ registers' = [registers EXCEPT ![slot] = v]
        /\ frames' = IF r = live THEN ReplaceNewest([Newest EXCEPT !.live = @ + 1]) ELSE frames
        /\ DOMAIN registers = 0..(Slots - 1)
    BY <1>0, <1>1, <1>2 DEF Write, IInv, TypeOK
  <1>4. Box' = Box
    <2>1. \A o \in Range(open_upvalues) : heap'[o].location = heap[o].location
      BY <1>0, UpvalueSlots DEF IInv
    <2>2. QED  BY <2>1, SameBox
  <1>5. PICK box : box = Box[slot] /\ box \in Object \cup {0} /\ (r = live => box = 0)
    <2>1. Box[slot] \in Object \cup {0}
      BY <1>2 DEF Facts, BoxFacts
    <2>2. r = live => Box[slot] = 0
      <3>1. r = live => slot >= Newest.base + Newest.locals
        BY <1>1, <1>2
      <3>2. QED  BY <1>0, <1>2, <3>1, NoBoxAbove
    <2>3. QED  BY <2>1, <2>2
  <1>6. r \in Boxed!RegisterIndex
    BY <1>1, <1>2 DEF Boxed!RegisterIndex
  <1>7. (r < Len(Boxed!Newest.vals) /\ Boxed!Newest.boxed[r + 1] # 0) <=> box # 0
    BY <1>1, <1>2, <1>5
  <1>8. box # 0 => Boxed!Newest.boxed[r + 1] = box
    BY <1>1, <1>2, <1>5
  <1>9. OfKind("upvalue")' = OfKind("upvalue")
    BY DEF OfKind
  <1>10. ASSUME NEW b \in OfKind("upvalue")
         PROVE  Boxes'[b] = IF b = box THEN v ELSE Boxes[b]
    <2>1. heap'[b] = heap[b] /\ b \in Object /\ heap[b].kind = "upvalue"
      BY DEF OfKind
    <2>2. /\ Boxes[b] = IF heap[b].location = Closed THEN heap[b].closed
                                                     ELSE registers[heap[b].location]
          /\ Boxes'[b] = IF heap[b].location = Closed THEN heap[b].closed
                                                      ELSE registers'[heap[b].location]
      BY <1>9, <2>1 DEF Facts, HeapFacts
    <2>3. heap[b].location # Closed =>
             heap[b].location \in 0..(Slots - 1) /\ Box[heap[b].location] = b
      BY <2>1 DEF Facts, BoxFacts
    <2>4. b = box => heap[b].location = slot /\ slot # Closed
      <3>1. b # 0
        BY <2>1, ConstantsAssumption
      <3>2. slot # Closed
        BY DEF Closed
      <3>3. QED  BY <1>2, <1>5, <3>1, <3>2 DEF Facts, BoxFacts
    <2>5. CASE b = box
      BY <1>2, <1>3, <2>2, <2>4, <2>5
    <2>6. CASE b # box
      <3>1. heap[b].location # slot \/ heap[b].location = Closed
        BY <1>5, <2>3, <2>6
      <3>2. QED  BY <1>3, <2>2, <2>3, <2>6, <3>1
    <2>7. QED  BY <2>5, <2>6
  <1>11. DOMAIN Boxes = OfKind("upvalue") /\ DOMAIN Boxes' = OfKind("upvalue")
    BY <1>9 DEF Facts, HeapFacts
  <1>11a. /\ Boxes = [b \in OfKind("upvalue") |-> Boxes[b]]
          /\ Boxes' = [b \in OfKind("upvalue") |-> Boxes'[b]]
    BY <1>9 DEF Boxes
  <1>12. CASE box # 0
    <2>1. Boxes' = [Boxes EXCEPT ![box] = v]
      BY <1>10, <1>11, <1>11a
    <2>2. frames' = frames
      BY <1>3, <1>5, <1>12
    <2>3. ASSUME NEW i \in 1..Len(frames)
          PROVE  Activations'[i] = Activations[i]
      <3>1. \A s : Box[s] = 0 => registers'[s] = registers[s]
        BY <1>3, <1>5, <1>12
      <3>2. QED  BY <1>4, <2>2, <3>1, SameActivation
    <2>4. Activations' = Activations
      BY <2>2, <2>3, SameActivations
    <2>5. StackedInv'
      BY <2>2 DEF BoxesInv, StackedInv
    <2>6. QED  BY <1>6, <1>7, <1>8, <1>12, <2>1, <2>4, <2>5 DEF Boxed!Write
  <1>13. CASE box = 0
    <2>1. Boxes' = Boxes
      <3>1. \A b \in OfKind("upvalue") : b # 0
        BY ConstantsAssumption DEF OfKind
      <3>2. QED  BY <1>10, <1>11a, <1>13, <3>1
    <2>2. PICK live2 \in Nat : live2 = IF r = live THEN live + 1 ELSE live
      OBVIOUS
    <2>3. /\ Len(frames') = Len(frames) /\ StackedInv'
          /\ \A i \in 1..n : i # n => frames'[i] = frames[i]
          /\ frames'[n].closure = closure /\ frames'[n].base = base /\ frames'[n].live = live2
      <3>1. CASE r = live
        <4>1. frames' = ReplaceNewest([Newest EXCEPT !.live = live + 1])
          BY <1>1, <1>3, <3>1 DEF Frame
        <4>2. PICK frame : frame = [Newest EXCEPT !.live = live + 1]
          OBVIOUS
        <4>3. frame.base = base /\ frame.closure = closure /\ frame.live = live + 1
          BY <1>1, <4>2 DEF Frame
        <4>4. frames' = ReplaceNewest(frame)
          BY <4>1, <4>2
        <4>5. /\ Len(frames') = Len(frames) /\ frames'[Len(frames)] = frame
              /\ \A i \in 1..Len(frames) : i # Len(frames) => frames'[i] = frames[i]
              /\ frame.base = Newest.base => StackedInv'
          BY <1>0, <4>4, NewestChanged
        <4>6. QED  BY <1>1, <2>2, <3>1, <4>3, <4>5
      <3>2. CASE r # live
        <4>1. frames' = frames /\ live2 = live
          BY <1>3, <2>2, <3>2
        <4>2. QED  BY <1>1, <4>1 DEF BoxesInv, StackedInv
      <3>3. QED  BY <3>1, <3>2
    <2>4. ASSUME NEW i \in 1..Len(frames), i # Len(frames)
          PROVE  Activations'[i] = Activations[i]
      <3>1. \A s \in 0..(Slots - 1) : s < Newest.base => registers'[s] = registers[s]
        BY <1>1, <1>2, <1>3
      <3>2. QED  BY <1>0, <1>1, <1>4, <2>3, <2>4, <3>1, BelowUnchanged
    <2>5. Activations'[n] = Act(closure, base, live2, Box, registers')
      <3>1. n \in 1..Len(frames') /\ Box' = Box
        BY <1>1, <1>4, <2>3
      <3>2. Activations'[n] =
               Act(frames'[n].closure, frames'[n].base, frames'[n].live, Box', registers')
        BY <3>1 DEF Facts, ActivationFacts
      <3>3. QED  BY <2>3, <3>1, <3>2
    <2>6. Boxed!Stored(Boxed!Newest, r, v) = Act(closure, base, live2, Box, registers')
      <3>1. /\ registers'[base + r] = v
            /\ \A s \in base..(base + live - 1) : s # base + r => registers'[s] = registers[s]
        BY <1>2, <1>3
      <3>2. Box[base + r] = 0 /\ r \in 0..live
        BY <1>2, <1>5, <1>13
      <3>3. Boxed!Stored(Act(closure, base, live, Box, registers), r, v) =
               Act(closure, base, live2, Box, registers')
        <4>1. \A s \in base..(base + live - 1) :
                 registers[s] \in Value /\ Box[s] \in Object \cup {0}
          BY <1>1
        <4>2. PICK box2, regs, regs2 : box2 = Box /\ regs = registers /\ regs2 = registers'
          OBVIOUS
        <4>3. /\ \A s \in base..(base + live - 1) :
                    regs[s] \in Value /\ box2[s] \in Object \cup {0}
              /\ box2[base + r] = 0 /\ regs2[base + r] = v
              /\ \A s \in base..(base + live - 1) : s # base + r => regs2[s] = regs[s]
          BY <3>1, <3>2, <4>1, <4>2
        <4>4. Boxed!Stored(Act(closure, base, live, box2, regs), r, v) =
                 Act(closure, base, live2, box2, regs2)
          <5>1. /\ closure \in Object /\ base \in Nat /\ live \in Nat /\ r \in 0..live
                /\ v \in Value /\ live2 \in Nat
            BY <1>1, <3>2
          <5>2. QED  BY ONLY <2>2, <4>3, <5>1, ActStored
        <4>5. QED  BY <4>2, <4>4
      <3>4. QED  BY <1>1, <3>3
    <2>7. Activations' = Boxed!ReplaceNewest(Boxed!Stored(Boxed!Newest, r, v))
      BY <1>0, <1>1, <2>3, <2>4, <2>5, <2>6, NewestReplaced
    <2>8. QED  BY <1>6, <1>7, <1>13, <2>1, <2>3, <2>7 DEF Boxed!Write
  <1>14. QED  BY <1>12, <1>13

\* What a register holds, in its box or not.
LEMMA Held ==
    ASSUME IInv, Facts, frames # <<>>, NEW r \in Live
    PROVE  Boxed!ValueIn(Boxed!Newest, r) = Reg(r) /\ Reg(r) \in Value
  <1>1p. PICK n \in Nat \ {0}, closure \in Object, base \in Nat \ {0}, live \in Nat,
              locals \in Nat : NewestFacts(n, closure, base, live, locals)
    BY NewestActivation
  <1>1. /\ base \in Nat \ {0} /\ live \in Nat
        /\ Live = 0..(live - 1) /\ base + live <= Slots
        /\ \A q \in Live :
              /\ Boxed!Newest.boxed[q + 1] = Box[base + q]
              /\ Boxed!Newest.vals[q + 1] =
                    IF Box[base + q] = 0 THEN registers[base + q] ELSE Nil
        /\ \A q \in Live : Reg(q) = registers[base + q]
        /\ \A s \in base..(base + live - 1) :
              registers[s] \in Value /\ Box[s] \in Object \cup {0} /\ s \in 0..(Slots - 1)
    BY <1>1p DEF NewestFacts
  <1>2. PICK s \in base..(base + live - 1) : s = base + r
    BY <1>1
  <1>3. /\ Boxed!Newest.boxed[r + 1] = Box[s]
        /\ Boxed!Newest.vals[r + 1] = IF Box[s] = 0 THEN registers[s] ELSE Nil
        /\ Reg(r) = registers[s] /\ registers[s] \in Value /\ s \in 0..(Slots - 1)
    BY <1>1, <1>2
  <1>4. CASE Box[s] = 0
    BY <1>3, <1>4 DEF Boxed!ValueIn
  <1>5. CASE Box[s] # 0
    <2>1. /\ heap[Box[s]].location = s /\ Box[s] \in Object /\ heap[Box[s]].kind = "upvalue"
      BY <1>3, <1>5 DEF Facts, BoxFacts
    <2>2. Box[s] \in OfKind("upvalue") /\ s # Closed
      BY <1>3, <2>1 DEF OfKind, Closed
    <2>3. Boxes[Box[s]] = registers[s]
      BY <2>1, <2>2 DEF Facts, HeapFacts
    <2>4. QED  BY <1>3, <1>5, <2>3 DEF Boxed!ValueIn
  <1>6. QED  BY <1>4, <1>5

\* A closure of the heap, and the boxes it has.
LEMMA MappedClosure ==
    ASSUME IInv, Facts, NEW c, IsClosure(c)
    PROVE  /\ c \in DOMAIN Closures /\ c \in Object /\ c \in OfKind("closure")
           /\ Closures[c].function = heap[c].function
           /\ Closures[c].upvalues = heap[c].upvalues
           /\ heap[c].upvalues \in Seq(Object) /\ heap[c].function \in Function
           /\ \A i \in DOMAIN heap[c].upvalues :
                 /\ heap[c].upvalues[i] \in OfKind("upvalue")
                 /\ heap[c].upvalues[i] \in DOMAIN Boxes
                 /\ Boxes[heap[c].upvalues[i]] = Through(heap[c].upvalues[i])
  <1>1. c \in Object /\ heap[c].kind = "closure"
    BY DEF IsClosure
  <1>2. heap[c].upvalues \in Seq(Object) /\ heap[c].function \in Function
    BY <1>1, Kinds DEF IInv, IsClosure
  <1>3. c \in OfKind("closure")
    BY <1>1 DEF OfKind
  <1>4. ASSUME NEW i \in DOMAIN heap[c].upvalues
        PROVE  heap[c].upvalues[i] \in OfKind("upvalue")
    <2>1. heap[c].upvalues[i] \in Object
      BY <1>2
    <2>2. heap[heap[c].upvalues[i]].kind = "upvalue"
      BY <1>1 DEF IInv, ClosureInv, IsClosure
    <2>3. QED  BY <2>1, <2>2 DEF OfKind
  <1>5. Closures[c] = [function |-> heap[c].function, upvalues |-> heap[c].upvalues]
    BY <1>3 DEF Facts, HeapFacts
  <1>6. c \in DOMAIN Closures /\ DOMAIN Boxes = OfKind("upvalue")
    BY <1>3 DEF Facts, HeapFacts
  <1>7. \A b \in OfKind("upvalue") : Boxes[b] = Through(b)
    BY DEF Boxes
  <1>8. QED  BY <1>1, <1>2, <1>3, <1>4, <1>5, <1>6, <1>7

\* The newest frame's closure, and its activation's.
LEMMA RunningClosure ==
    ASSUME IInv, Facts, frames # <<>>
    PROVE  /\ Boxed!Newest.closure = Newest.closure /\ IsClosure(Newest.closure)
           /\ Closures[Boxed!Newest.closure].upvalues = heap[Newest.closure].upvalues
           /\ Closures[Boxed!Newest.closure].function = FunctionOf(Newest)
           /\ Activations # <<>>
           /\ Boxed!Registers(Boxed!Newest) = Live
  <1>1. /\ Boxed!Newest.closure = Newest.closure /\ Activations # <<>>
        /\ Boxed!Registers(Boxed!Newest) = Live
    BY NewestActivation DEF NewestFacts
  <1>2. IsClosure(Newest.closure)
    BY NewestType DEF IInv
  <1>3. QED  BY <1>1, <1>2, MappedClosure DEF FunctionOf

\* What an instruction can read is what the promise lets it read.
LEMMA ReadableMaps ==
    ASSUME IInv, Facts, Running, NEW v \in Readable
    PROVE  v \in Boxed!Readable
  <1>1. frames # <<>>
    BY DEF Running
  <1>2. CASE v = Nil
    BY <1>2 DEF Boxed!Readable, Boxed!Nil, Nil
  <1>3. CASE \E r \in Live : v = Reg(r)
    BY <1>1, <1>3, Held, RunningClosure DEF Boxed!Readable
  <1>4. CASE \E up \in Range(heap[Newest.closure].upvalues) : v = Through(up)
    <2>1. PICK i \in DOMAIN heap[Newest.closure].upvalues :
              v = Through(heap[Newest.closure].upvalues[i])
      BY <1>4 DEF Range
    <2>2. PICK up : up = heap[Newest.closure].upvalues[i]
      OBVIOUS
    <2>3. v = Boxes[up]
      BY <1>1, <2>1, <2>2, RunningClosure, MappedClosure
    <2>4. up \in Boxed!Range(Closures[Boxed!Newest.closure].upvalues)
      BY <1>1, <2>1, <2>2, RunningClosure DEF Boxed!Range
    <2>5. QED  BY <2>3, <2>4 DEF Boxed!Readable
  <1>5. CASE v \in Range(globals) \ {Undefined}
    <2>1. DOMAIN globals = Global
      BY DEF IInv, TypeOK
    <2>2. PICK n \in Global : v = globals[n] /\ globals[n] # Undefined
      BY <1>5, <2>1 DEF Range
    <2>3. QED  BY <2>2 DEF Boxed!Readable, Boxed!Undefined, Undefined
  <1>6. QED  BY <1>2, <1>3, <1>4, <1>5 DEF Readable

\* The objects in use, and the addresses that are free.
LEMMA UsedAddresses ==
    ASSUME IInv, Facts
    PROVE  /\ Boxed!Used = {o \in Object : heap[o].kind # "free"}
           /\ \A o : IsFresh(o) => o \notin Boxed!Used /\ o \in Object
  <1>1. \A o \in Object : heap[o].kind \in {"free", "data", "closure", "upvalue"}
    BY Kinds DEF IInv
  <1>2. Boxed!Used = OfKind("closure") \cup OfKind("upvalue") \cup OfKind("data")
    BY DEF Facts, HeapFacts, Boxed!Used
  <1>3. Boxed!Used = {o \in Object : heap[o].kind # "free"}
    BY <1>1, <1>2 DEF OfKind
  <1>4. QED  BY <1>3 DEF IsFresh, FreeAddresses

\* Nothing happens to the closures.
LEMMA SameClosures ==
    ASSUME \A o \in Object : heap[o].kind = "closure" => heap'[o] = heap[o],
           \A o \in Object : heap'[o].kind = "closure" => heap[o].kind = "closure"
    PROVE  Closures' = Closures
  <1>1. OfKind("closure")' = OfKind("closure")
    BY DEF OfKind
  <1>2. \A o \in OfKind("closure") : heap'[o] = heap[o]
    BY DEF OfKind
  <1>3. QED  BY <1>1, <1>2 DEF Closures

\* MOVE, LOADK, GET_UPVALUE, GET_GLOBAL: a value the program can read goes to a
\* variable, or to a temporary.
LEMMA LoadMaps ==
    ASSUME BoxesInv, IInv', NEW r, NEW v, Load(r, v)
    PROVE  /\ Boxed!Load(r, v) /\ r \in Boxed!RegisterIndex /\ v \in Boxed!Readable
           /\ StackedInv' /\ Activations # <<>>
  <1>0. IInv /\ Facts /\ Facts'
    BY BoxesOfRegisters, ActivationsOfFrames, MapsOfHeap, FactsNext DEF BoxesInv, Facts
  <1>1. /\ Running /\ r \in Destination /\ v \in Readable /\ Write(r, v)
        /\ UNCHANGED <<uncounted_frames, open_upvalues, globals, heap, building>>
    BY DEF Load
  <1>2. v \in Value /\ v \in Boxed!Readable
    BY <1>0, <1>1, ReadableValid, ReadableMaps
  <1>3. Boxed!Write(r, v) /\ r \in Boxed!RegisterIndex /\ StackedInv'
    BY <1>0, <1>1, <1>2, WriteMaps
  <1>4. Closures' = Closures /\ OfKind("data")' = OfKind("data")
    BY <1>1 DEF Closures, OfKind
  <1>5. Activations # <<>>
    BY <1>0, <1>1, RunningClosure DEF Running
  <1>6. QED  BY <1>1, <1>2, <1>3, <1>4, <1>5 DEF Boxed!Load

\* A new object that is no closure goes there.
LEMMA NewDataMaps ==
    ASSUME BoxesInv, IInv', NEW r, NEW o, NewData(r, o)
    PROVE  /\ Boxed!NewData(r, o) /\ r \in Boxed!RegisterIndex /\ o \in Object \ Boxed!Used
           /\ StackedInv' /\ Activations # <<>>
  <1>0. IInv /\ Facts /\ Facts'
    BY BoxesOfRegisters, ActivationsOfFrames, MapsOfHeap, FactsNext DEF BoxesInv, Facts
  <1>1. /\ Running /\ r \in Destination /\ IsFresh(o) /\ Write(r, o)
        /\ heap' = [heap EXCEPT ![o] = Data]
        /\ UNCHANGED <<uncounted_frames, open_upvalues, globals, building>>
    BY DEF NewData
  <1>2. o \in Object \ Boxed!Used /\ o \in Value
    BY <1>0, <1>1, UsedAddresses DEF Value
  <1>3. /\ heap[o].kind = "free" /\ heap'[o] = Data
        /\ \A p \in Object \ {o} : heap'[p] = heap[p]
    <2>1. Data \in HeapObject
      BY DEF HeapObject
    <2>2. QED  BY <1>0, <1>1, <1>2, <2>1, FreshObject DEF IInv
  <1>4. Boxed!Write(r, o) /\ r \in Boxed!RegisterIndex /\ StackedInv'
    <2>1. /\ \A p \in Object : heap[p].kind = "upvalue" => heap'[p] = heap[p]
          /\ \A p \in Object : heap'[p].kind = "upvalue" => heap[p].kind = "upvalue"
      BY <1>3 DEF Data
    <2>2. QED  BY <1>0, <1>1, <1>2, <2>1, WriteMaps
  <1>5. Closures' = Closures
    <2>1. /\ \A p \in Object : heap[p].kind = "closure" => heap'[p] = heap[p]
          /\ \A p \in Object : heap'[p].kind = "closure" => heap[p].kind = "closure"
      BY <1>3 DEF Data
    <2>2. QED  BY <2>1, SameClosures
  <1>6. OfKind("data")' = OfKind("data") \cup {o}
    BY <1>2, <1>3 DEF OfKind, Data
  <1>7. Activations # <<>>
    BY <1>0, <1>1, RunningClosure DEF Running
  <1>8. QED  BY <1>1, <1>2, <1>4, <1>5, <1>6, <1>7 DEF Boxed!NewData

\* SET_GLOBAL and DEFINE_GLOBAL store what the register's variable holds.
LEMMA SetGlobalMaps ==
    ASSUME BoxesInv, IInv', NEW n, NEW r, SetGlobal(n, r)
    PROVE  /\ Boxed!SetGlobal(n, r) /\ r \in Boxed!Registers(Boxed!Newest)
           /\ StackedInv' /\ Activations # <<>>
  <1>0. IInv /\ Facts /\ Facts'
    BY BoxesOfRegisters, ActivationsOfFrames, MapsOfHeap, FactsNext DEF BoxesInv, Facts
  <1>1. /\ Running /\ r \in Live /\ globals' = [globals EXCEPT ![n] = Reg(r)]
        /\ UNCHANGED <<registers, frames, uncounted_frames, open_upvalues, heap, building>>
    BY DEF SetGlobal
  <1>2. frames # <<>> /\ Boxed!ValueIn(Boxed!Newest, r) = Reg(r)
    BY <1>0, <1>1, Held DEF Running
  <1>3. Box' = Box
    BY <1>1, SameBox
  <1>4. Activations' = Activations
    <2>1. ASSUME NEW i \in 1..Len(frames)
          PROVE  Activations'[i] = Activations[i]
      BY <1>0, <1>1, <1>3, SameActivation
    <2>2. QED  BY <1>0, <1>1, <2>1, SameActivations
  <1>5. Closures' = Closures /\ Boxes' = Boxes /\ OfKind("data")' = OfKind("data")
    BY <1>1 DEF Closures, Boxes, OfKind, Through
  <1>6. StackedInv'
    BY <1>1 DEF BoxesInv, StackedInv
  <1>7. Activations # <<>> /\ r \in Boxed!Registers(Boxed!Newest)
    BY <1>0, <1>1, <1>2, RunningClosure
  <1>8. QED  BY <1>1, <1>2, <1>4, <1>5, <1>6, <1>7 DEF Boxed!SetGlobal

\* SET_UPVALUE writes the box: in the heap if it is closed, and through the
\* location in the register of whichever frame the variable is in if it is open.
LEMMA SetUpvalueMaps ==
    ASSUME BoxesInv, IInv', NEW i, NEW r, SetUpvalue(i, r)
    PROVE  /\ Boxed!SetUpvalue(i, r) /\ r \in Boxed!Registers(Boxed!Newest)
           /\ i \in 1..Len(Closures[Boxed!Newest.closure].upvalues)
           /\ StackedInv' /\ Activations # <<>>
  <1>0. IInv /\ Facts /\ Facts'
    BY BoxesOfRegisters, ActivationsOfFrames, MapsOfHeap, FactsNext DEF BoxesInv, Facts
  <1>1. /\ Running /\ i \in DOMAIN heap[Newest.closure].upvalues /\ r \in Live /\ frames # <<>>
        /\ UNCHANGED <<frames, uncounted_frames, open_upvalues, globals, building>>
    BY DEF SetUpvalue, Running
  <1>2. /\ IsClosure(Newest.closure) /\ Boxed!Newest.closure = Newest.closure
        /\ Closures[Boxed!Newest.closure].upvalues = heap[Newest.closure].upvalues
        /\ Activations # <<>> /\ Boxed!Registers(Boxed!Newest) = Live
    BY <1>0, <1>1, RunningClosure
  <1>3. PICK up \in OfKind("upvalue") :
            up = heap[Newest.closure].upvalues[i] /\ up \in Object /\ heap[up].kind = "upvalue"
    BY <1>0, <1>1, <1>2, MappedClosure DEF OfKind
  <1>4. PICK v \in Value : v = Reg(r) /\ v = Boxed!ValueIn(Boxed!Newest, r)
    BY <1>0, <1>1, Held
  <1>5. IF heap[up].location = Closed
        THEN heap' = [heap EXCEPT ![up].closed = v] /\ UNCHANGED registers
        ELSE registers' = [registers EXCEPT ![heap[up].location] = v] /\ UNCHANGED heap
    BY <1>3, <1>4 DEF SetUpvalue
  <1>6. /\ registers \in [0..(Slots - 1) -> Value \cup {Junk}] /\ heap \in [Object -> HeapObject]
        /\ heap[up] \in [kind : {"upvalue"}, location : 0..(Slots - 1) \cup {Closed},
                         closed : Value]
    BY <1>0, <1>3, Kinds DEF IInv, TypeOK
  <1>7. /\ \A o \in Object : heap'[o].kind = heap[o].kind
        /\ \A o \in Object : o # up => heap'[o] = heap[o]
        /\ heap'[up].location = heap[up].location
        /\ heap[up].location = Closed => heap'[up].closed = v /\ registers' = registers
        /\ heap[up].location # Closed =>
              /\ registers'[heap[up].location] = v
              /\ \A s : s # heap[up].location => registers'[s] = registers[s]
              /\ Box[heap[up].location] = up
    <2>1. CASE heap[up].location = Closed
      BY <1>3, <1>5, <1>6, <2>1
    <2>2. CASE heap[up].location # Closed
      <3>1. /\ registers' = [registers EXCEPT ![heap[up].location] = v]
            /\ heap' = heap /\ heap[up].location \in 0..(Slots - 1)
            /\ Box[heap[up].location] = up
        <4>1. heap[up].location \in 1..(Slots - 1) /\ Box[heap[up].location] = up
          BY <1>0, <1>3, <2>2 DEF Facts, BoxFacts
        <4>2. QED  BY <1>5, <2>2, <4>1
      <3>2. QED  BY <1>6, <2>2, <3>1
    <2>3. QED  BY <2>1, <2>2
  <1>8. Box' = Box
    <2>1. \A o \in Range(open_upvalues) : heap'[o].location = heap[o].location
      <3>1. Range(open_upvalues) \subseteq Object
        BY <1>0, UpvalueSlots DEF IInv
      <3>2. QED  BY <1>7, <3>1
    <2>2. QED  BY <1>1, <2>1, SameBox
  <1>9. Closures' = Closures
    <2>1. /\ \A o \in Object : heap[o].kind = "closure" => heap'[o] = heap[o]
          /\ \A o \in Object : heap'[o].kind = "closure" => heap[o].kind = "closure"
      BY <1>3, <1>7
    <2>2. QED  BY <2>1, SameClosures
  <1>10. OfKind("data")' = OfKind("data") /\ OfKind("upvalue")' = OfKind("upvalue")
    BY <1>7 DEF OfKind
  <1>11. Boxes' = [Boxes EXCEPT ![up] = v]
    <2>1. ASSUME NEW b \in OfKind("upvalue")
          PROVE  Through(b)' = IF b = up THEN v ELSE Through(b)
      <3>1. b \in Object /\ heap[b].kind = "upvalue"
        BY DEF OfKind
      <3>2. CASE b = up
        BY <1>7, <3>2 DEF Through
      <3>3. CASE b # up
        <4>1. heap'[b] = heap[b]
          BY <1>7, <3>1, <3>3
        <4>2. heap[b].location # Closed =>
                 heap[b].location # heap[up].location \/ heap[up].location = Closed
          BY <1>0, <1>7, <3>1, <3>3 DEF Facts, BoxFacts
        <4>3. QED  BY <1>7, <3>3, <4>1, <4>2 DEF Through
      <3>4. QED  BY <3>2, <3>3
    <2>2. Boxes' = [b \in OfKind("upvalue") |-> IF b = up THEN v ELSE Through(b)]
      BY <1>10, <2>1 DEF Boxes
    <2>3. Boxes = [b \in OfKind("upvalue") |-> Through(b)]
      BY DEF Boxes
    <2>4. QED  BY <1>3, <2>2, <2>3
  <1>12. Activations' = Activations
    <2>1. ASSUME NEW j \in 1..Len(frames)
          PROVE  Activations'[j] = Activations[j]
      <3>1. \A s : Box[s] = 0 => registers'[s] = registers[s]
        <4>1. up # 0
          BY <1>3, ConstantsAssumption
        <4>2. QED  BY <1>7, <4>1
      <3>2. QED  BY <1>0, <1>1, <1>8, <3>1, SameActivation
    <2>2. QED  BY <1>0, <1>1, <2>1, SameActivations
  <1>13. StackedInv'
    BY <1>1 DEF BoxesInv, StackedInv
  <1>14. /\ i \in DOMAIN Closures[Boxed!Newest.closure].upvalues
         /\ i \in 1..Len(Closures[Boxed!Newest.closure].upvalues)
    <2>1. heap[Newest.closure].upvalues \in Seq(Object)
      BY <1>0, <1>2, MappedClosure
    <2>2. QED  BY <1>1, <1>2, <2>1
  <1>15. Boxed!SetUpvalue(i, r)
    BY <1>1, <1>2, <1>3, <1>4, <1>9, <1>10, <1>11, <1>12, <1>14 DEF Boxed!SetUpvalue
  <1>16. QED  BY <1>1, <1>2, <1>13, <1>14, <1>15

-----------------------------------------------------------------------------
(* Registers given back.                                                   *)

\* The first registers of a window.
LEMMA ActDropped ==
    ASSUME NEW closure \in Object, NEW base \in Nat, NEW live \in Nat, NEW box, NEW regs,
           \A s \in base..(base + live - 1) : regs[s] \in Value /\ box[s] \in Object \cup {0},
           NEW k \in 0..live
    PROVE  Act(closure, base, k, box, regs) =
              [closure |-> closure,
               vals |-> SubSeq(Act(closure, base, live, box, regs).vals, 1, k),
               boxed |-> SubSeq(Act(closure, base, live, box, regs).boxed, 1, k)]
  <1> DEFINE act == Act(closure, base, live, box, regs)
             act2 == Act(closure, base, k, box, regs)
  <1>1. /\ act \in ActivationRecord /\ act.closure = closure
        /\ Len(act.vals) = live /\ Len(act.boxed) = live
        /\ \A q \in 0..(live - 1) :
              /\ act.boxed[q + 1] = box[base + q]
              /\ act.vals[q + 1] = IF box[base + q] = 0 THEN regs[base + q] ELSE Nil
    BY ActType
  <1>2. \A s \in base..(base + k - 1) : regs[s] \in Value /\ box[s] \in Object \cup {0}
    OBVIOUS
  <1>3. /\ act2 \in ActivationRecord /\ act2.closure = closure
        /\ Len(act2.vals) = k /\ Len(act2.boxed) = k
        /\ \A q \in 0..(k - 1) :
              /\ act2.boxed[q + 1] = box[base + q]
              /\ act2.vals[q + 1] = IF box[base + q] = 0 THEN regs[base + q] ELSE Nil
    <2>1. k \in Nat
      OBVIOUS
    <2>2. QED  BY <1>2, <2>1, ActType
  <1> HIDE DEF act, act2
  <1>4. /\ act.vals \in Seq(Value) /\ act.boxed \in Seq(Object \cup {0})
        /\ act2.vals \in Seq(Value) /\ act2.boxed \in Seq(Object \cup {0})
    BY <1>1, <1>3 DEF ActivationRecord
  <1>5. ASSUME NEW j \in 1..k
        PROVE  act2.vals[j] = act.vals[j] /\ act2.boxed[j] = act.boxed[j]
    <2>1. j - 1 \in 0..(k - 1) /\ j - 1 \in 0..(live - 1) /\ (j - 1) + 1 = j
      OBVIOUS
    <2>2. QED  BY <1>1, <1>3, <2>1
  <1>6. SubSeq(act.vals, 1, k) = act2.vals /\ SubSeq(act.boxed, 1, k) = act2.boxed
    <2>1. /\ SubSeq(act.vals, 1, k) \in Seq(Value) /\ Len(SubSeq(act.vals, 1, k)) = k
          /\ \A j \in 1..k : SubSeq(act.vals, 1, k)[j] = act.vals[j]
      BY <1>1, <1>4, Prefix
    <2>2. /\ SubSeq(act.boxed, 1, k) \in Seq(Object \cup {0})
          /\ Len(SubSeq(act.boxed, 1, k)) = k
          /\ \A j \in 1..k : SubSeq(act.boxed, 1, k)[j] = act.boxed[j]
      BY <1>1, <1>4, Prefix
    <2>3. SubSeq(act.vals, 1, k) = act2.vals
      BY <1>3, <1>4, <1>5, <2>1
    <2>4. SubSeq(act.boxed, 1, k) = act2.boxed
      BY <1>3, <1>4, <1>5, <2>2
    <2>5. QED  BY <2>3, <2>4
  <1>7. act2 = [closure |-> closure, vals |-> act2.vals, boxed |-> act2.boxed]
    BY <1>3 DEF ActivationRecord
  <1>8. QED  BY <1>6, <1>7 DEF act, act2

\* The newest activation with its first k registers.
LEMMA NewestDropped ==
    ASSUME IInv, Facts, frames # <<>>, NEW k \in Nat, k <= Newest.live
    PROVE  [Boxed!Newest EXCEPT !.vals = SubSeq(@, 1, k), !.boxed = SubSeq(@, 1, k)] =
              Act(Newest.closure, Newest.base, k, Box, registers)
  <1>1p. PICK n \in Nat \ {0}, closure \in Object, base \in Nat \ {0}, live \in Nat,
              locals \in Nat : NewestFacts(n, closure, base, live, locals)
    BY NewestActivation
  <1>1. /\ closure \in Object /\ base \in Nat \ {0} /\ live \in Nat
        /\ Newest.closure = closure /\ Newest.base = base /\ Newest.live = live
        /\ Boxed!Newest = Act(closure, base, live, Box, registers)
        /\ Boxed!Newest \in ActivationRecord /\ Boxed!Newest.closure = closure
        /\ \A s \in base..(base + live - 1) :
              registers[s] \in Value /\ Box[s] \in Object \cup {0} /\ s \in 0..(Slots - 1)
    BY <1>1p DEF NewestFacts
  <1>2. QED
    <2>1. k \in 0..live
      BY <1>1
    <2>2. \A s \in base..(base + live - 1) : registers[s] \in Value /\ Box[s] \in Object \cup {0}
      BY <1>1
    <2>3. Act(closure, base, k, Box, registers) =
                [closure |-> closure,
                 vals |-> SubSeq(Act(closure, base, live, Box, registers).vals, 1, k),
                 boxed |-> SubSeq(Act(closure, base, live, Box, registers).boxed, 1, k)]
      <3>1. PICK box, regs : box = Box /\ regs = registers
        OBVIOUS
      <3>2. \A s \in base..(base + live - 1) : regs[s] \in Value /\ box[s] \in Object \cup {0}
        BY <2>2, <3>1
      <3>3. Act(closure, base, k, box, regs) =
                [closure |-> closure,
                 vals |-> SubSeq(Act(closure, base, live, box, regs).vals, 1, k),
                 boxed |-> SubSeq(Act(closure, base, live, box, regs).boxed, 1, k)]
        <4>1. closure \in Object /\ base \in Nat /\ live \in Nat /\ k \in 0..live
          BY <1>1, <2>1
        <4>2. QED  BY ONLY <3>2, <4>1, ActDropped
      <3>4. QED  BY <3>1, <3>3
    <2>4. Act(closure, base, k, Box, registers) =
             [closure |-> Boxed!Newest.closure, vals |-> SubSeq(Boxed!Newest.vals, 1, k),
              boxed |-> SubSeq(Boxed!Newest.boxed, 1, k)]
      BY <1>1, <2>3
    <2>5. PICK vs, bs : /\ vs = SubSeq(Boxed!Newest.vals, 1, k)
                        /\ bs = SubSeq(Boxed!Newest.boxed, 1, k)
      OBVIOUS
    <2>6. [Boxed!Newest EXCEPT !.vals = SubSeq(@, 1, k), !.boxed = SubSeq(@, 1, k)]
              \in [closure : {closure}, vals : {vs}, boxed : {bs}]
      BY <1>1, <2>5 DEF ActivationRecord
    <2>7. \A rec \in [closure : {closure}, vals : {vs}, boxed : {bs}] :
             rec = [closure |-> closure, vals |-> vs, boxed |-> bs]
      OBVIOUS
    <2>8. QED  BY <1>1, <2>3, <2>4, <2>5, <2>6, <2>7

\* The newest frame keeps its first k registers in use.
LEMMA DropMaps ==
    ASSUME BoxesInv, IInv, Facts, Facts', frames # <<>>,
           NEW frame, frames' = ReplaceNewest(frame),
           frame.closure = Newest.closure, frame.base = Newest.base,
           NEW k \in Nat, k <= Newest.live, frame.live = k,
           \A s \in 0..(Slots - 1) : s < Newest.base + k => Box'[s] = Box[s],
           registers' = registers, globals' = globals,
           Boxes' = Boxes, Closures' = Closures, OfKind("data")' = OfKind("data")
    PROVE  /\ Boxed!Drop(k) /\ k \in Boxed!RegisterIndex
           /\ StackedInv' /\ Activations # <<>>
  <1>1p. PICK n \in Nat \ {0}, closure \in Object, base \in Nat \ {0}, live \in Nat,
              locals \in Nat : NewestFacts(n, closure, base, live, locals)
    BY NewestActivation
  <1>1. /\ n \in Nat \ {0} /\ closure \in Object /\ base \in Nat \ {0} /\ live \in Nat
        /\ n = Len(frames) /\ n \in 1..n
        /\ Newest.closure = closure /\ Newest.base = base /\ Newest.live = live
        /\ base + live <= Slots /\ Activations # <<>>
        /\ Boxed!Newest = Act(closure, base, live, Box, registers)
        /\ Len(Boxed!Newest.vals) = live
        /\ \A s \in base..(base + live - 1) :
              registers[s] \in Value /\ Box[s] \in Object \cup {0} /\ s \in 0..(Slots - 1)
    BY <1>1p DEF NewestFacts
  <1>2. /\ Len(frames') = n /\ StackedInv' /\ frames'[n] = frame
        /\ \A i \in 1..n : i # n => frames'[i] = frames[i]
    BY <1>1, NewestChanged
  <1>3. ASSUME NEW i \in 1..Len(frames), i # Len(frames)
        PROVE  Activations'[i] = Activations[i]
    <2>1. \A s \in 0..(Slots - 1) : s < Newest.base => Box'[s] = Box[s]
      BY <1>1
    <2>2. QED  BY <1>1, <1>2, <1>3, <2>1, BelowUnchanged
  <1>4. Activations'[n] = Act(closure, base, k, Box, registers)
    <2>1. n \in 1..Len(frames')
      BY <1>1, <1>2
    <2>2. Activations'[n] =
             Act(frames'[n].closure, frames'[n].base, frames'[n].live, Box', registers')
      BY <2>1 DEF Facts, ActivationFacts
    <2>3. Activations'[n] = Act(closure, base, k, Box', registers')
      BY <1>1, <1>2, <2>2
    <2>4. \A s \in base..(base + k - 1) : Box'[s] = Box[s] /\ registers'[s] = registers[s]
      BY <1>1
    <2>5. Act(closure, base, k, Box', registers') = Act(closure, base, k, Box, registers)
      BY <2>4, ActSame
    <2>6. QED  BY <2>3, <2>5
  <1>5. [Boxed!Newest EXCEPT !.vals = SubSeq(@, 1, k), !.boxed = SubSeq(@, 1, k)] =
           Act(closure, base, k, Box, registers)
    BY <1>1, NewestDropped
  <1>6. Activations' = Boxed!ReplaceNewest(
           [Boxed!Newest EXCEPT !.vals = SubSeq(@, 1, k), !.boxed = SubSeq(@, 1, k)])
    BY <1>1, <1>2, <1>3, <1>4, <1>5, NewestReplaced
  <1>7. k \in Boxed!RegisterIndex
    BY <1>1 DEF Boxed!RegisterIndex
  <1>8. QED  BY <1>1, <1>2, <1>6, <1>7 DEF Boxed!Drop

\* A temporary that becomes a variable is the same register.
LEMMA DeclareLocalMaps ==
    ASSUME BoxesInv, IInv', DeclareLocal
    PROVE  UNCHANGED <<Activations, globals, Closures, Boxes, OfKind("data")>> /\ StackedInv'
  <1> DEFINE frame == [Newest EXCEPT !.locals = @ + 1]
  <1>0. IInv /\ Facts /\ Facts'
    BY BoxesOfRegisters, ActivationsOfFrames, MapsOfHeap, FactsNext DEF BoxesInv, Facts
  <1>1. /\ Running /\ frames # <<>> /\ frames' = ReplaceNewest(frame)
        /\ UNCHANGED <<registers, uncounted_frames, open_upvalues, globals, heap, building>>
    BY DEF DeclareLocal, Running
  <1>2. /\ frame.closure = Newest.closure /\ frame.base = Newest.base
        /\ frame.live = Newest.live
    BY <1>0, <1>1, NewestFrame DEF Frame
  <1> HIDE DEF frame
  <1>3. /\ Len(frames') = Len(frames) /\ StackedInv' /\ frames'[Len(frames)] = frame
        /\ \A i \in 1..Len(frames) : i # Len(frames) => frames'[i] = frames[i]
    BY <1>1, <1>2, NewestChanged
  <1>4. Box' = Box
    BY <1>1, SameBox
  <1>5. ASSUME NEW i \in 1..Len(frames)
        PROVE  Activations'[i] = Activations[i]
    <2>1. /\ frames'[i].closure = frames[i].closure /\ frames'[i].base = frames[i].base
          /\ frames'[i].live = frames[i].live /\ i \in 1..Len(frames')
      BY <1>2, <1>3 DEF Newest
    <2>2. QED  BY <1>0, <1>1, <1>4, <2>1, SameActivation
  <1>6. Activations' = Activations
    BY <1>0, <1>3, <1>5, SameActivations
  <1>7. Closures' = Closures /\ Boxes' = Boxes /\ OfKind("data")' = OfKind("data")
    BY <1>1 DEF Closures, Boxes, OfKind, Through
  <1>8. QED  BY <1>1, <1>3, <1>6, <1>7

\* Temporaries given back had no box.
LEMMA FreeTemporariesMaps ==
    ASSUME BoxesInv, IInv', NEW k, FreeTemporaries(k)
    PROVE  /\ Boxed!Drop(k) /\ k \in Boxed!RegisterIndex
           /\ StackedInv' /\ Activations # <<>>
  <1> DEFINE frame == [Newest EXCEPT !.live = k]
  <1>0. IInv /\ Facts /\ Facts'
    BY BoxesOfRegisters, ActivationsOfFrames, MapsOfHeap, FactsNext DEF BoxesInv, Facts
  <1>1. /\ Running /\ frames # <<>> /\ frames' = ReplaceNewest(frame)
        /\ k \in Newest.locals..(Newest.live - 1)
        /\ UNCHANGED <<registers, uncounted_frames, open_upvalues, globals, heap, building>>
    BY DEF FreeTemporaries, Running
  <1>2. /\ frame.closure = Newest.closure /\ frame.base = Newest.base
        /\ frame.live = k /\ k \in Nat /\ k <= Newest.live
    BY <1>0, <1>1, NewestFrame DEF Frame
  <1> HIDE DEF frame
  <1>3. Box' = Box
    BY <1>1, SameBox
  <1>4. Closures' = Closures /\ Boxes' = Boxes /\ OfKind("data")' = OfKind("data")
    BY <1>1 DEF Closures, Boxes, OfKind, Through
  <1>5. QED  BY <1>0, <1>1, <1>2, <1>3, <1>4, DropMaps

-----------------------------------------------------------------------------
(* close_upvalues: a box keeps its value when its register goes.           *)

\* What close_upvalues closes has the value of its register from then on, and
\* the registers below `last` keep their boxes.
LEMMA ClosingMaps ==
    ASSUME IInv, Facts, Facts', NEW last \in Int, CloseUpvalues(last),
           \A s \in 1..(Slots - 1) :
              s < last /\ (\E o \in Range(open_upvalues) : heap[o].location = s) =>
                  registers'[s] = registers[s]
    PROVE  /\ Boxes' = Boxes /\ Closures' = Closures /\ OfKind("data")' = OfKind("data")
           /\ \A s \in 0..(Slots - 1) : s < last => Box'[s] = Box[s]
  <1>1. /\ TypeOK /\ FrameInv /\ OpenUpvaluesOrdered /\ NothingDangles
    BY DEF IInv
  <1>2. /\ open_upvalues' = StillOpen(last)
        /\ heap' = ClosedFrom(last)
        /\ \A o \in Object : heap'[o].kind = heap[o].kind
        /\ \A o \in Object : heap'[o].kind = "closure" => heap'[o] = heap[o]
        /\ \A o \in Range(StillOpen(last)) : heap'[o] = heap[o]
    BY <1>1, Closing DEF CloseUpvalues
  <1>3. /\ Leaving(last) \subseteq Range(open_upvalues)
        /\ Range(StillOpen(last)) \subseteq Range(open_upvalues)
        /\ Range(open_upvalues) \subseteq Leaving(last) \cup Range(StillOpen(last))
        /\ \A o \in Leaving(last) : heap[o].location >= last
        /\ \A o \in Range(StillOpen(last)) : heap[o].location < last
    BY <1>1, ListCut
  <1>4. \A o \in Range(open_upvalues) :
           /\ o \in Object /\ heap[o].kind = "upvalue"
           /\ heap[o].location \in 1..(Slots - 1) /\ heap[o].location # Closed
    <2>1. \A s \in 1..(Slots - 1) : s # Closed
      BY DEF Closed
    <2>2. QED  BY <1>1, <2>1, UpvalueSlots
  <1>5. Closures' = Closures
    BY <1>2, SameClosures
  <1>6. OfKind("data")' = OfKind("data") /\ OfKind("upvalue")' = OfKind("upvalue")
    BY <1>2 DEF OfKind
  <1>7. ASSUME NEW o \in OfKind("upvalue")
        PROVE  Through(o)' = Through(o)
    <2>1. o \in Object /\ heap[o].kind = "upvalue"
      BY DEF OfKind
    <2>2. CASE o \in Leaving(last)
      <3>1. heap'[o] = [heap[o] EXCEPT !.closed = registers[heap[o].location], !.location = Closed]
        BY <1>2, <2>1, <2>2 DEF ClosedFrom
      <3>2. heap[o] \in [kind : {"upvalue"}, location : 0..(Slots - 1) \cup {Closed},
                         closed : Value]
        BY <1>1, <2>1, Kinds
      <3>3. heap'[o].location = Closed /\ heap'[o].closed = registers[heap[o].location]
        BY <3>1, <3>2
      <3>4. heap[o].location # Closed
        BY <1>3, <1>4, <2>2
      <3>5. QED  BY <3>3, <3>4 DEF Through
    <2>3. CASE o \notin Leaving(last) /\ heap[o].location = Closed
      <3>1. heap'[o] = heap[o]
        BY <1>2, <2>1, <2>3 DEF ClosedFrom
      <3>2. QED  BY <2>3, <3>1 DEF Through
    <2>4. CASE o \notin Leaving(last) /\ heap[o].location # Closed
      <3>1. o \in Range(open_upvalues)
        BY <1>1, <2>1, <2>4 DEF OpenUpvaluesOrdered
      <3>2. o \in Range(StillOpen(last)) /\ heap'[o] = heap[o]
        BY <1>2, <1>3, <2>4, <3>1
      <3>3. heap[o].location < last /\ heap[o].location \in 1..(Slots - 1)
        BY <1>3, <1>4, <3>1, <3>2
      <3>4. registers'[heap[o].location] = registers[heap[o].location]
        BY <3>1, <3>3
      <3>5. QED  BY <2>4, <3>2, <3>4 DEF Through
    <2>5. QED  BY <2>2, <2>3, <2>4
  <1>8. Boxes' = Boxes
    <2>1. Boxes' = [b \in OfKind("upvalue") |-> Through(b)]
      BY <1>6, <1>7 DEF Boxes
    <2>2. QED  BY <2>1 DEF Boxes
  <1>9. ASSUME NEW s \in 0..(Slots - 1), s < last
        PROVE  Box'[s] = Box[s]
    <2>1. CASE Box[s] = 0
      <3>1. \A o \in Range(open_upvalues) : heap[o].location # s
        <4>1. \A o \in Range(open_upvalues) : Box[heap[o].location] = o
          BY <1>4 DEF Facts, BoxFacts
        <4>2. \A o \in Range(open_upvalues) : o # 0
          BY <1>4, ConstantsAssumption
        <4>3. QED  BY <2>1, <4>1, <4>2
      <3>2. ASSUME Box'[s] # 0
            PROVE  FALSE
        <4>1. Box'[s] \in Range(open_upvalues') /\ heap'[Box'[s]].location = s
          BY <3>2 DEF Facts, BoxFacts
        <4>2. PICK o : o = Box'[s]
          OBVIOUS
        <4>3. o \in Range(StillOpen(last)) /\ heap'[o].location = s
          BY <1>2, <4>1, <4>2
        <4>4. QED  BY <1>2, <1>3, <3>1, <4>3
      <3>3. QED  BY <2>1, <3>2
    <2>2. CASE Box[s] # 0
      <3>1. PICK o : o = Box[s] /\ o \in Range(open_upvalues) /\ heap[o].location = s
        BY <2>2 DEF Facts, BoxFacts
      <3>2. o \in Range(StillOpen(last)) /\ s # Closed
        BY <1>3, <1>4, <1>9, <3>1
      <3>3. o \in Object /\ heap'[o].kind = "upvalue" /\ heap'[o].location = s
        BY <1>2, <1>4, <3>1, <3>2
      <3>4. Box'[heap'[o].location] = o
        BY <3>2, <3>3 DEF Facts, BoxFacts
      <3>5. QED  BY <3>1, <3>3, <3>4
    <2>3. QED  BY <2>1, <2>2
  <1>10. QED  BY <1>5, <1>6, <1>8, <1>9

\* The end of a scope gives its registers up; a captured variable of it lives
\* on in its box.
LEMMA EndScopeMaps ==
    ASSUME BoxesInv, IInv', NEW k, EndScope(k)
    PROVE  /\ Boxed!Drop(k) /\ k \in Boxed!RegisterIndex
           /\ StackedInv' /\ Activations # <<>>
  <1> DEFINE frame == [Newest EXCEPT !.locals = k, !.live = k]
  <1>0. IInv /\ Facts /\ Facts'
    BY BoxesOfRegisters, ActivationsOfFrames, MapsOfHeap, FactsNext DEF BoxesInv, Facts
  <1>1. /\ Running /\ frames # <<>> /\ frames' = ReplaceNewest(frame)
        /\ k \in Arity[FunctionOf(Newest)]..(Newest.locals - 1)
        /\ Newest.live = Newest.locals
        /\ CloseUpvalues(Newest.base + k)
        /\ UNCHANGED <<registers, uncounted_frames, globals, building>>
    BY DEF EndScope, Running
  <1>2. /\ Newest \in Frame /\ Arity[FunctionOf(Newest)] \in Nat
    BY <1>0, <1>1, NewestType DEF IInv
  <1>3. /\ frame.closure = Newest.closure /\ frame.base = Newest.base
        /\ frame.live = k /\ k \in Nat /\ k <= Newest.live /\ Newest.base + k \in Int
    BY <1>1, <1>2 DEF Frame
  <1> HIDE DEF frame
  <1>4. /\ Boxes' = Boxes /\ Closures' = Closures /\ OfKind("data")' = OfKind("data")
        /\ \A s \in 0..(Slots - 1) : s < Newest.base + k => Box'[s] = Box[s]
    BY <1>0, <1>1, <1>3, ClosingMaps
  <1>5. QED  BY <1>0, <1>1, <1>3, <1>4, DropMaps

-----------------------------------------------------------------------------
(* Calls, returns and errors.                                              *)

\* What a call of register r makes of the frames and the registers.
CallFacts(r, c, argc) ==
    /\ c = Reg(r) /\ argc = Newest.live - r - 1
    /\ frames # <<>> /\ r \in Live /\ r \in Nat /\ r < Newest.live /\ Newest.locals <= r
    /\ IsClosure(c) /\ argc = Arity[heap[c].function]
    /\ Len(frames') = Len(frames) + 1
    /\ \A i \in 1..Len(frames) : i # Len(frames) => frames'[i] = frames[i]
    /\ frames'[Len(frames)].closure = Newest.closure
    /\ frames'[Len(frames)].base = Newest.base /\ frames'[Len(frames)].live = r + 1
    /\ frames'[Len(frames) + 1].closure = c
    /\ frames'[Len(frames) + 1].base = Newest.base + r + 1
    /\ frames'[Len(frames) + 1].live = argc
    /\ \A s \in 0..(Slots - 1) :
          s < Newest.base + Newest.live => registers'[s] = registers[s]
    /\ UNCHANGED <<open_upvalues, globals, heap>>
    /\ StackedInv'

\* The frames after a call, and the registers.
LEMMA CallFrames ==
    ASSUME BoxesInv, Facts, NEW r, Call(r)
    PROVE  \E c \in Object, argc \in Nat : CallFacts(r, c, argc)
  <1>0. /\ IInv /\ TypeOK /\ FrameInv /\ StackedInv /\ frames # <<>> /\ frames \in Seq(Frame)
        /\ registers \in [0..(Slots - 1) -> Value \cup {Junk}]
    BY DEF BoxesInv, IInv, TypeOK, Call, Running
  <1>0ap. PICK n \in Nat \ {0}, closure \in Object, base \in Nat \ {0}, live \in Nat,
              locals \in Nat : NewestFacts(n, closure, base, live, locals)
    BY <1>0, NewestActivation
  <1>0a. /\ n \in Nat \ {0} /\ base \in Nat \ {0} /\ live \in Nat
         /\ n = Len(frames) /\ base = Newest.base /\ live = Newest.live
         /\ Newest \in Frame /\ base + live <= Slots
    BY <1>0ap DEF NewestFacts
  <1>0b. PICK c, argc, f : c = Reg(r) /\ argc = live - r - 1 /\ f = heap[c].function
    OBVIOUS
  <1> DEFINE caller == [Newest EXCEPT !.live = r + 1]
             callee == FrameOf(c, base + r + 1)
  <1>1. /\ r \in Newest.locals..(live - 1) /\ IsClosure(c) /\ Arity[f] = argc
        /\ registers' = Window(f, base + r + 1)
        /\ frames' = Append(ReplaceNewest(caller), callee)
        /\ UNCHANGED <<uncounted_frames, open_upvalues, globals, heap, building>>
    BY <1>0a, <1>0b DEF Call
  <1>2. /\ Newest \in Frame /\ Newest.locals \in Nat /\ base + live <= Slots
        /\ Newest.closure \in Object /\ Newest.locals \in 0..Slots /\ Newest.live \in 0..Slots
        /\ f \in Function /\ FrameSize[f] \in Nat
    <2>1. f \in Function
      BY <1>0, <1>0b, <1>1, MappedClosure
    <2>2. QED  BY <1>0a, <2>1, ConstantsAssumption DEF Frame
  <1>3. /\ r \in Nat /\ r < live /\ Newest.locals <= r /\ argc \in Nat /\ c \in Object
        /\ r + 1 \in 0..Slots /\ base + r + 1 \in 1..Slots /\ argc \in 0..Slots
    <2>1. c \in Object
      BY <1>1 DEF IsClosure
    <2>2. r \in Nat /\ r < live /\ Newest.locals <= r
      BY <1>0a, <1>1, <1>2, SMTT(30)
    <2>3. argc \in Nat /\ r + 1 \in 0..Slots /\ base + r + 1 \in 1..Slots /\ argc \in 0..Slots
      <3>1. Slots \in Nat /\ base \in Nat \ {0} /\ live \in Nat /\ base + live <= Slots
            /\ argc = live - r - 1
        BY <1>0a, <1>0b, ConstantsAssumption
      <3>2. QED  BY <2>2, <3>1
    <2>4. QED  BY <2>1, <2>2, <2>3
  <1>4. /\ caller \in Frame /\ caller.closure = Newest.closure /\ caller.base = base
        /\ caller.live = r + 1 /\ caller.locals = Newest.locals
    BY <1>0a, <1>2, <1>3 DEF Frame
  <1>5. /\ callee \in Frame /\ callee.closure = c /\ callee.base = base + r + 1
        /\ callee.live = argc
    BY <1>0b, <1>1, <1>3 DEF Frame, FrameOf
  <1> HIDE DEF caller, callee
  <1>6. /\ Len(frames') = n + 1 /\ frames'[n] = caller /\ frames'[n + 1] = callee
        /\ \A i \in 1..n : i # n => frames'[i] = frames[i]
    <2>1. PICK m \in Nat \ {0} : PushedFacts(m, caller, callee)
      BY <1>0, <1>1, <1>4, <1>5, Pushed
    <2>2. QED  BY <1>0a, <2>1 DEF PushedFacts
  <1>7. StackedInv'
    <2>1. caller.locals < caller.live /\ callee.base = Newest.base + caller.live
      BY <1>0a, <1>2, <1>3, <1>4, <1>5
    <2>2. QED  BY <1>0, <1>0a, <1>1, <1>4, <1>5, <2>1, StackedPush
  <1>8. ASSUME NEW s \in 0..(Slots - 1), s < base + live
        PROVE  registers'[s] = registers[s]
    <2>1. (base + r + 1) + Arity[f] = base + live
      <3>1. /\ base \in Nat /\ live \in Nat /\ r \in Nat /\ r < live
            /\ Arity[f] = live - r - 1
        BY <1>0a, <1>0b, <1>1, <1>3
      <3>2. QED  BY ONLY <3>1
    <2>2. s \notin ((base + r + 1) + Arity[f])..((base + r + 1) + FrameSize[f] - 1)
      BY <1>0a, <1>2, <1>8, <2>1
    <2>3. QED  BY <1>0, <1>1, <2>2 DEF Window
  <1>9. r \in Live
    BY <1>0a, <1>3 DEF Live
  <1>10. argc = Arity[heap[c].function]
    BY <1>0b, <1>1
  <1>11. CallFacts(r, c, argc)
    BY <1>0, <1>0a, <1>0b, <1>1, <1>3, <1>4, <1>5, <1>6, <1>7, <1>8, <1>9, <1>10 DEF CallFacts
  <1>12. QED  BY <1>3, <1>11

\* CALL hands the operands of the caller to the callee as its first variables.
LEMMA CallMaps ==
    ASSUME BoxesInv, IInv', NEW r, Call(r)
    PROVE  /\ Boxed!Call(r) /\ r \in Boxed!Registers(Boxed!Newest)
           /\ StackedInv' /\ Activations # <<>>
  <1>0. IInv /\ Facts /\ Facts' /\ frames # <<>>
    BY BoxesOfRegisters, ActivationsOfFrames, MapsOfHeap, FactsNext
       DEF BoxesInv, Facts, Call, Running
  <1>1p. PICK n \in Nat \ {0}, closure \in Object, base \in Nat \ {0}, live \in Nat,
              locals \in Nat : NewestFacts(n, closure, base, live, locals)
    BY <1>0, NewestActivation
  <1>1. /\ n \in Nat \ {0} /\ closure \in Object /\ base \in Nat \ {0}
        /\ live \in Nat /\ locals \in Nat
        /\ n = Len(frames) /\ n \in 1..n
        /\ Newest.closure = closure /\ Newest.base = base /\ Newest.live = live
        /\ Newest.locals = locals /\ locals <= live
        /\ base + live <= Slots /\ Activations # <<>> /\ Len(Activations) = n
        /\ Len(Boxed!Newest.vals) = live
        /\ Boxed!Registers(Boxed!Newest) = Live /\ Live = 0..(live - 1)
        /\ \A q \in Live : Reg(q) = registers[base + q]
        /\ \A s \in base..(base + live - 1) :
              registers[s] \in Value /\ Box[s] \in Object \cup {0} /\ s \in 0..(Slots - 1)
    BY <1>1p DEF NewestFacts
  <1>2p. PICK c \in Object, argc \in Nat : CallFacts(r, c, argc)
    BY <1>0, CallFrames
  <1>2. /\ c \in Object /\ argc \in Nat
        /\ c = Reg(r) /\ argc = live - r - 1
        /\ r \in Live /\ r \in Nat /\ r < live /\ locals <= r
        /\ IsClosure(c) /\ argc = Arity[heap[c].function]
        /\ Len(frames') = n + 1
        /\ \A i \in 1..n : i # n => frames'[i] = frames[i]
        /\ frames'[n].closure = closure
        /\ frames'[n].base = base /\ frames'[n].live = r + 1
        /\ frames'[n + 1].closure = c
        /\ frames'[n + 1].base = base + r + 1 /\ frames'[n + 1].live = argc
        /\ \A s \in 0..(Slots - 1) : s < base + live => registers'[s] = registers[s]
        /\ UNCHANGED <<open_upvalues, globals, heap>>
        /\ StackedInv'
    BY <1>1, <1>2p DEF CallFacts
  <1>3. argc \in Nat /\ c \in Object /\ r + 1 \in Nat
    BY <1>2
  <1>4. Box' = Box
    BY <1>2, <1>3, SameBox
  <1>5. Closures' = Closures /\ OfKind("data")' = OfKind("data")
    BY <1>2, <1>3 DEF Closures, OfKind
  <1>6. Boxes' = Boxes
    <2>1. OfKind("upvalue")' = OfKind("upvalue")
      BY <1>2, <1>3 DEF OfKind
    <2>2. ASSUME NEW b \in OfKind("upvalue")
          PROVE  Through(b)' = Through(b)
      <3>1. heap'[b] = heap[b] /\ b \in Object /\ heap[b].kind = "upvalue"
        BY <1>2, <1>3 DEF OfKind
      <3>2. CASE heap[b].location = Closed
        BY <3>1, <3>2 DEF Through
      <3>3. CASE heap[b].location # Closed
        <4>1. PICK s \in 0..(Slots - 1) : s = heap[b].location /\ Box[s] = b
          BY <1>0, <3>1, <3>3 DEF Facts, BoxFacts
        <4>2. b # 0
          BY <3>1, ConstantsAssumption
        <4>3. ~(s >= base + locals)
          BY <1>0, <1>1, <4>1, <4>2, NoBoxAbove
        <4>4. registers'[s] = registers[s]
          BY <1>1, <1>2, <1>3, <4>3
        <4>5. QED  BY <3>1, <3>3, <4>1, <4>4 DEF Through
      <3>4. QED  BY <3>2, <3>3
    <2>3. QED  BY <2>1, <2>2 DEF Boxes
  <1>7. ASSUME NEW i \in 1..n, i # n
        PROVE  Activations'[i] = Activations[i]
    <2>1. \A s \in frames[i].base..(frames[i].base + frames[i].live - 1) :
             registers'[s] = registers[s]
      <3>1. \A s \in frames[i].base..(frames[i].base + frames[i].live - 1) :
               s < base /\ s \in 0..(Slots - 1)
        BY <1>0, <1>1, <1>7, BelowNewest
      <3>2. \A s \in 0..(Slots - 1) : s < base => s < base + live
        BY <1>1
      <3>3. QED  BY <1>2, <3>1, <3>2
    <2>2. i \in 1..Len(frames') /\ frames'[i] = frames[i] /\ i \in 1..Len(frames)
      <3>1. i \in 1..(n + 1)
        BY <1>7
      <3>2. QED  BY <1>1, <1>2, <1>7, <3>1
    <2>3. QED  BY <1>0, <1>4, <2>1, <2>2, SameActivation
  <1>8. Activations'[n] =
           [Boxed!Newest EXCEPT !.vals = SubSeq(@, 1, r + 1), !.boxed = SubSeq(@, 1, r + 1)]
    <2>1. n \in 1..Len(frames')
      BY <1>1, <1>2, <1>3
    <2>2. Activations'[n] = Act(closure, base, r + 1, Box', registers')
      BY <1>0, <1>2, <1>3, <2>1 DEF Facts, ActivationFacts
    <2>3. \A s \in base..(base + (r + 1) - 1) : Box'[s] = Box[s] /\ registers'[s] = registers[s]
      <3>1. \A s \in base..(base + (r + 1) - 1) :
               s \in base..(base + live - 1) /\ s < base + live
        BY <1>1, <1>2
      <3>2. \A s \in base..(base + live - 1) : s \in 0..(Slots - 1)
        BY <1>1
      <3>3. QED  BY <1>2, <1>4, <3>1, <3>2
    <2>4. Act(closure, base, r + 1, Box', registers') = Act(closure, base, r + 1, Box, registers)
      <3>1. r + 1 \in Nat
        BY <1>2, <1>3
      <3>2. QED  BY <1>1, <2>3, <3>1, ActSame, SMTT(30)
    <2>5. r + 1 \in Nat /\ r + 1 <= Newest.live
      BY <1>1, <1>2, <1>3
    <2>6. QED  BY <1>0, <1>1, <2>2, <2>4, <2>5, NewestDropped
  <1> DEFINE args == [i \in 1..argc |-> Boxed!ValueIn(Boxed!Newest, r + i)]
  <1>9. Activations'[n + 1] = Boxed!Activation(c, args)
    <2>1. n + 1 \in 1..Len(frames')
      BY <1>1, <1>2, <1>3
    <2>2. Activations'[n + 1] = Act(c, base + r + 1, argc, Box, registers')
      BY <1>0, <1>2, <1>3, <1>4, <2>1 DEF Facts, ActivationFacts
    <2>3. ASSUME NEW i \in 1..argc
          PROVE  /\ Box[base + r + 1 + i - 1] = 0
                 /\ registers'[base + r + 1 + i - 1] = Boxed!ValueIn(Boxed!Newest, r + i)
      <3>1. PICK q \in Live : q = r + i /\ q >= locals
        BY <1>1, <1>2, <1>3
      <3>2. PICK s \in base..(base + live - 1) : s = base + q /\ s = base + r + 1 + i - 1
        BY <1>1, <1>2, <1>3, <3>1
      <3>3. s >= base + locals /\ s < base + live /\ s \in 0..(Slots - 1)
        BY <1>1, <3>1, <3>2
      <3>4. Box[s] = 0
        BY <1>0, <1>1, <3>3, NoBoxAbove
      <3>5. registers'[s] = registers[s]
        BY <1>2, <1>3, <3>3
      <3>6. registers[s] = Boxed!ValueIn(Boxed!Newest, q)
        BY <1>0, <1>1, <3>1, <3>2, Held
      <3>7. QED  BY <3>1, <3>2, <3>4, <3>5, <3>6
    <2>4. Act(c, base + r + 1, argc, Box, registers') =
             [closure |-> c, vals |-> [i \in 1..argc |-> Boxed!ValueIn(Boxed!Newest, r + i)],
              boxed |-> [i \in 1..argc |-> 0]]
      BY <2>3 DEF Act
    <2>5. QED  BY <2>2, <2>4 DEF Boxed!Activation
  <1>10. /\ Boxed!ValueIn(Boxed!Newest, r) = c
         /\ c \in DOMAIN Closures /\ argc = Arity[Closures[c].function]
         /\ argc = Len(Boxed!Newest.vals) - r - 1
    BY <1>0, <1>1, <1>2, <1>3, Held, MappedClosure
  <1> DEFINE caller == [Boxed!Newest EXCEPT !.vals = SubSeq(@, 1, r + 1),
                                            !.boxed = SubSeq(@, 1, r + 1)]
  <1>11. Activations' = Append(Boxed!ReplaceNewest(caller), Boxed!Activation(c, args))
    <2>1. PICK act1, act2 : act1 = caller /\ act2 = Boxed!Activation(c, args)
      OBVIOUS
    <2> HIDE DEF caller, args
    <2>2. /\ Activations' \in Seq(ActivationRecord) /\ Len(Activations') = n + 1
          /\ DOMAIN Activations' = 1..(n + 1)
          /\ Activations \in Seq(ActivationRecord) /\ Len(Activations) = n
      BY <1>0, <1>1, <1>2, <1>3 DEF Facts, ActivationFacts
    <2>3. Activations'[n] = act1 /\ Activations'[n + 1] = act2
      BY <1>8, <1>9, <2>1 DEF caller
    <2>4. act1 \in ActivationRecord /\ act2 \in ActivationRecord
      <3>1. n \in 1..(n + 1) /\ n + 1 \in 1..(n + 1)
        BY <1>1
      <3>2. QED  BY <2>2, <2>3, <3>1
    <2>5. Boxed!ReplaceNewest(act1) = [Activations EXCEPT ![n] = act1]
      BY <2>2 DEF Boxed!ReplaceNewest
    <2>6. /\ [Activations EXCEPT ![n] = act1] \in Seq(ActivationRecord)
          /\ Len([Activations EXCEPT ![n] = act1]) = n
          /\ \A i \in 1..n : [Activations EXCEPT ![n] = act1][i] =
                                IF i = n THEN act1 ELSE Activations[i]
      BY <2>2, <2>4
    <2>7. \A i \in 1..n : [Activations EXCEPT ![n] = act1][i] = Activations'[i]
      BY <1>7, <2>3, <2>6
    <2>8. PICK acts : acts = [Activations EXCEPT ![n] = act1]
      OBVIOUS
    <2>9. /\ acts \in Seq(ActivationRecord) /\ Len(acts) = n
          /\ \A i \in 1..n : acts[i] = Activations'[i]
      BY <2>6, <2>7, <2>8
    <2>10. Activations' = Append(acts, act2)
      BY <2>2, <2>3, <2>4, <2>9
    <2>11. QED  BY <2>1, <2>5, <2>8, <2>10
  <1>12. Boxed!Call(r)
    BY <1>1, <1>2, <1>3, <1>5, <1>6, <1>10, <1>11 DEF Boxed!Call
  <1>13. QED  BY <1>1, <1>2, <1>3, <1>12

\* A runtime error ends every activation; what was captured keeps its value.
LEMMA RuntimeErrorMaps ==
    ASSUME BoxesInv, IInv', RuntimeError
    PROVE  Boxed!Unwind /\ StackedInv' /\ Activations # <<>>
  <1>0. IInv /\ Facts /\ Facts'
    BY BoxesOfRegisters, ActivationsOfFrames, MapsOfHeap, FactsNext DEF BoxesInv, Facts
  <1>1. /\ frames # <<>> /\ CloseUpvalues(0) /\ frames' = <<>> /\ globals' = globals
    BY DEF RuntimeError, Running
  <1>2. /\ Boxes' = Boxes /\ Closures' = Closures /\ OfKind("data")' = OfKind("data")
    <2>1. \A s \in 1..(Slots - 1) : ~(s < 0)
      OBVIOUS
    <2>2. QED  BY <1>0, <1>1, <2>1, ClosingMaps
  <1>3. Activations' = <<>>
    <2>1. Activations' \in Seq(ActivationRecord) /\ Len(Activations') = Len(frames')
      BY <1>0 DEF Facts, ActivationFacts
    <2>2. Len(frames') = 0
      BY <1>1
    <2>3. QED  BY <2>1, <2>2
  <1>4. Activations # <<>>
    BY <1>0, <1>1, RunningClosure
  <1>5. StackedInv'
    BY <1>1 DEF StackedInv
  <1>6. QED  BY <1>1, <1>2, <1>3, <1>4, <1>5 DEF Boxed!Unwind

\* The frames after a return, and the registers: those in use of a frame that
\* stays do not change, but for the callee's, which gets the result and is no
\* variable of any frame.
LEMMA ReturnFrames ==
    ASSUME BoxesInv, Facts, NEW v, Return(v)
    PROVE  /\ frames # <<>> /\ Len(frames') = Len(frames) - 1 /\ StackedInv'
           /\ \A i \in 1..(Len(frames) - 1) :
                 /\ frames'[i] = frames[i]
                 /\ \A s \in frames[i].base..(frames[i].base + frames[i].live - 1) :
                       registers'[s] = IF s = Newest.base - 1 THEN v ELSE registers[s]
           /\ \A o \in Range(open_upvalues) : heap[o].location < Newest.base =>
                 /\ heap[o].location < Newest.base - 1
                 /\ registers'[heap[o].location] = registers[heap[o].location]
  <1>0. /\ IInv /\ TypeOK /\ FrameInv /\ StackedInv /\ frames # <<>> /\ frames \in Seq(Frame)
        /\ registers \in [0..(Slots - 1) -> Value \cup {Junk}]
    BY DEF BoxesInv, IInv, TypeOK, Return, Running
  <1>1p. PICK n \in Nat \ {0}, closure \in Object, base \in Nat \ {0}, live \in Nat,
              locals \in Nat : NewestFacts(n, closure, base, live, locals)
    BY <1>0, NewestActivation
  <1>1. /\ n \in Nat \ {0} /\ base \in Nat \ {0}
        /\ n = Len(frames) /\ base = Newest.base /\ Newest = frames[n]
        /\ DOMAIN frames = 1..n
    BY <1>1p DEF NewestFacts
  <1>2. PICK fs : fs = SubSeq(frames, 1, n - 1)
    OBVIOUS
  <1>3. /\ frames' = fs /\ registers' = Settled(IF n = 1 THEN [registers EXCEPT ![0] = Nil]
                                    ELSE [registers EXCEPT ![base - 1] = v], fs)
    BY <1>1, <1>2 DEF Return
  <1>4. fs \in Seq(Frame) /\ Len(fs) = n - 1 /\ \A i \in 1..(n - 1) : fs[i] = frames[i]
    <2>1. n - 1 \in 0..n
      OBVIOUS
    <2>2. QED  BY <1>0, <1>1, <1>2, <2>1, Prefix
  <1>5. DOMAIN fs = 1..(n - 1) /\ 1..(n - 1) \subseteq 1..n
    BY <1>4
  <1>6. StackedInv'
    BY <1>0, <1>1, <1>3, <1>4, <1>5, StackedPop
  <1>7. ASSUME NEW i \in 1..(n - 1),
               NEW s \in frames[i].base..(frames[i].base + frames[i].live - 1)
        PROVE  registers'[s] = IF s = base - 1 THEN v ELSE registers[s]
    <2>1. i \in 1..n /\ i # n
      BY <1>5
    <2>2. s < base /\ s \in 0..(Slots - 1)
      BY <1>0, <1>1, <2>1, BelowNewest
    <2>3. /\ IsClosure(frames[i].closure) /\ frames[i] \in Frame
          /\ frames[i].live <= FrameSize[FunctionOf(frames[i])]
      BY <1>0, <1>1, <2>1 DEF TypeOK
    <2>4. frames[i].base \in Nat /\ frames[i].base # 0 /\ frames[i].live \in Nat
      BY <1>1, <2>1 DEF Facts, ActivationFacts
    <2>5. FrameSize[FunctionOf(frames[i])] \in Nat
      <3>1. FunctionOf(frames[i]) \in Function
        BY <1>0, <2>3, Kinds DEF FunctionOf, IsClosure
      <3>2. QED  BY <3>1, ConstantsAssumption
    <2>6. s \in 0..(WindowEnd(frames[i]) - 1) /\ s # 0
      BY <2>2, <2>3, <2>4, <2>5 DEF WindowEnd
    <2>7. s \in SlotsOf(fs)
      BY <1>4, <1>5, <2>6 DEF SlotsOf
    <2>8. n # 1
      OBVIOUS
    <2>9. base - 1 \in 0..(Slots - 1) \/ s # base - 1
      BY <2>2
    <2>10. QED  BY <1>0, <1>3, <2>2, <2>7, <2>8, <2>9 DEF Settled
  <1>8. ASSUME NEW o \in Range(open_upvalues), heap[o].location < base
        PROVE  /\ heap[o].location < base - 1
               /\ registers'[heap[o].location] = registers[heap[o].location]
    <2>1. PICK s \in 1..(Slots - 1) : s = heap[o].location
      BY <1>0, UpvalueSlots DEF IInv
    <2>2. PICK i \in 1..n : s \in frames[i].base..(frames[i].base + frames[i].locals - 1)
      BY <1>0, <1>1, <2>1 DEF IInv, OpenUpvaluesOrdered
    <2>3. /\ frames[i].base \in Nat /\ frames[i].live \in Nat /\ frames[i].locals \in Nat
      BY <1>1 DEF Facts, ActivationFacts
    <2>4. i # n
      BY <1>1, <1>8, <2>1, <2>2, <2>3
    <2>5. frames[i].base + frames[i].live <= base /\ frames[i].locals < frames[i].live
      BY <1>0, <1>1, <2>4, BelowNewest
    <2>6. /\ s \in frames[i].base..(frames[i].base + frames[i].live - 1)
          /\ s < base - 1 /\ s # base - 1
      BY <2>2, <2>3, <2>5
    <2>7. i \in 1..(n - 1)
      BY <2>4
    <2>8. registers'[s] = registers[s]
      BY <1>7, <2>6, <2>7
    <2>9. QED  BY <2>1, <2>6, <2>8
  <1>9. Len(frames') = n - 1 /\ \A i \in 1..(n - 1) : frames'[i] = frames[i]
    BY <1>3, <1>4
  <1>10. \A i \in 1..(n - 1) :
            /\ frames'[i] = frames[i]
            /\ \A s \in frames[i].base..(frames[i].base + frames[i].live - 1) :
                  registers'[s] = IF s = base - 1 THEN v ELSE registers[s]
    BY <1>7, <1>9
  <1>11. \A o \in Range(open_upvalues) : heap[o].location < base =>
            /\ heap[o].location < base - 1
            /\ registers'[heap[o].location] = registers[heap[o].location]
    BY <1>8
  <1>12. n = Len(frames) /\ base = Newest.base /\ frames # <<>> /\ Len(frames') = n - 1
    BY <1>0, <1>1, <1>9
  <1>13. QED  BY <1>6, <1>10, <1>11, <1>12

\* A return hands its value to the caller's activation, and to nothing else.
LEMMA ReturnMaps ==
    ASSUME BoxesInv, IInv', NEW v, Return(v)
    PROVE  Boxed!Return(v) /\ v \in Boxed!Value /\ StackedInv' /\ Activations # <<>>
  <1>0. IInv /\ Facts /\ Facts' /\ frames # <<>>
    BY BoxesOfRegisters, ActivationsOfFrames, MapsOfHeap, FactsNext
       DEF BoxesInv, Facts, Return, Running
  <1>1p. PICK n \in Nat \ {0}, closure \in Object, base \in Nat \ {0}, size \in Nat,
              variables \in Nat : NewestFacts(n, closure, base, size, variables)
    BY <1>0, NewestActivation
  <1>1. /\ n \in Nat \ {0} /\ base \in Nat \ {0}
        /\ n = Len(frames) /\ base = Newest.base /\ Newest = frames[n]
        /\ DOMAIN frames = 1..n /\ base <= Slots /\ Activations # <<>>
        /\ Len(Activations) = n
    BY <1>1p, ConstantsAssumption DEF NewestFacts, Frame
  <1>2. /\ CloseUpvalues(base) /\ globals' = globals
        /\ v \in {Nil} \cup {Reg(r) : r \in Live}
    BY <1>1 DEF Return
  <1>3. /\ Len(frames') = n - 1 /\ StackedInv'
        /\ \A i \in 1..(n - 1) :
              /\ frames'[i] = frames[i]
              /\ \A s \in frames[i].base..(frames[i].base + frames[i].live - 1) :
                    registers'[s] = IF s = base - 1 THEN v ELSE registers[s]
        /\ \A o \in Range(open_upvalues) : heap[o].location < base =>
              /\ heap[o].location < base - 1
              /\ registers'[heap[o].location] = registers[heap[o].location]
    BY <1>0, <1>1, ReturnFrames
  <1>4. v \in Value /\ v \in {Nil} \cup {Boxed!ValueIn(Boxed!Newest, r) : r \in Live}
    <2>1. \A r \in Live : Boxed!ValueIn(Boxed!Newest, r) = Reg(r) /\ Reg(r) \in Value
      BY <1>0, Held
    <2>2. QED  BY <1>2, <2>1 DEF Value
  <1>5. Boxed!Registers(Boxed!Newest) = Live
    BY <1>0, RunningClosure
  <1>6. /\ Boxes' = Boxes /\ Closures' = Closures /\ OfKind("data")' = OfKind("data")
        /\ \A s \in 0..(Slots - 1) : s < base => Box'[s] = Box[s]
    <2>1. \A s \in 1..(Slots - 1) :
             s < base /\ (\E o \in Range(open_upvalues) : heap[o].location = s) =>
                registers'[s] = registers[s]
      BY <1>3
    <2>2. QED  BY <1>0, <1>2, <2>1, ClosingMaps
  <1>7. CASE n = 1
    <2>1. Activations' \in Seq(ActivationRecord) /\ Len(Activations') = 0
      BY <1>0, <1>3, <1>7 DEF Facts, ActivationFacts
    <2>2. Activations' = <<>>
      BY <2>1
    <2>3. Boxed!Return(v)
      BY <1>1, <1>2, <1>4, <1>5, <1>6, <1>7, <2>2 DEF Boxed!Return, Boxed!Nil, Nil
    <2>4. QED  BY <1>1, <1>3, <1>4, <2>3 DEF Boxed!Value, Boxed!Nil, Value, Nil
  <1>8. CASE n # 1
    <2>1. PICK m \in 1..n : m = n - 1 /\ m # n /\ m \in 1..(n - 1) /\ n > 1
      BY <1>8
    <2>2. PICK c \in Object, cbase \in Nat, live \in Nat, locals \in Nat :
              /\ c = frames[m].closure /\ cbase = frames[m].base
              /\ live = frames[m].live /\ locals = frames[m].locals
              /\ Activations[m] = Act(c, cbase, live, Box, registers)
              /\ \A s \in cbase..(cbase + live - 1) : registers[s] \in Value
      <3>1. m \in 1..Len(frames)
        BY <1>1
      <3>2. /\ frames[m].closure \in Object /\ frames[m].base \in Nat
            /\ frames[m].live \in Nat /\ frames[m].locals \in Nat
            /\ Activations[m] =
                  Act(frames[m].closure, frames[m].base, frames[m].live, Box, registers)
            /\ \A s \in frames[m].base..(frames[m].base + frames[m].live - 1) :
                  registers[s] \in Value
        BY <1>0, <3>1 DEF Facts, ActivationFacts
      <3>3. QED  BY <3>2
    <2>3. cbase + live = base /\ locals < live /\ live > 0
      <3>1. frames[n].base = frames[n - 1].base + frames[n - 1].live
        BY <1>0, <1>1, <2>1 DEF IInv, FrameInv
      <3>2. locals < live
        BY <1>0, <1>1, <2>1, <2>2, BelowNewest
      <3>3. QED  BY <1>1, <2>1, <2>2, <3>1, <3>2
    <2>4. \A s \in cbase..(cbase + live - 1) :
             /\ s < base /\ s \in 0..(Slots - 1) /\ registers[s] \in Value
             /\ Box[s] \in Object \cup {0} /\ Box'[s] = Box[s]
             /\ registers'[s] = IF s = base - 1 THEN v ELSE registers[s]
      <3>1. \A s \in cbase..(cbase + live - 1) : s < base /\ s \in 0..(Slots - 1)
        BY <1>0, <1>1, <2>1, <2>2, BelowNewest
      <3>2. \A s \in 0..(Slots - 1) : Box[s] \in Object \cup {0}
        BY <1>0 DEF Facts, BoxFacts
      <3>3. QED  BY <1>3, <1>6, <2>1, <2>2, <3>1, <3>2
    <2>5. PICK r \in 0..live : r = live - 1 /\ cbase + r = base - 1 /\ r # live
      BY <2>3
    <2>6. Box[cbase + r] = 0
      <3>1. base - 1 \in 0..(Slots - 1)
        BY <1>1, ConstantsAssumption
      <3>2. \A o \in Range(open_upvalues) : heap[o].location # base - 1
        BY <1>1, <1>3
      <3>3. QED  BY <1>0, <2>5, <3>1, <3>2 DEF Facts, BoxFacts
    <2>7. Boxed!Stored(Act(c, cbase, live, Box, registers), r, v) =
             Act(c, cbase, live, Box, registers')
      <3>1. registers'[cbase + r] = v
        BY <2>3, <2>4, <2>5
      <3>2. \A s \in cbase..(cbase + live - 1) : s # cbase + r => registers'[s] = registers[s]
        BY <2>4, <2>5
      <3>3. \A s \in cbase..(cbase + live - 1) :
               registers[s] \in Value /\ Box[s] \in Object \cup {0}
        BY <2>4
      <3>4. live = IF r = live THEN live + 1 ELSE live
        BY <2>5
      <3>5. QED  BY <1>4, <2>6, <3>1, <3>2, <3>3, <3>4, ActStored
    <2>8. Activations'[m] = Act(c, cbase, live, Box, registers')
      <3>1. m \in 1..Len(frames')
        BY <1>3, <2>1
      <3>2. Activations'[m] = Act(c, cbase, live, Box', registers')
        BY <1>0, <1>3, <2>1, <2>2, <3>1 DEF Facts, ActivationFacts
      <3>3. Act(c, cbase, live, Box', registers') = Act(c, cbase, live, Box, registers')
        BY <2>4, ActSame
      <3>4. QED  BY <3>2, <3>3
    <2>9. Activations'[m] = [Activations[m] EXCEPT !.vals[Len(Activations[m].vals)] = v]
      <3>1. Len(Activations[m].vals) = live
        <4>1. \A s \in cbase..(cbase + live - 1) :
                 registers[s] \in Value /\ Box[s] \in Object \cup {0}
          BY <2>4
        <4>2. PICK box, regs : box = Box /\ regs = registers
          OBVIOUS
        <4>3. c \in Object /\ cbase \in Nat /\ live \in Nat
          BY <2>2
        <4>4. \A s \in cbase..(cbase + live - 1) : regs[s] \in Value /\ box[s] \in Object \cup {0}
          BY <4>1, <4>2
        <4>5. Len(Act(c, cbase, live, box, regs).vals) = live
          BY <4>3, <4>4, ActType
        <4>6. QED  BY <2>2, <4>2, <4>5
      <3>2. r # Len(Activations[m].vals) /\ r + 1 = live
        BY <2>5, <3>1
      <3>3. Boxed!Stored(Activations[m], r, v) = [Activations[m] EXCEPT !.vals[live] = v]
        BY <3>2 DEF Boxed!Stored
      <3>4. QED  BY <2>2, <2>7, <2>8, <3>1, <3>3
    <2>10. ASSUME NEW i \in 1..(n - 2)
           PROVE  Activations'[i] = Activations[i]
      <3>1. i \in 1..(n - 1) /\ i # m /\ i \in 1..n /\ i # n /\ i \in 1..Len(frames')
        BY <1>3, <2>1
      <3>2. frames[i].base + frames[i].live <= cbase
        <4>1. i < m /\ i \in DOMAIN frames /\ m \in DOMAIN frames
          BY <1>1, <2>1, <3>1
        <4>2. QED  BY <2>2, <4>1 DEF BoxesInv, StackedInv
      <3>3. frames[i].base \in Nat /\ frames[i].live \in Nat
        BY <1>0, <1>1, <3>1 DEF Facts, ActivationFacts
      <3>4. \A s \in frames[i].base..(frames[i].base + frames[i].live - 1) :
               s # base - 1 /\ s < base /\ s \in 0..(Slots - 1)
        <4>1. \A s \in frames[i].base..(frames[i].base + frames[i].live - 1) :
                 s < base /\ s \in 0..(Slots - 1)
          BY <1>0, <1>1, <3>1, BelowNewest
        <4>2. \A s \in frames[i].base..(frames[i].base + frames[i].live - 1) : s # base - 1
          BY <2>3, <3>2, <3>3
        <4>3. QED  BY <4>1, <4>2
      <3>5. \A s \in frames[i].base..(frames[i].base + frames[i].live - 1) :
               Box'[s] = Box[s] /\ registers'[s] = registers[s]
        BY <1>3, <1>6, <3>1, <3>4
      <3>6. frames'[i] = frames[i] /\ i \in 1..Len(frames)
        BY <1>1, <1>3, <3>1
      <3>7. QED  BY <1>0, <3>1, <3>5, <3>6, SameActivation
    <2>11. PICK act : act = Activations'[m]
      OBVIOUS
    <2>12. Activations' = Append(SubSeq(Activations, 1, n - 2), act)
      <3>1. /\ Activations \in Seq(ActivationRecord) /\ Len(Activations) = n
            /\ Activations' \in Seq(ActivationRecord) /\ Len(Activations') = n - 1
        BY <1>0, <1>1, <1>3 DEF Facts, ActivationFacts
      <3>2. n - 2 \in 0..n
        BY <2>1
      <3>3. PICK acts : acts = SubSeq(Activations, 1, n - 2)
        OBVIOUS
      <3>4. /\ acts \in Seq(ActivationRecord) /\ Len(acts) = n - 2
            /\ \A i \in 1..(n - 2) : acts[i] = Activations[i]
        BY <3>1, <3>2, <3>3, Prefix
      <3>5. act \in ActivationRecord /\ Activations'[n - 1] = act
        BY <2>1, <2>11, <3>1
      <3>6. \A i \in 1..(n - 2) : Activations'[i] = acts[i]
        BY <2>10, <3>4
      <3>7. Activations' = Append(acts, act)
        <4>1. /\ Append(acts, act) \in Seq(ActivationRecord)
              /\ Len(Append(acts, act)) = n - 1 /\ Append(acts, act)[n - 1] = act
              /\ \A i \in 1..(n - 2) : Append(acts, act)[i] = acts[i]
          BY <2>1, <3>4, <3>5
        <4>2. \A i \in 1..(n - 1) : i \in 1..(n - 2) \/ i = n - 1
          OBVIOUS
        <4>3. \A i \in 1..(n - 1) : Append(acts, act)[i] = Activations'[i]
          BY <3>5, <3>6, <4>1, <4>2
        <4>4. QED  BY <3>1, <4>1, <4>3
      <3>8. QED  BY <3>3, <3>7
    <2>13. Boxed!Return(v)
      <3>1. act = [Activations[n - 1] EXCEPT !.vals[Len(Activations[n - 1].vals)] = v]
        BY <2>1, <2>9, <2>11
      <3>2. QED
        BY <1>1, <1>2, <1>4, <1>5, <1>6, <1>8, <2>12, <3>1 DEF Boxed!Return, Boxed!Nil, Nil
    <2>14. QED  BY <1>1, <1>3, <1>4, <2>13 DEF Boxed!Value, Boxed!Nil, Value, Nil
  <1>9. QED  BY <1>7, <1>8

-----------------------------------------------------------------------------
(* Closures.                                                               *)

\* A value that goes to a register beyond those with a box changes no box.
LEMMA SameBoxValues ==
    ASSUME Facts, Facts', NEW slot, Box[slot] = 0,
           \A s \in 0..(Slots - 1) : s # slot => registers'[s] = registers[s],
           \A o \in Object : heap[o].kind = "upvalue" => heap'[o] = heap[o],
           \A o \in Object : heap'[o].kind = "upvalue" => heap[o].kind = "upvalue"
    PROVE  Boxes' = Boxes
  <1>1. OfKind("upvalue")' = OfKind("upvalue")
    BY DEF OfKind
  <1>2. ASSUME NEW b \in OfKind("upvalue")
        PROVE  Through(b)' = Through(b)
    <2>1. heap'[b] = heap[b] /\ b \in Object /\ heap[b].kind = "upvalue" /\ b # 0
      BY ConstantsAssumption DEF OfKind
    <2>2. CASE heap[b].location = Closed
      BY <2>1, <2>2 DEF Through
    <2>3. CASE heap[b].location # Closed
      <3>1. PICK s \in 0..(Slots - 1) : s = heap[b].location /\ Box[s] = b
        BY <2>1, <2>3 DEF Facts, BoxFacts
      <3>2. registers'[s] = registers[s]
        BY <2>1, <3>1
      <3>3. QED  BY <2>1, <2>3, <3>1, <3>2 DEF Through
    <2>4. QED  BY <2>2, <2>3
  <1>3. QED  BY <1>1, <1>2 DEF Boxes

\* A new closure, with no box yet.
LEMMA NewClosureMaps ==
    ASSUME IInv, Facts, NEW f \in Function, NEW o \in Object, IsFresh(o),
           heap' = [heap EXCEPT ![o] = NewClosureOf(f)]
    PROVE  /\ Closures' = [c \in DOMAIN Closures \cup {o} |->
                              IF c = o THEN [function |-> f, upvalues |-> <<>>] ELSE Closures[c]]
           /\ OfKind("data")' = OfKind("data")
           /\ \A p \in Object : heap[p].kind = "upvalue" => heap'[p] = heap[p]
           /\ \A p \in Object : heap'[p].kind = "upvalue" => heap[p].kind = "upvalue"
  <1>1. /\ heap[o].kind = "free" /\ heap'[o] = NewClosureOf(f)
        /\ \A p \in Object \ {o} : heap'[p] = heap[p]
    <2>1. <<>> \in Seq(Object)
      OBVIOUS
    <2>2. NewClosureOf(f) \in HeapObject
      BY <2>1 DEF NewClosureOf, HeapObject
    <2>3. QED  BY <2>2, FreshObject DEF IInv
  <1>2. /\ heap'[o].kind = "closure" /\ heap'[o].function = f /\ heap'[o].upvalues = <<>>
    BY <1>1 DEF NewClosureOf
  <1>3. OfKind("closure")' = OfKind("closure") \cup {o} /\ o \notin OfKind("closure")
    BY <1>1, <1>2 DEF OfKind
  <1>4. OfKind("data")' = OfKind("data")
    BY <1>1, <1>2 DEF OfKind
  <1>5. \A c \in OfKind("closure") : heap'[c] = heap[c] /\ c # o
    BY <1>1, <1>3 DEF OfKind
  <1>6. Closures' = [c \in OfKind("closure") \cup {o} |->
                        [function |-> heap'[c].function, upvalues |-> heap'[c].upvalues]]
    BY <1>3 DEF Closures
  <1>7. DOMAIN Closures = OfKind("closure")
    BY DEF Closures
  <1>8. \A c \in OfKind("closure") \cup {o} :
           [function |-> heap'[c].function, upvalues |-> heap'[c].upvalues] =
              IF c = o THEN [function |-> f, upvalues |-> <<>>] ELSE Closures[c]
    BY <1>2, <1>5 DEF Closures
  <1>9. QED  BY <1>1, <1>2, <1>4, <1>6, <1>7, <1>8

\* A CLOSURE instruction makes a closure in the next register, before any of
\* its captures.
LEMMA ClosureMaps ==
    ASSUME BoxesInv, IInv', NEW f, NEW declares \in BOOLEAN, NEW o, Closure(f, declares, o)
    PROVE  \E r \in Boxed!RegisterIndex :
              /\ Boxed!NewClosure(f, r, o) /\ o \in Object \ Boxed!Used
              /\ f \in Nested[Closures[Boxed!Newest.closure].function]
              /\ StackedInv' /\ Activations # <<>>
  <1> DEFINE frame == [Newest EXCEPT !.live = @ + 1,
                                     !.locals = @ + (IF declares THEN 1 ELSE 0)]
  <1>0. IInv /\ Facts /\ Facts' /\ frames # <<>>
    BY BoxesOfRegisters, ActivationsOfFrames, MapsOfHeap, FactsNext
       DEF BoxesInv, Facts, Closure, Running
  <1>1. /\ f \in Nested[FunctionOf(Newest)] /\ Newest.live = Newest.locals
        /\ Newest.live < FrameSize[FunctionOf(Newest)] /\ IsFresh(o)
        /\ heap' = [heap EXCEPT ![o] = NewClosureOf(f)]
        /\ registers' = [registers EXCEPT ![Newest.base + Newest.live] = o]
        /\ frames' = ReplaceNewest(frame)
        /\ UNCHANGED <<open_upvalues, globals>>
    BY DEF Closure
  <1>2p. PICK n \in Nat \ {0}, closure \in Object, base \in Nat \ {0}, live \in Nat,
              locals \in Nat : NewestFacts(n, closure, base, live, locals)
    BY <1>0, NewestActivation
  <1>2. /\ n \in Nat \ {0} /\ closure \in Object /\ base \in Nat \ {0} /\ live \in Nat
        /\ n = Len(frames) /\ n \in 1..n /\ Newest \in Frame
        /\ Newest.closure = closure /\ Newest.base = base /\ Newest.live = live
        /\ Activations # <<>>
        /\ Boxed!Newest = Act(closure, base, live, Box, registers)
        /\ Len(Boxed!Newest.vals) = live
        /\ \A s \in base..(base + live - 1) :
              registers[s] \in Value /\ Box[s] \in Object \cup {0}
    BY <1>2p DEF NewestFacts
  <1>3. /\ frame.closure = closure /\ frame.base = base /\ frame.live = live + 1
    BY <1>2 DEF Frame
  <1> HIDE DEF frame
  <1>4. f \in Function /\ o \in Object \ Boxed!Used /\ o \in Value
        /\ f \in Nested[Closures[Boxed!Newest.closure].function]
    <2>1. FunctionOf(Newest) \in Function
      BY <1>0, NewestType DEF IInv
    <2>2. f \in Function
      BY <1>1, <2>1, ConstantsAssumption
    <2>3. QED  BY <1>0, <1>1, <2>2, UsedAddresses, RunningClosure DEF Value
  <1>5. PICK slot \in 0..(Slots - 1) : slot = base + live /\ Box[slot] = 0
    <2>1. live \in 0..(FrameSize[FunctionOf(Newest)] - 1)
      BY <1>0, <1>1, <1>2, NewestType DEF IInv
    <2>2. base + live \in 0..(Slots - 1)
      BY <1>0, <1>2, <2>1, LiveSlots DEF IInv
    <2>3. base + live >= Newest.base + Newest.locals
      BY <1>1, <1>2
    <2>4. QED  BY <1>0, <2>2, <2>3, NoBoxAbove
  <1>6. /\ DOMAIN registers = 0..(Slots - 1) /\ registers'[slot] = o
        /\ \A s \in 0..(Slots - 1) : s # slot => registers'[s] = registers[s]
    <2>1. DOMAIN registers = 0..(Slots - 1)
      BY <1>0 DEF IInv, TypeOK
    <2>2. QED  BY <1>1, <1>2, <1>5, <2>1
  <1>7. /\ Closures' = [c \in DOMAIN Closures \cup {o} |->
                           IF c = o THEN [function |-> f, upvalues |-> <<>>] ELSE Closures[c]]
        /\ OfKind("data")' = OfKind("data")
        /\ \A p \in Object : heap[p].kind = "upvalue" => heap'[p] = heap[p]
        /\ \A p \in Object : heap'[p].kind = "upvalue" => heap[p].kind = "upvalue"
    BY <1>0, <1>1, <1>4, NewClosureMaps
  <1>8. Boxes' = Boxes
    BY <1>0, <1>5, <1>6, <1>7, SameBoxValues
  <1>9. Box' = Box
    <2>1. \A p \in Range(open_upvalues) : heap'[p].location = heap[p].location
      BY <1>0, <1>7, UpvalueSlots DEF IInv
    <2>2. QED  BY <1>1, <2>1, SameBox
  <1>10. /\ Len(frames') = n /\ StackedInv' /\ frames'[n] = frame
         /\ \A i \in 1..n : i # n => frames'[i] = frames[i]
    BY <1>0, <1>1, <1>2, <1>3, NewestChanged
  <1>11. ASSUME NEW i \in 1..Len(frames), i # Len(frames)
         PROVE  Activations'[i] = Activations[i]
    <2>1. \A s \in 0..(Slots - 1) : s < Newest.base =>
             Box'[s] = Box[s] /\ registers'[s] = registers[s]
      BY <1>2, <1>5, <1>6, <1>9
    <2>2. QED  BY <1>0, <1>2, <1>10, <1>11, <2>1, BelowUnchanged
  <1>12. Activations'[n] = Act(closure, base, live + 1, Box, registers')
    <2>1. n \in 1..Len(frames')
      BY <1>2, <1>10
    <2>2. Activations'[n] =
             Act(frames'[n].closure, frames'[n].base, frames'[n].live, Box', registers')
      BY <1>0, <2>1 DEF Facts, ActivationFacts
    <2>3. QED  BY <1>3, <1>9, <1>10, <2>2
  <1>13. Boxed!Stored(Boxed!Newest, live, o) = Act(closure, base, live + 1, Box, registers')
    <2>1. PICK live2 \in Nat, r \in 0..live : live2 = live + 1 /\ r = live
      BY <1>2
    <2>2. live2 = IF r = live THEN live + 1 ELSE live
      BY <2>1
    <2>3. registers'[base + r] = o /\ Box[base + r] = 0
      BY <1>5, <1>6, <2>1
    <2>4. \A s \in base..(base + live - 1) : s # base + r => registers'[s] = registers[s]
      <3>1. \A s \in base..(base + live - 1) : s \in 0..(Slots - 1) /\ s # slot
        BY <1>2, <1>5, ConstantsAssumption
      <3>2. QED  BY <1>6, <3>1
    <2>5. Boxed!Stored(Act(closure, base, live, Box, registers), r, o) =
             Act(closure, base, live2, Box, registers')
      <3>1. closure \in Object /\ base \in Nat /\ live \in Nat /\ o \in Value
        BY <1>2, <1>4
      <3>2. \A s \in base..(base + live - 1) :
               registers[s] \in Value /\ Box[s] \in Object \cup {0}
        BY <1>2
      <3>3. QED  BY <2>1, <2>2, <2>3, <2>4, <3>1, <3>2, ActStored
    <2>6. QED  BY <1>2, <2>1, <2>5
  <1>14. Activations' = Boxed!ReplaceNewest(Boxed!Stored(Boxed!Newest, live, o))
    BY <1>0, <1>2, <1>10, <1>11, <1>12, <1>13, NewestReplaced
  <1>15. live \in Boxed!RegisterIndex
    BY <1>2 DEF Boxed!RegisterIndex
  <1>16. Boxed!NewClosure(f, live, o)
    BY <1>1, <1>2, <1>4, <1>7, <1>8, <1>14 DEF Boxed!NewClosure
  <1>17. QED  BY <1>2, <1>4, <1>10, <1>15, <1>16

-----------------------------------------------------------------------------
(* Captures.                                                               *)

\* The walk of capture_upvalue finds the register's box if it has one.
LEMMA SharesBox ==
    ASSUME IInv, Facts, NEW local \in 1..(Slots - 1)
    PROVE  /\ Shares(local) => open_upvalues[Above(local) + 1] = Box[local] /\ Box[local] # 0
           /\ ~Shares(local) => Box[local] = 0
  <1>1. /\ TypeOK /\ FrameInv /\ OpenUpvaluesOrdered /\ NothingDangles
        /\ open_upvalues \in Seq(Object) /\ local \in Int /\ local # Closed
    BY ConstantsAssumption DEF IInv, TypeOK, Closed
  <1>2. PICK m \in Nat : m = Len(open_upvalues) /\ DOMAIN open_upvalues = 1..m
    BY <1>1
  <1>3. PICK a \in 0..m : a = Above(local)
    BY <1>1, <1>2, PassedPrefix
  <1>4. \A o \in Range(open_upvalues) :
           o \in Object /\ heap[o].kind = "upvalue" /\ heap[o].location \in Int
    BY <1>1, UpvalueSlots
  <1>5. /\ \A i \in 1..a : heap[open_upvalues[i]].location > local
        /\ a < m => heap[open_upvalues[a + 1]].location <= local
    BY <1>1, <1>2, <1>3, <1>4, WalkStops
  <1>6. \A i \in 1..m : open_upvalues[i] \in Range(open_upvalues)
    BY <1>2 DEF Range
  <1>7. ASSUME Shares(local)
        PROVE  open_upvalues[Above(local) + 1] = Box[local] /\ Box[local] # 0
    <2>1. a < m /\ heap[open_upvalues[a + 1]].location = local
      BY <1>2, <1>3, <1>7 DEF Shares
    <2>2. PICK o : o = open_upvalues[a + 1] /\ o \in Range(open_upvalues)
      BY <1>3, <1>6, <2>1
    <2>3. o \in Object /\ heap[o].kind = "upvalue" /\ heap[o].location = local
      BY <1>4, <2>1, <2>2
    <2>4. Box[local] = o /\ o # 0
      BY <1>1, <2>3, ConstantsAssumption DEF Facts, BoxFacts
    <2>5. QED  BY <1>3, <2>2, <2>4
  <1>8. ASSUME Box[local] # 0
        PROVE  Shares(local)
    <2>1. PICK o \in Range(open_upvalues) : o = Box[local] /\ heap[o].location = local
      <3>1. local \in 0..(Slots - 1)
        OBVIOUS
      <3>2. QED  BY <1>8, <3>1 DEF Facts, BoxFacts
    <2>2. PICK j \in 1..m : o = open_upvalues[j]
      BY <1>2, <2>1 DEF Range
    <2>3. j \notin 1..a
      BY <1>5, <2>1, <2>2
    <2>4. a < m /\ a + 1 \in 1..m /\ (a + 1 = j \/ a + 1 < j)
      BY <2>3
    <2>5. ~(a + 1 < j)
      <3>1. a + 1 < j => heap[open_upvalues[a + 1]].location > local
        BY <1>1, <1>2, <2>1, <2>2, <2>4 DEF OpenUpvaluesOrdered
      <3>2. heap[open_upvalues[a + 1]].location <= local
        BY <1>5, <2>4
      <3>3. heap[open_upvalues[a + 1]].location \in Int
        BY <1>4, <1>6, <2>4
      <3>4. QED  BY <3>1, <3>2, <3>3
    <2>6. heap[open_upvalues[a + 1]].location = local
      BY <2>1, <2>2, <2>4, <2>5
    <2>7. QED  BY <1>2, <1>3, <2>4, <2>6 DEF Shares
  <1>9. QED  BY <1>7, <1>8

\* The Capture word the machine reads is the one that is promised next, and
\* names a register in use or a box of the running closure.
LEMMA NextCaptureMaps ==
    ASSUME BoxesInv, IInv, Facts, building # None
    PROVE  /\ frames # <<>> /\ Activations # <<>>
           /\ building \in Object /\ building \in DOMAIN Closures
           /\ Captures[Closures[building].function][Len(Closures[building].upvalues) + 1] =
                 NextCapture
           /\ Len(Closures[building].upvalues) < Len(Captures[Closures[building].function])
           /\ NextCapture.index \in Nat
           /\ NextCapture.is_local => NextCapture.index \in Live
  <1>1. /\ TypeOK /\ FrameInv /\ frames # <<>> /\ building \in Object /\ IsClosure(building)
        /\ Len(heap[building].upvalues) < Len(Captures[heap[building].function])
        /\ NextCapture \in Capture
        /\ NextCapture.is_local => NextCapture.index < Newest.locals
    BY NextWord
  <1>2. /\ building \in DOMAIN Closures
        /\ Closures[building].function = heap[building].function
        /\ Closures[building].upvalues = heap[building].upvalues
    BY <1>1, MappedClosure
  <1>3. NextCapture.index \in Nat
    BY <1>1 DEF Capture
  <1>4. NextCapture.is_local => NextCapture.index \in Live
    <2>1. Newest.locals \in Nat /\ Newest.live \in Nat /\ Newest.locals <= Newest.live
      BY <1>1, NewestType DEF Frame
    <2>2. QED  BY <1>1, <1>3, <2>1 DEF Live
  <1>5. Activations # <<>>
    BY <1>1, RunningClosure
  <1>6. QED  BY <1>1, <1>2, <1>3, <1>4, <1>5 DEF NextCapture

\* The closure being built gets one more box.
LEMMA AddUpvalueMaps ==
    ASSUME IInv, Facts, building # None,
           NEW objects \in [Object -> HeapObject], NEW up \in Object,
           objects[building] = heap[building], objects[up].kind = "upvalue",
           \A o \in Object :
               /\ heap[o].kind # "free" => objects[o] = heap[o]
               /\ heap[o].kind = "free" => objects[o].kind \notin {"closure", "data"},
           AddUpvalue(objects, up)
    PROVE  /\ Boxed!AddUpvalue(building, up)
           /\ OfKind("data")' = OfKind("data")
           /\ \A o \in Object : o # building => heap'[o] = objects[o]
           /\ \A o \in Object : heap'[o].kind = objects[o].kind
  <1>1. building \in Object /\ IsClosure(building) /\ heap[building].kind = "closure"
    BY NextWord DEF IsClosure
  <1>2. /\ \A o \in Object :
              /\ o # building => heap'[o] = objects[o]
              /\ heap'[o].kind = objects[o].kind
        /\ heap'[building].function = heap[building].function
        /\ heap'[building].upvalues = Append(heap[building].upvalues, up)
    BY UpvalueAdded
  <1>3. OfKind("closure")' = OfKind("closure") /\ OfKind("data")' = OfKind("data")
    <2>1. \A o \in Object : heap'[o].kind = "closure" <=> heap[o].kind = "closure"
      BY <1>2
    <2>2. \A o \in Object : heap'[o].kind = "data" <=> heap[o].kind = "data"
      BY <1>2
    <2>3. QED  BY <2>1, <2>2 DEF OfKind
  <1>4. \A c \in OfKind("closure") : c # building => heap'[c] = heap[c]
    BY <1>2 DEF OfKind
  <1>5. DOMAIN Closures = OfKind("closure") /\ building \in OfKind("closure")
    BY <1>1 DEF Closures, OfKind
  <1>6. Closures' = [c \in OfKind("closure") |->
                       IF c = building
                       THEN [function |-> heap[building].function,
                             upvalues |-> Append(heap[building].upvalues, up)]
                       ELSE Closures[c]]
    BY <1>2, <1>3, <1>4 DEF Closures
  <1>7. Closures[building] = [function |-> heap[building].function,
                              upvalues |-> heap[building].upvalues]
    BY <1>5 DEF Closures
  <1>8. PICK ups, f : ups = Append(heap[building].upvalues, up) /\ f = heap[building].function
    OBVIOUS
  <1>9. Closures' = [Closures EXCEPT ![building].upvalues = Append(@, up)]
    <2>1. Closures' = [c \in OfKind("closure") |->
                          IF c = building THEN [function |-> f, upvalues |-> ups]
                                          ELSE Closures[c]]
      BY <1>6, <1>8
    <2>2. [Closures[building] EXCEPT !.upvalues = ups] = [function |-> f, upvalues |-> ups]
      <3>1. PICK rec : rec = Closures[building]
        OBVIOUS
      <3>2. rec = [function |-> f, upvalues |-> heap[building].upvalues]
        BY <1>7, <1>8, <3>1
      <3>3. [rec EXCEPT !.upvalues = ups] \in [function : {f}, upvalues : {ups}]
        BY <3>2
      <3>4. \A x \in [function : {f}, upvalues : {ups}] : x = [function |-> f, upvalues |-> ups]
        OBVIOUS
      <3>5. QED  BY <3>1, <3>3, <3>4
    <2>3. Append(Closures[building].upvalues, up) = ups
      BY <1>7, <1>8
    <2>4. Closures' = [Closures EXCEPT ![building] = [Closures[building] EXCEPT !.upvalues = ups]]
      <3>1. Closures = [c \in OfKind("closure") |-> Closures[c]]
        BY DEF Closures
      <3>2. QED  BY <1>5, <2>1, <2>2, <3>1
    <2>5. QED  BY <2>3, <2>4
  <1>10. Boxed!AddUpvalue(building, up)
    BY <1>9 DEF Boxed!AddUpvalue
  <1>11. QED  BY <1>2, <1>3, <1>10

\* A capture of a box that is there already.
LEMMA KnownUpvalueMaps ==
    ASSUME BoxesInv, IInv', Facts, Facts', building # None,
           NEW up \in OfKind("upvalue"), AddUpvalue(heap, up),
           UNCHANGED <<registers, frames, uncounted_frames, open_upvalues, globals>>
    PROVE  /\ Boxed!AddUpvalue(building, up)
           /\ UNCHANGED <<Activations, globals, Boxes, OfKind("data")>> /\ StackedInv'
  <1>1. IInv /\ TypeOK /\ up \in Object /\ heap[up].kind = "upvalue"
    BY DEF BoxesInv, IInv, OfKind
  <1>2. /\ heap \in [Object -> HeapObject]
        /\ \A o \in Object : heap[o].kind = "free" => heap[o].kind \notin {"closure", "data"}
    BY <1>1 DEF TypeOK
  <1>3. /\ Boxed!AddUpvalue(building, up) /\ OfKind("data")' = OfKind("data")
        /\ \A o \in Object : o # building => heap'[o] = heap[o]
        /\ \A o \in Object : heap'[o].kind = heap[o].kind
    BY <1>1, <1>2, AddUpvalueMaps
  <1>4. heap[building].kind = "closure"
    BY <1>1, NextWord DEF IsClosure
  <1>5. \A o \in Object : heap[o].kind = "upvalue" => heap'[o] = heap[o]
    BY <1>3, <1>4
  <1>6. Boxes' = Boxes
    <2>1. OfKind("upvalue")' = OfKind("upvalue")
      BY <1>3 DEF OfKind
    <2>2. \A b \in OfKind("upvalue") : Through(b)' = Through(b)
      BY <1>5 DEF OfKind, Through
    <2>3. QED  BY <2>1, <2>2 DEF Boxes
  <1>7. Box' = Box
    <2>1. \A p \in Range(open_upvalues) : heap'[p].location = heap[p].location
      BY <1>1, <1>5, UpvalueSlots DEF IInv
    <2>2. QED  BY <2>1, SameBox
  <1>8. Activations' = Activations
    <2>1. ASSUME NEW i \in 1..Len(frames)
          PROVE  Activations'[i] = Activations[i]
      BY <1>7, SameActivation
    <2>2. QED  BY <2>1, SameActivations
  <1>9. StackedInv'
    BY DEF BoxesInv, StackedInv
  <1>10. QED  BY <1>3, <1>6, <1>8, <1>9

\* A variable further out: its box is the running closure's.
LEMMA CaptureOuterMaps ==
    ASSUME BoxesInv, IInv', CaptureOuter
    PROVE  /\ Boxed!Capture(building, building) /\ building \in DOMAIN Closures
           /\ building \in Object /\ StackedInv' /\ Activations # <<>>
  <1>0. IInv /\ Facts /\ Facts' /\ building # None
    BY BoxesOfRegisters, ActivationsOfFrames, MapsOfHeap, FactsNext
       DEF BoxesInv, Facts, CaptureOuter
  <1>1. /\ ~NextCapture.is_local
        /\ AddUpvalue(heap, heap[Newest.closure].upvalues[NextCapture.index + 1])
        /\ UNCHANGED <<registers, frames, uncounted_frames, open_upvalues, globals>>
    BY DEF CaptureOuter
  <1>2. /\ frames # <<>> /\ Activations # <<>>
        /\ building \in Object /\ building \in DOMAIN Closures
        /\ Captures[Closures[building].function][Len(Closures[building].upvalues) + 1] =
              NextCapture
        /\ Len(Closures[building].upvalues) < Len(Captures[Closures[building].function])
        /\ NextCapture.index \in Nat
    BY <1>0, NextCaptureMaps
  <1>3. /\ Closures[Boxed!Newest.closure].upvalues = heap[Newest.closure].upvalues
        /\ IsClosure(Newest.closure)
    BY <1>0, <1>2, RunningClosure
  <1>4. NextCapture.index + 1 \in DOMAIN heap[Newest.closure].upvalues
    <2>1. /\ NextCapture.index < Len(Captures[FunctionOf(Newest)])
          /\ TypeOK /\ FrameInv /\ ClosureInv
      BY <1>0, <1>1, NextWord
    <2>2. /\ Newest.closure # building /\ Newest.closure \in Object
          /\ heap[Newest.closure].upvalues \in Seq(Object)
      BY <1>0, <1>2, <1>3, <2>1, NewestType, MappedClosure
    <2>3. Len(heap[Newest.closure].upvalues) = Len(Captures[FunctionOf(Newest)])
      BY <1>3, <2>1, <2>2 DEF ClosureInv, FunctionOf
    <2>4. QED  BY <1>2, <2>1, <2>2, <2>3
  <1>5. PICK up \in OfKind("upvalue") :
            up = heap[Newest.closure].upvalues[NextCapture.index + 1]
    BY <1>0, <1>3, <1>4, MappedClosure
  <1>6. /\ Boxed!AddUpvalue(building, up)
        /\ UNCHANGED <<Activations, globals, Boxes, OfKind("data")>> /\ StackedInv'
    BY <1>0, <1>1, <1>5, KnownUpvalueMaps
  <1>7. Boxed!Capture(building, building)
    BY <1>1, <1>2, <1>3, <1>5, <1>6 DEF Boxed!Capture
  <1>8. QED  BY <1>2, <1>6, <1>7

\* The register that a Capture word names, and its box.
LEMMA CapturedRegister ==
    ASSUME BoxesInv, IInv, Facts, building # None, NextCapture.is_local
    PROVE  \E local \in 1..(Slots - 1), r \in Live :
              /\ local = Newest.base + NextCapture.index /\ r = NextCapture.index
              /\ Boxed!Newest.boxed[r + 1] = Box[local]
              /\ Box[local] = 0 => Boxed!Newest.vals[r + 1] = registers[local]
              /\ local >= Newest.base /\ local < Newest.base + Newest.live
  <1>1. frames # <<>> /\ NextCapture.index \in Live
    BY NextCaptureMaps
  <1>2. PICK r \in Live : r = NextCapture.index
    BY <1>1
  <1>3p. PICK n \in Nat \ {0}, closure \in Object, base \in Nat \ {0}, live \in Nat,
              locals \in Nat : NewestFacts(n, closure, base, live, locals)
    BY <1>1, NewestActivation
  <1>3. /\ base \in Nat \ {0} /\ live \in Nat
        /\ base = Newest.base /\ live = Newest.live /\ Live = 0..(live - 1)
        /\ \A q \in Live :
              /\ Boxed!Newest.boxed[q + 1] = Box[base + q]
              /\ Boxed!Newest.vals[q + 1] =
                    IF Box[base + q] = 0 THEN registers[base + q] ELSE Nil
        /\ \A s \in base..(base + live - 1) : s \in 0..(Slots - 1)
    BY <1>3p DEF NewestFacts
  <1>4. PICK local \in 1..(Slots - 1) :
            local = base + r /\ local >= base /\ local < base + live
    <2>1. base + r \in base..(base + live - 1) /\ base + r # 0
      BY <1>2, <1>3
    <2>2. base + r \in 1..(Slots - 1)
      BY <1>3, <2>1
    <2>3. QED  BY <2>1, <2>2
  <1>5. QED  BY <1>2, <1>3, <1>4

\* A variable some closure captured before: the two share its box.
LEMMA CaptureSharedMaps ==
    ASSUME BoxesInv, IInv', CaptureShared
    PROVE  /\ Boxed!Capture(building, building) /\ building \in DOMAIN Closures
           /\ building \in Object /\ StackedInv' /\ Activations # <<>>
  <1>0. IInv /\ Facts /\ Facts' /\ building # None /\ NextCapture.is_local
    BY BoxesOfRegisters, ActivationsOfFrames, MapsOfHeap, FactsNext
       DEF BoxesInv, Facts, CaptureShared
  <1>1. PICK local \in 1..(Slots - 1), r \in Live :
            /\ local = Newest.base + NextCapture.index /\ r = NextCapture.index
            /\ Boxed!Newest.boxed[r + 1] = Box[local]
    BY <1>0, CapturedRegister
  <1>2. /\ Shares(local) /\ AddUpvalue(heap, open_upvalues[Above(local) + 1])
        /\ UNCHANGED <<registers, frames, uncounted_frames, open_upvalues, globals>>
    BY <1>1 DEF CaptureShared
  <1>3. /\ frames # <<>> /\ Activations # <<>>
        /\ building \in Object /\ building \in DOMAIN Closures
        /\ Captures[Closures[building].function][Len(Closures[building].upvalues) + 1] =
              NextCapture
        /\ Len(Closures[building].upvalues) < Len(Captures[Closures[building].function])
    BY <1>0, NextCaptureMaps
  <1>4. PICK up : up = Box[local] /\ up # 0 /\ up = open_upvalues[Above(local) + 1]
    BY <1>0, <1>2, SharesBox
  <1>5. up \in OfKind("upvalue")
    <2>1. PICK s \in 0..(Slots - 1) : s = local
      OBVIOUS
    <2>2. Box[s] # 0 => Box[s] \in Object /\ heap[Box[s]].kind = "upvalue"
      BY <1>0 DEF Facts, BoxFacts
    <2>3. up \in Object /\ heap[up].kind = "upvalue"
      BY <1>4, <2>1, <2>2
    <2>4. QED  BY <2>3 DEF OfKind
  <1>6. /\ Boxed!AddUpvalue(building, up)
        /\ UNCHANGED <<Activations, globals, Boxes, OfKind("data")>> /\ StackedInv'
    BY <1>0, <1>2, <1>4, <1>5, KnownUpvalueMaps
  <1>7. Boxed!Capture(building, building)
    BY <1>0, <1>1, <1>3, <1>4, <1>6 DEF Boxed!Capture
  <1>8. QED  BY <1>3, <1>6, <1>7

\* An activation whose register r becomes a box's.
BoxedAt(act, r, o) == [act EXCEPT !.vals[r + 1] = Nil, !.boxed[r + 1] = o]

\* It is the one of a window where that register has a box.
LEMMA ActBoxed ==
    ASSUME NEW closure \in Object, NEW base \in Nat, NEW live \in Nat, NEW box, NEW regs,
           \A s \in base..(base + live - 1) : regs[s] \in Value /\ box[s] \in Object \cup {0},
           NEW r \in 0..(live - 1), NEW o \in Object, NEW box2, box2[base + r] = o,
           \A s \in base..(base + live - 1) : s # base + r => box2[s] = box[s]
    PROVE  Act(closure, base, live, box2, regs) =
              BoxedAt(Act(closure, base, live, box, regs), r, o)
  <1> DEFINE act == Act(closure, base, live, box, regs)
             act2 == Act(closure, base, live, box2, regs)
  <1>1. act = [closure |-> closure,
               vals |-> [q \in 1..live |->
                            IF box[base + q - 1] = 0 THEN regs[base + q - 1] ELSE Nil],
               boxed |-> [q \in 1..live |-> box[base + q - 1]]]
    BY DEF Act
  <1>2. act2 = [closure |-> closure,
                vals |-> [q \in 1..live |->
                             IF box2[base + q - 1] = 0 THEN regs[base + q - 1] ELSE Nil],
                boxed |-> [q \in 1..live |-> box2[base + q - 1]]]
    BY DEF Act
  <1> HIDE DEF act, act2
  <1>3. ASSUME NEW q \in 1..live
        PROVE  box2[base + q - 1] = IF q = r + 1 THEN o ELSE box[base + q - 1]
    <2>1. base + q - 1 \in base..(base + live - 1) /\ (base + q - 1 = base + r <=> q = r + 1)
      OBVIOUS
    <2>2. QED  BY <2>1
  <1>4. o # 0
    BY ConstantsAssumption
  <1>5. act2.vals = [act.vals EXCEPT ![r + 1] = Nil]
    <2>1. act.vals = [q \in 1..live |->
                         IF box[base + q - 1] = 0 THEN regs[base + q - 1] ELSE Nil]
      BY <1>1
    <2>2. act2.vals = [q \in 1..live |->
                          IF box2[base + q - 1] = 0 THEN regs[base + q - 1] ELSE Nil]
      BY <1>2
    <2>3. PICK old, new : old = act.vals /\ new = act2.vals
      OBVIOUS
    <2>4. old = [q \in 1..live |-> old[q]] /\ new = [q \in 1..live |-> new[q]]
      BY <2>1, <2>2, <2>3
    <2>5. \A q \in 1..live : new[q] = IF q = r + 1 THEN Nil ELSE old[q]
      BY <1>3, <1>4, <2>1, <2>2, <2>3
    <2>6. new = [q \in 1..live |-> IF q = r + 1 THEN Nil ELSE old[q]]
      <3>1. \A q \in 1..live : new[q] = IF q = r + 1 THEN Nil ELSE old[q]
        BY <2>5
      <3>2. new = [q \in 1..live |-> new[q]]
        BY <2>4
      <3>3. QED  BY <3>1, <3>2
    <2>7. [old EXCEPT ![r + 1] = Nil] = [q \in 1..live |-> IF q = r + 1 THEN Nil ELSE old[q]]
      <3>1. DOMAIN old = 1..live
        BY <2>4
      <3>2. QED  BY <3>1
    <2>8. QED  BY <2>3, <2>6, <2>7
  <1>6. act2.boxed = [act.boxed EXCEPT ![r + 1] = o]
    <2>1. act.boxed = [q \in 1..live |-> box[base + q - 1]]
      BY <1>1
    <2>2. act2.boxed = [q \in 1..live |-> box2[base + q - 1]]
      BY <1>2
    <2>3. PICK old, new : old = act.boxed /\ new = act2.boxed
      OBVIOUS
    <2>4. DOMAIN old = 1..live /\ old = [q \in 1..live |-> old[q]]
      BY <2>1, <2>3
    <2>5. \A q \in 1..live : box2[base + q - 1] = IF q = r + 1 THEN o ELSE old[q]
      BY <1>3, <2>1, <2>3
    <2>6. new = [q \in 1..live |-> IF q = r + 1 THEN o ELSE old[q]]
      BY <2>2, <2>3, <2>5
    <2>7. [old EXCEPT ![r + 1] = o] = [q \in 1..live |-> IF q = r + 1 THEN o ELSE old[q]]
      BY <2>4
    <2>8. QED  BY <2>3, <2>6, <2>7
  <1>7. PICK vs, bs : vs = act2.vals /\ bs = act2.boxed
    OBVIOUS
  <1>8. act2 = [closure |-> closure, vals |-> vs, boxed |-> bs]
    BY <1>2, <1>7
  <1>9. [act EXCEPT !.vals = vs, !.boxed = bs] \in [closure : {closure}, vals : {vs}, boxed : {bs}]
    BY <1>1
  <1>10. \A rec \in [closure : {closure}, vals : {vs}, boxed : {bs}] :
            rec = [closure |-> closure, vals |-> vs, boxed |-> bs]
    OBVIOUS
  <1>11. [act EXCEPT !.vals = vs, !.boxed = bs] = act2
    BY <1>8, <1>9, <1>10
  <1>12. BoxedAt(act, r, o) = act2
    BY <1>5, <1>6, <1>7, <1>11 DEF BoxedAt
  <1>13. QED  BY <1>12 DEF act, act2

\* A new open upvalue is the box of its register, and of no other.
LEMMA NewUpvalueMaps ==
    ASSUME IInv, Facts, Facts', NEW o \in Object, heap[o].kind = "free",
           NEW local \in 1..(Slots - 1), Box[local] = 0,
           heap'[o] = OpenUpvalue(local),
           \A p \in Object : p # o /\ heap[p].kind # "closure" => heap'[p] = heap[p],
           \A p \in Object : p # o => heap'[p].kind = heap[p].kind,
           registers' = registers
    PROVE  /\ Box'[local] = o
           /\ \A s \in 0..(Slots - 1) : s # local => Box'[s] = Box[s]
           /\ Boxes' = [b \in DOMAIN Boxes \cup {o} |->
                           IF b = o THEN registers[local] ELSE Boxes[b]]
  <1>1. /\ heap'[o].kind = "upvalue" /\ heap'[o].location = local /\ heap'[o].closed = Nil
        /\ local # Closed /\ local \in 0..(Slots - 1)
    BY DEF OpenUpvalue, Closed
  <1>2. Box'[local] = o
    BY <1>1 DEF Facts, BoxFacts
  <1>3. ASSUME NEW s \in 0..(Slots - 1), s # local
        PROVE  Box'[s] = Box[s]
    <2>0. s # Closed
      BY DEF Closed
    <2>1. CASE Box[s] # 0
      <3>1. PICK p \in Object : p = Box[s] /\ heap[p].kind = "upvalue" /\ heap[p].location = s
        BY <2>1 DEF Facts, BoxFacts
      <3>2. heap'[p] = heap[p]
        BY <3>1
      <3>3. heap'[p].kind = "upvalue" /\ heap'[p].location = s
        BY <3>1, <3>2
      <3>4. Box'[s] = p
        BY <2>0, <3>3 DEF Facts, BoxFacts
      <3>5. QED  BY <3>1, <3>4
    <2>2. CASE Box[s] = 0
      <3>1. ASSUME Box'[s] # 0
            PROVE  FALSE
        <4>1. PICK p \in Object :
                  p = Box'[s] /\ heap'[p].kind = "upvalue" /\ heap'[p].location = s
          BY <3>1 DEF Facts, BoxFacts
        <4>2. p # o
          BY <1>1, <1>3, <4>1
        <4>3. heap[p].kind = "upvalue" /\ heap[p].location = s
          BY <4>1, <4>2
        <4>4. Box[s] = p /\ p # 0
          BY <2>0, <4>3, ConstantsAssumption DEF Facts, BoxFacts
        <4>5. QED  BY <2>2, <4>4
      <3>2. QED  BY <2>2, <3>1
    <2>3. QED  BY <2>1, <2>2
  <1>4. OfKind("upvalue")' = OfKind("upvalue") \cup {o} /\ o \notin OfKind("upvalue")
    BY <1>1 DEF OfKind
  <1>5. \A b \in OfKind("upvalue") : Through(b)' = Through(b)
    <2>1. \A b \in OfKind("upvalue") : heap'[b] = heap[b]
      BY <1>4 DEF OfKind
    <2>2. QED  BY <2>1 DEF Through
  <1>6. Through(o)' = registers[local]
    BY <1>1 DEF Through
  <1>7. DOMAIN Boxes = OfKind("upvalue") /\ \A b \in OfKind("upvalue") : Boxes[b] = Through(b)
    BY DEF Boxes
  <1>8. Boxes' = [b \in OfKind("upvalue") \cup {o} |-> IF b = o THEN registers[local] ELSE Boxes[b]]
    <2>1. Boxes' = [b \in OfKind("upvalue") \cup {o} |-> Through(b)']
      BY <1>4 DEF Boxes
    <2>2. \A b \in OfKind("upvalue") \cup {o} :
             Through(b)' = IF b = o THEN registers[local] ELSE Boxes[b]
      BY <1>4, <1>5, <1>6, <1>7
    <2>3. QED  BY <2>1, <2>2
  <1>9. QED  BY <1>2, <1>3, <1>7, <1>8

\* A variable captured for the first time gets a box, and its value goes there.
LEMMA CaptureNewMaps ==
    ASSUME BoxesInv, IInv', NEW o, CaptureNew(o)
    PROVE  /\ Boxed!Capture(building, o) /\ building \in DOMAIN Closures
           /\ o \in Object /\ StackedInv' /\ Activations # <<>>
  <1> DEFINE objects == [heap EXCEPT ![o] = OpenUpvalue(Newest.base + NextCapture.index)]
  <1>0. IInv /\ Facts /\ Facts' /\ building # None /\ NextCapture.is_local
    BY BoxesOfRegisters, ActivationsOfFrames, MapsOfHeap, FactsNext
       DEF BoxesInv, Facts, CaptureNew
  <1>1. PICK local \in 1..(Slots - 1), r \in Live :
            /\ local = Newest.base + NextCapture.index /\ r = NextCapture.index
            /\ Boxed!Newest.boxed[r + 1] = Box[local]
            /\ Box[local] = 0 => Boxed!Newest.vals[r + 1] = registers[local]
            /\ local >= Newest.base /\ local < Newest.base + Newest.live
    BY <1>0, CapturedRegister
  <1>2. /\ ~Shares(local) /\ IsFresh(o) /\ AddUpvalue(objects, o)
        /\ UNCHANGED <<registers, frames, uncounted_frames, globals>>
    BY <1>1 DEF CaptureNew
  <1>3. /\ frames # <<>> /\ Activations # <<>>
        /\ building \in Object /\ building \in DOMAIN Closures
        /\ Captures[Closures[building].function][Len(Closures[building].upvalues) + 1] =
              NextCapture
        /\ Len(Closures[building].upvalues) < Len(Captures[Closures[building].function])
    BY <1>0, NextCaptureMaps
  <1>4. o \in Object /\ o \notin Boxed!Used /\ heap[o].kind = "free" /\ o # building
    <2>1. o \in Object /\ o \notin Boxed!Used /\ heap[o].kind = "free"
      BY <1>0, <1>2, UsedAddresses DEF IsFresh, FreeAddresses
    <2>2. heap[building].kind = "closure"
      BY <1>0, NextWord DEF IsClosure
    <2>3. QED  BY <2>1, <2>2
  <1>5. Box[local] = 0
    BY <1>0, <1>2, SharesBox
  <1>6. /\ OpenUpvalue(local) \in HeapObject /\ OpenUpvalue(local).kind = "upvalue"
        /\ objects = [heap EXCEPT ![o] = OpenUpvalue(local)]
    <2>1. local \in 0..(Slots - 1) \cup {Closed} /\ Nil \in Value
      BY DEF Value
    <2>2. QED  BY <1>1, <2>1 DEF OpenUpvalue, HeapObject
  <1>7. /\ objects \in [Object -> HeapObject] /\ objects[o] = OpenUpvalue(local)
        /\ \A p \in Object \ {o} : objects[p] = heap[p]
    BY <1>0, <1>4, <1>6 DEF IInv, TypeOK
  <1> HIDE DEF objects
  <1>8. /\ Boxed!AddUpvalue(building, o) /\ OfKind("data")' = OfKind("data")
        /\ \A p \in Object : p # building => heap'[p] = objects[p]
        /\ \A p \in Object : heap'[p].kind = objects[p].kind
    <2>1. objects[building] = heap[building] /\ objects[o].kind = "upvalue"
      BY <1>3, <1>4, <1>6, <1>7
    <2>2. \A p \in Object :
             /\ heap[p].kind # "free" => objects[p] = heap[p]
             /\ heap[p].kind = "free" => objects[p].kind \notin {"closure", "data"}
      BY <1>4, <1>6, <1>7
    <2>3. QED  BY <1>0, <1>2, <1>4, <1>7, <2>1, <2>2, AddUpvalueMaps
  <1>9. /\ Box'[local] = o
        /\ \A s \in 0..(Slots - 1) : s # local => Box'[s] = Box[s]
        /\ Boxes' = [b \in DOMAIN Boxes \cup {o} |->
                        IF b = o THEN registers[local] ELSE Boxes[b]]
    <2>1. heap[building].kind = "closure"
      BY <1>0, NextWord DEF IsClosure
    <2>2. heap'[o] = OpenUpvalue(local)
      BY <1>4, <1>7, <1>8
    <2>3. \A p \in Object : p # o /\ heap[p].kind # "closure" => heap'[p] = heap[p]
      BY <1>7, <1>8, <2>1
    <2>4. \A p \in Object : p # o => heap'[p].kind = heap[p].kind
      BY <1>7, <1>8
    <2>5. registers' = registers
      BY <1>2
    <2>6. QED  BY <1>0, <1>4, <1>5, <2>2, <2>3, <2>4, <2>5, NewUpvalueMaps
  <1>10p. PICK n \in Nat \ {0}, closure \in Object, base \in Nat \ {0}, live \in Nat,
              locals \in Nat : NewestFacts(n, closure, base, live, locals)
    BY <1>0, <1>3, NewestActivation
  <1>10. /\ n \in Nat \ {0} /\ closure \in Object /\ base \in Nat \ {0} /\ live \in Nat
         /\ n = Len(frames) /\ n \in 1..n /\ Newest = frames[n]
         /\ Newest.closure = closure /\ Newest.base = base /\ Newest.live = live
         /\ Live = 0..(live - 1)
         /\ Boxed!Newest = Act(closure, base, live, Box, registers)
         /\ \A s \in base..(base + live - 1) :
               registers[s] \in Value /\ Box[s] \in Object \cup {0} /\ s \in 0..(Slots - 1)
    BY <1>10p DEF NewestFacts
  <1>11. ASSUME NEW i \in 1..Len(frames), i # Len(frames)
         PROVE  Activations'[i] = Activations[i]
    <2>1. \A s \in 0..(Slots - 1) : s < Newest.base => Box'[s] = Box[s]
      <3>1. local >= base
        BY <1>1, <1>10
      <3>2. \A s \in 0..(Slots - 1) : s < base => s # local
        BY <3>1
      <3>3. QED  BY <1>9, <1>10, <3>2
    <2>2. frames'[i] = frames[i] /\ Len(frames') = Len(frames)
      BY <1>2
    <2>3. QED  BY <1>0, <1>2, <1>3, <1>11, <2>1, <2>2, BelowUnchanged
  <1>12. Activations'[n] = BoxedAt(Boxed!Newest, r, o)
    <2>1. n \in 1..Len(frames') /\ frames'[n] = frames[n]
      BY <1>2, <1>10
    <2>2. Activations'[n] = Act(closure, base, live, Box', registers)
      BY <1>0, <1>2, <1>10, <2>1 DEF Facts, ActivationFacts
    <2>3. PICK box, regs, box2 : box = Box /\ regs = registers /\ box2 = Box'
      OBVIOUS
    <2>4. /\ closure \in Object /\ base \in Nat /\ live \in Nat
          /\ r \in 0..(live - 1) /\ local = base + r /\ o \in Object
      BY <1>1, <1>4, <1>10
    <2>5. \A s \in base..(base + live - 1) :
             regs[s] \in Value /\ box[s] \in Object \cup {0}
      BY <1>10, <2>3
    <2>6. \A s \in base..(base + live - 1) : s # base + r => box2[s] = box[s]
      BY <1>9, <1>10, <2>3, <2>4
    <2>7. box2[base + r] = o
      BY <1>9, <2>3, <2>4
    <2>8. Act(closure, base, live, box2, regs) =
             BoxedAt(Act(closure, base, live, box, regs), r, o)
      BY <2>4, <2>5, <2>6, <2>7, ActBoxed
    <2>9. QED  BY <1>10, <2>2, <2>3, <2>8
  <1>13. PICK act : act = BoxedAt(Boxed!Newest, r, o)
    OBVIOUS
  <1>14. Activations' = Boxed!ReplaceNewest(act)
    <2>1. Len(frames') = Len(frames) /\ Activations'[Len(frames)] = act
      BY <1>2, <1>10, <1>12, <1>13
    <2>2. QED  BY <1>0, <1>3, <1>11, <2>1, NewestReplaced
  <1>15. StackedInv'
    BY <1>2 DEF BoxesInv, StackedInv
  <1>16. Boxed!Capture(building, o)
    <2>1. Boxed!Newest.boxed[r + 1] = 0 /\ Boxed!Newest.vals[r + 1] = registers[local]
      BY <1>1, <1>5
    <2>2. /\ NextCapture.is_local /\ NextCapture.index = r
      BY <1>0, <1>1
    <2>3. /\ Boxes' = [b \in DOMAIN Boxes \cup {o} |->
                          IF b = o THEN Boxed!Newest.vals[r + 1] ELSE Boxes[b]]
      BY <1>9, <2>1
    <2>4. Activations' = Boxed!ReplaceNewest(
             [Boxed!Newest EXCEPT !.vals[r + 1] = Boxed!Nil, !.boxed[r + 1] = o])
      BY <1>13, <1>14 DEF Boxed!Nil, Nil, BoxedAt
    <2>5. QED
      BY <1>2, <1>3, <1>4, <1>8, <2>1, <2>2, <2>3, <2>4 DEF Boxed!Capture
  <1>17. QED  BY <1>3, <1>4, <1>15, <1>16

-----------------------------------------------------------------------------
(* The host's calls.                                                       *)

\* An activation with no register yet.
LEMMA ActEmpty ==
    ASSUME NEW closure, NEW base \in Nat, NEW box, NEW regs
    PROVE  Act(closure, base, 0, box, regs) = Boxed!Activation(closure, <<>>)
  <1>1. [r \in 1..0 |-> IF box[base + r - 1] = 0 THEN regs[base + r - 1] ELSE Nil] = <<>>
    OBVIOUS
  <1>2. [r \in 1..0 |-> box[base + r - 1]] = <<>>
    OBVIOUS
  <1>3. [i \in DOMAIN <<>> |-> 0] = <<>>
    OBVIOUS
  <1>4. Act(closure, base, 0, box, regs) = [closure |-> closure, vals |-> <<>>, boxed |-> <<>>]
    BY <1>1, <1>2 DEF Act
  <1>5. QED  BY <1>3, <1>4 DEF Boxed!Activation

\* The first frame: no variable is open, so no box changes, whatever the
\* registers hold.
LEMMA EntryMaps ==
    ASSUME IInv, Facts, Facts', frames = <<>>, NEW closure \in Object,
           frames' = <<[closure |-> closure, base |-> 1, locals |-> 0, live |-> 0]>>,
           UNCHANGED open_upvalues,
           \A o \in Object : heap[o].kind = "upvalue" => heap'[o] = heap[o],
           \A o \in Object : heap'[o].kind = "upvalue" => heap[o].kind = "upvalue"
    PROVE  /\ Activations = <<>> /\ Activations' = <<Boxed!Activation(closure, <<>>)>>
           /\ Boxes' = Boxes /\ StackedInv'
  <1>1. StackedInv'
    BY StackedFirst
  <1>2. Activations = <<>>
    BY DEF Facts, ActivationFacts
  <1>3. Activations' = <<Boxed!Activation(closure, <<>>)>>
    <2>1. Len(frames') = 1 /\ frames'[1].closure = closure /\ frames'[1].base = 1
          /\ frames'[1].live = 0
      OBVIOUS
    <2>2. /\ Activations' \in Seq(ActivationRecord') /\ Len(Activations') = 1
          /\ Activations'[1] = Act(closure, 1, 0, Box', registers')
      BY <2>1 DEF Facts, ActivationFacts
    <2>3. PICK box, regs : box = Box' /\ regs = registers'
      OBVIOUS
    <2>4. Act(closure, 1, 0, box, regs) = Boxed!Activation(closure, <<>>)
      BY ActEmpty
    <2>5. Activations'[1] = Boxed!Activation(closure, <<>>)
      BY <2>2, <2>3, <2>4
    <2>6. QED  BY <2>2, <2>5
  <1>4. \A o \in Object : heap[o].kind = "upvalue" => heap[o].location = Closed
    BY DEF IInv, OpenUpvaluesOrdered
  <1>5. Boxes' = Boxes
    <2>1. OfKind("upvalue")' = OfKind("upvalue")
      BY DEF OfKind
    <2>2. \A b \in OfKind("upvalue") : Through(b)' = Through(b)
      <3>1. \A b \in OfKind("upvalue") : heap'[b] = heap[b] /\ heap[b].location = Closed
        BY <1>4 DEF OfKind
      <3>2. QED  BY <3>1 DEF Through
    <2>3. QED  BY <2>1, <2>2 DEF Boxes
  <1>6. QED  BY <1>1, <1>2, <1>3, <1>5

\* RegisterEngine::run makes the script's closure and its activation.
LEMMA RunMaps ==
    ASSUME BoxesInv, IInv', NEW o \in Object, Run(o)
    PROVE  Boxed!Run(o) /\ StackedInv'
  <1>0. IInv /\ Facts /\ Facts'
    BY BoxesOfRegisters, ActivationsOfFrames, MapsOfHeap, FactsNext DEF BoxesInv, Facts
  <1>1. /\ frames = <<>> /\ IsFresh(o) /\ heap' = [heap EXCEPT ![o] = NewClosureOf(Script)]
        /\ frames' = <<[closure |-> o, base |-> 1, locals |-> 0, live |-> 0]>>
        /\ UNCHANGED <<open_upvalues, globals>>
    BY DEF Run
  <1>2. /\ Closures' = [c \in DOMAIN Closures \cup {o} |->
                           IF c = o THEN [function |-> Script, upvalues |-> <<>>] ELSE Closures[c]]
        /\ OfKind("data")' = OfKind("data")
        /\ \A p \in Object : heap[p].kind = "upvalue" => heap'[p] = heap[p]
        /\ \A p \in Object : heap'[p].kind = "upvalue" => heap[p].kind = "upvalue"
    BY <1>0, <1>1, NewClosureMaps, ConstantsAssumption
  <1>3. /\ Activations = <<>> /\ Activations' = <<Boxed!Activation(o, <<>>)>>
        /\ Boxes' = Boxes /\ StackedInv'
    BY <1>0, <1>1, <1>2, EntryMaps
  <1>4. o \notin Boxed!Used
    BY <1>0, <1>1, UsedAddresses
  <1>5. QED  BY <1>1, <1>2, <1>3, <1>4 DEF Boxed!Run

\* RegisterEngine::call_global starts an activation of the closure in a global.
LEMMA CallGlobalMaps ==
    ASSUME BoxesInv, IInv', NEW n \in Global, CallGlobal(n)
    PROVE  Boxed!CallGlobal(n) /\ StackedInv'
  <1>0. IInv /\ Facts /\ Facts'
    BY BoxesOfRegisters, ActivationsOfFrames, MapsOfHeap, FactsNext DEF BoxesInv, Facts
  <1>1. /\ frames = <<>> /\ IsClosure(globals[n]) /\ Arity[heap[globals[n]].function] = 0
        /\ frames' = <<FrameOf(globals[n], 1)>>
        /\ UNCHANGED <<open_upvalues, globals, heap>>
    BY DEF CallGlobal
  <1>2. PICK c \in Object : c = globals[n]
    BY <1>1 DEF IsClosure
  <1>3. frames' = <<[closure |-> c, base |-> 1, locals |-> 0, live |-> 0]>>
    BY <1>1, <1>2 DEF FrameOf
  <1>4. /\ Activations = <<>> /\ Activations' = <<Boxed!Activation(c, <<>>)>>
        /\ Boxes' = Boxes /\ StackedInv'
    BY <1>0, <1>1, <1>3, EntryMaps
  <1>5. c \in DOMAIN Closures /\ Closures[c].function = heap[c].function
    BY <1>0, <1>1, <1>2, MappedClosure
  <1>6. Closures' = Closures /\ OfKind("data")' = OfKind("data")
    BY <1>1 DEF Closures, OfKind
  <1>7. QED  BY <1>1, <1>2, <1>4, <1>5, <1>6 DEF Boxed!CallGlobal

-----------------------------------------------------------------------------
(* A collection.                                                           *)

\* What stays of the heap, and why nothing that stays leads to what goes: it
\* holds the roots, and what each member leads to.
LEMMA CollectedHeap ==
    ASSUME IInv, Collect
    PROVE  \E R \in SUBSET Object :
              /\ \A o \in R : heap'[o] = heap[o] /\ References(o) \subseteq R
              /\ \A o \in Object : o \notin R => heap'[o].kind = "free"
              /\ \A s \in MarkedSlots : registers[s] \in R \cup {Nil}
              /\ \A i \in DOMAIN frames : frames[i].closure \in R
              /\ \A o \in Range(open_upvalues) : o \in R
              /\ \A n \in Global : globals[n] \in R \cup {Nil, Undefined}
              /\ UNCHANGED <<registers, frames, open_upvalues, globals>>
  <1> DEFINE R == Reach(Roots)
  <1>1. TypeOK /\ FrameInv /\ OpenUpvaluesOrdered /\ NothingDangles
    BY DEF IInv
  <1>2. /\ heap' = [o \in Object |-> IF o \in R THEN heap[o] ELSE Freed]
        /\ UNCHANGED <<registers, frames, open_upvalues, globals>>
    BY DEF Collect
  <1>3. ASSUME NEW o \in Object
        PROVE  References(o) \subseteq Object
    <2>1. \A p \in References(o) : IsValid(p)
      BY <1>1 DEF NothingDangles
    <2>2. CASE heap[o].kind = "closure"
      <3>1. heap[o].upvalues \in Seq(Object)
        BY <1>1, <2>2, Kinds DEF IsClosure
      <3>2. QED  BY <2>2, <3>1 DEF References, Range
    <2>3. CASE heap[o].kind = "upvalue"
      BY <1>1, <2>3, Kinds DEF References, Value
    <2>4. CASE heap[o].kind \notin {"closure", "upvalue"}
      BY <2>4 DEF References
    <2>5. QED  BY <2>2, <2>3, <2>4
  <1>4. R \subseteq Object /\ Roots \subseteq R /\ \A p \in R : References(p) \subseteq R
    <2>1. Roots \in SUBSET Object
      BY DEF Roots
    <2>2. QED  BY <1>3, <2>1, ReachClosed
  <1>5. \A o \in R : heap'[o] = heap[o]
    BY <1>2, <1>4
  <1>6. \A o \in Object : o \notin R => heap'[o].kind = "free"
    BY <1>2 DEF Freed
  <1> HIDE DEF R
  <1>7. \A s \in MarkedSlots : registers[s] \in R \cup {Nil}
    BY <1>1, <1>4 DEF Roots, NothingDangles, IsValid
  <1>8. \A i \in DOMAIN frames : frames[i].closure \in R
    BY <1>1, <1>4 DEF Roots, NothingDangles, IsClosure
  <1>9. \A o \in Range(open_upvalues) : o \in R
    <2>1. \A o \in Range(open_upvalues) : o \in Object
      BY <1>1, UpvalueSlots
    <2>2. QED  BY <1>4, <2>1 DEF Roots
  <1>10. \A n \in Global : globals[n] \in R \cup {Nil, Undefined}
    <2>1. \A n \in Global :
             globals[n] \in Range(globals) /\ (globals[n] = Undefined \/ IsValid(globals[n]))
      BY <1>1 DEF TypeOK, Range, NothingDangles
    <2>2. QED  BY <1>4, <2>1 DEF Roots, IsValid
  <1>11. QED  BY <1>2, <1>4, <1>5, <1>6, <1>7, <1>8, <1>9, <1>10

\* A collection changes nothing the promise speaks of but the objects it
\* frees, and nothing that stays refers to one of those.
LEMMA CollectMaps ==
    ASSUME BoxesInv, IInv', Collect
    PROVE  (\E dead \in SUBSET Object : Boxed!Free(dead)) /\ StackedInv'
  <1>0. IInv /\ Facts /\ Facts'
    BY BoxesOfRegisters, ActivationsOfFrames, MapsOfHeap, FactsNext DEF BoxesInv, Facts
  <1>1. PICK R \in SUBSET Object :
            /\ \A o \in R : heap'[o] = heap[o] /\ References(o) \subseteq R
            /\ \A o \in Object : o \notin R => heap'[o].kind = "free"
            /\ \A s \in MarkedSlots : registers[s] \in R \cup {Nil}
            /\ \A i \in DOMAIN frames : frames[i].closure \in R
            /\ \A o \in Range(open_upvalues) : o \in R
            /\ \A n \in Global : globals[n] \in R \cup {Nil, Undefined}
            /\ UNCHANGED <<registers, frames, open_upvalues, globals>>
    BY <1>0, CollectedHeap
  <1>2. PICK dead : dead = {o \in Object : heap[o].kind # "free" /\ o \notin R}
    OBVIOUS
  <1>3. /\ TypeOK /\ FrameInv /\ OpenUpvaluesOrdered /\ NothingDangles
    BY <1>0 DEF IInv
  <1>4. StackedInv'
    BY <1>1 DEF BoxesInv, StackedInv
  <1>5. Activations' = Activations
    <2>1. Box' = Box
      BY <1>1, SameBox
    <2>2. Len(frames') = Len(frames) /\ Len(frames) \in Nat
      BY <1>0, <1>1 DEF Facts, ActivationFacts
    <2>3. ASSUME NEW i \in 1..Len(frames)
          PROVE  Activations'[i] = Activations[i]
      BY <1>0, <1>1, <2>1, <2>2, <2>3, SameActivation
    <2>4. QED  BY <1>0, <2>2, <2>3, SameActivations
  <1>6. \A k \in {"closure", "upvalue", "data"} : OfKind(k)' = OfKind(k) \ dead
    BY <1>1, <1>2 DEF OfKind
  <1>7. \A k \in {"closure", "upvalue", "data"} : \A o \in OfKind(k)' : o \in R /\ o \in OfKind(k)
    BY <1>1, <1>6 DEF OfKind
  <1>8. Closures' = Boxed!Restrict(Closures, DOMAIN Closures \ dead)
    <2>1. \A c \in OfKind("closure")' :
             [function |-> heap'[c].function, upvalues |-> heap'[c].upvalues] = Closures[c]
      BY <1>1, <1>7 DEF Closures
    <2>2. DOMAIN Closures = OfKind("closure")
      BY DEF Closures
    <2>3. QED  BY <1>6, <2>1, <2>2 DEF Closures, Boxed!Restrict
  <1>9. Boxes' = Boxed!Restrict(Boxes, DOMAIN Boxes \ dead)
    <2>1. \A b \in OfKind("upvalue")' : Through(b)' = Boxes[b]
      BY <1>1, <1>7 DEF Boxes, Through
    <2>2. DOMAIN Boxes = OfKind("upvalue")
      BY DEF Boxes
    <2>3. QED  BY <1>6, <2>1, <2>2 DEF Boxes, Boxed!Restrict
  <1>10. dead \subseteq Boxed!Used /\ dead \in SUBSET Object
    BY <1>0, <1>2, UsedAddresses
  <1>11. Boxed!Refers' \subseteq R \cup {0, -1}
    <2>1. \A c \in DOMAIN Closures' : Boxed!Range(Closures'[c].upvalues) \subseteq R
      <3>1. /\ DOMAIN Closures' = OfKind("closure")'
            /\ \A c \in OfKind("closure")' : Closures'[c].upvalues = heap'[c].upvalues
        BY <1>0 DEF Facts, HeapFacts
      <3>2. ASSUME NEW c \in OfKind("closure")'
            PROVE  Boxed!Range(Closures'[c].upvalues) \subseteq R
        <4>1. c \in R /\ heap[c].kind = "closure" /\ heap'[c] = heap[c]
          BY <1>1, <1>7 DEF OfKind
        <4>2. References(c) = Boxed!Range(heap[c].upvalues)
          BY <4>1 DEF References, Boxed!Range, Range
        <4>3. Closures'[c].upvalues = heap[c].upvalues
          BY <3>1, <4>1
        <4>4. QED  BY <1>1, <4>1, <4>2, <4>3
      <3>3. QED  BY <3>1, <3>2
    <2>2. \A b \in DOMAIN Boxes' : Boxes'[b] \in R \cup {Nil}
      <3>1. ASSUME NEW b \in OfKind("upvalue"), b \in R
            PROVE  Through(b) \in R \cup {Nil}
        <4>1. CASE heap[b].location = Closed
          BY <1>1, <3>1, <4>1 DEF Through, References, OfKind
        <4>2. CASE heap[b].location # Closed
          <5>1. b \in Range(open_upvalues)
            BY <1>3, <3>1, <4>2 DEF OfKind, OpenUpvaluesOrdered
          <5>2. heap[b].location \in MarkedSlots
            BY <1>3, <5>1, UpvalueSlots
          <5>3. QED  BY <1>1, <4>2, <5>2 DEF Through
        <4>3. QED  BY <4>1, <4>2
      <3>2. \A b \in OfKind("upvalue")' : Through(b)' = Through(b)
        BY <1>1, <1>7 DEF Through
      <3>3. QED  BY <1>7, <3>1, <3>2 DEF Boxes
    <2>3. ASSUME NEW i \in 1..Len(frames)
          PROVE  /\ Activations[i].closure \in R
                 /\ Boxed!Range(Activations[i].vals) \subseteq R \cup {Nil}
                 /\ Boxed!Range(Activations[i].boxed) \subseteq R \cup {0}
      <3>1. PICK closure \in R, base \in Nat, live \in Nat :
                /\ Activations[i] = Act(closure, base, live, Box, registers)
                /\ \A s \in base..(base + live - 1) :
                      s \in MarkedSlots /\ s \in 0..(Slots - 1)
        <4>1. /\ frames[i].base \in Nat /\ frames[i].live \in Nat
              /\ Activations[i] =
                    Act(frames[i].closure, frames[i].base, frames[i].live, Box, registers)
              /\ i \in DOMAIN frames
          BY <1>0 DEF Facts, ActivationFacts
        <4>2. ASSUME NEW s \in frames[i].base..(frames[i].base + frames[i].live - 1)
              PROVE  s \in MarkedSlots /\ s \in 0..(Slots - 1)
          <5>1. /\ frames[i].live <= FrameSize[FunctionOf(frames[i])]
                /\ IsClosure(frames[i].closure)
            BY <1>3, <4>1 DEF TypeOK
          <5>2. FunctionOf(frames[i]) \in Function
            BY <1>3, <5>1, Kinds DEF FunctionOf, IsClosure
          <5>3. FrameSize[FunctionOf(frames[i])] \in Nat
            BY <5>2, ConstantsAssumption
          <5>4. s \in 0..(WindowEnd(frames[i]) - 1)
            BY <4>1, <4>2, <5>1, <5>3 DEF WindowEnd
          <5>5. QED  BY <1>3, <4>1, <5>4, WindowMarked
        <4>3. QED  BY <1>1, <4>1, <4>2
      <3>2. \A s \in base..(base + live - 1) :
               registers[s] \in R \cup {Nil} /\ Box[s] \in R \cup {0}
        BY <1>0, <1>1, <3>1 DEF Facts, BoxFacts
      <3>3. PICK box, regs : box = Box /\ regs = registers
        OBVIOUS
      <3>4. \A q \in 1..live : base + q - 1 \in base..(base + live - 1)
        OBVIOUS
      <3>5. \A q \in 1..live :
               regs[base + q - 1] \in R \cup {Nil} /\ box[base + q - 1] \in R \cup {0}
        BY <3>2, <3>3, <3>4
      <3>6. PICK vals, boxed :
                /\ vals = [q \in 1..live |->
                              IF box[base + q - 1] = 0 THEN regs[base + q - 1] ELSE Nil]
                /\ boxed = [q \in 1..live |-> box[base + q - 1]]
        OBVIOUS
      <3>7. Activations[i] = [closure |-> closure, vals |-> vals, boxed |-> boxed]
        BY <3>1, <3>3, <3>6 DEF Act
      <3>8. \A q \in DOMAIN vals : vals[q] \in R \cup {Nil}
        BY <3>5, <3>6
      <3>9. \A q \in DOMAIN boxed : boxed[q] \in R \cup {0}
        BY <3>5, <3>6
      <3>10. Boxed!Range(vals) \subseteq R \cup {Nil} /\ Boxed!Range(boxed) \subseteq R \cup {0}
        BY <3>8, <3>9 DEF Boxed!Range
      <3>11. QED  BY <3>7, <3>10, <3>1
    <2>4. DOMAIN Activations = 1..Len(frames)
      BY <1>0 DEF Facts, ActivationFacts
    <2>5. \A act \in Boxed!Range(Activations) :
             {act.closure} \cup Boxed!Range(act.vals) \cup Boxed!Range(act.boxed)
                \subseteq R \cup {0}
      BY <2>3, <2>4 DEF Boxed!Range, Nil
    <2>6. \A x \in Boxed!Range(globals) : x \in R \cup {0, -1}
      BY <1>1, <1>3 DEF Boxed!Range, TypeOK, Nil, Undefined
    <2>7. \A x \in Boxed!Range(Boxes') : x \in R \cup {0}
      BY <2>2 DEF Boxed!Range, Nil
    <2>8. PICK G, C, A : G = Boxed!Range(globals) /\ C = Closures' /\ A = Activations
      OBVIOUS
    <2>9. Boxed!Refers' = Boxed!Range(Boxes') \cup G
              \cup (UNION {Boxed!Range(C[c].upvalues) : c \in DOMAIN C})
              \cup (UNION {{act.closure} \cup Boxed!Range(act.vals) \cup Boxed!Range(act.boxed)
                              : act \in Boxed!Range(A)})
      BY <1>1, <1>5, <2>8 DEF Boxed!Refers
    <2>10. QED  BY <2>1, <2>5, <2>6, <2>7, <2>8, <2>9
  <1>12. Boxed!Refers' \cap dead = {}
    <2>1. 0 \notin dead /\ -1 \notin dead
      BY <1>2, ConstantsAssumption
    <2>2. R \cap dead = {}
      BY <1>2
    <2>3. QED  BY <1>11, <2>1, <2>2
  <1>13. Boxed!Free(dead)
    BY <1>1, <1>5, <1>6, <1>8, <1>9, <1>10, <1>12 DEF Boxed!Free
  <1>14. QED  BY <1>4, <1>10, <1>13

-----------------------------------------------------------------------------
(* Every step.                                                             *)

BoxesStep == [Boxed!Next]_(Boxed!vars) /\ StackedInv'

\* What an instruction may do at all, a step of the promise may.
LEMMA StepsAreNext ==
    ASSUME Activations # <<>>, StackedInv'
    PROVE  /\ \A r \in Boxed!RegisterIndex :
                 /\ \A v \in Boxed!Readable : Boxed!Load(r, v) => BoxesStep
                 /\ \A o \in Object \ Boxed!Used : Boxed!NewData(r, o) => BoxesStep
                 /\ \A f \in Nested[Closures[Boxed!Newest.closure].function],
                       o \in Object \ Boxed!Used : Boxed!NewClosure(f, r, o) => BoxesStep
                 /\ Boxed!Drop(r) => BoxesStep
           /\ \A r \in Boxed!Registers(Boxed!Newest) :
                 /\ \A i \in 1..Len(Closures[Boxed!Newest.closure].upvalues) :
                       Boxed!SetUpvalue(i, r) => BoxesStep
                 /\ \A n \in Global : Boxed!SetGlobal(n, r) => BoxesStep
                 /\ Boxed!Call(r) => BoxesStep
           /\ \A c \in DOMAIN Closures, o \in Object : Boxed!Capture(c, o) => BoxesStep
           /\ \A v \in Boxed!Value : Boxed!Return(v) => BoxesStep
           /\ Boxed!Unwind => BoxesStep
  BY DEF BoxesStep, Boxed!Next, Boxed!Step

\* An instruction of the running frame.
LEMMA InstructionMaps ==
    ASSUME BoxesInv, IInv', Running, Instruction
    PROVE  BoxesStep
  <1>1. CASE \E r \in Destination, v \in Readable : Load(r, v)
    BY <1>1, LoadMaps, StepsAreNext
  <1>2. CASE \E r \in Destination, o \in FreeAddresses : NewData(r, o)
    BY <1>2, NewDataMaps, StepsAreNext
  <1>3. CASE \E r \in Live : \E i \in DOMAIN heap[Newest.closure].upvalues : SetUpvalue(i, r)
    BY <1>3, SetUpvalueMaps, StepsAreNext
  <1>4. CASE \E r \in Live, n \in Global : SetGlobal(n, r)
    BY <1>4, SetGlobalMaps, StepsAreNext
  <1>5. CASE \E r \in Live : FreeTemporaries(r)
    BY <1>5, FreeTemporariesMaps, StepsAreNext
  <1>6. CASE \E r \in Live : EndScope(r)
    BY <1>6, EndScopeMaps, StepsAreNext
  <1>7. CASE \E r \in Live : Call(r)
    BY <1>7, CallMaps, StepsAreNext
  <1>8. CASE DeclareLocal
    BY <1>8, DeclareLocalMaps DEF BoxesStep, Boxed!vars
  <1>9. CASE \E f \in Nested[FunctionOf(Newest)], declares \in BOOLEAN, o \in FreeAddresses :
                 Closure(f, declares, o)
    <2>1. PICK f \in Nested[FunctionOf(Newest)], declares \in BOOLEAN, o \in FreeAddresses :
              Closure(f, declares, o)
      BY <1>9
    <2>2. PICK r \in Boxed!RegisterIndex :
              /\ Boxed!NewClosure(f, r, o) /\ o \in Object \ Boxed!Used
              /\ f \in Nested[Closures[Boxed!Newest.closure].function]
              /\ StackedInv' /\ Activations # <<>>
      BY <2>1, ClosureMaps
    <2>3. QED  BY <2>2, StepsAreNext
  <1>10. CASE \E v \in Value : Return(v)
    BY <1>10, ReturnMaps, StepsAreNext
  <1>11. CASE RuntimeError
    BY <1>11, RuntimeErrorMaps, StepsAreNext
  <1>12. QED
    BY <1>1, <1>2, <1>3, <1>4, <1>5, <1>6, <1>7, <1>8, <1>9, <1>10, <1>11 DEF Instruction

\* The next Capture word of a closure.
LEMMA CaptureMaps ==
    ASSUME BoxesInv, IInv', NextUpvalue
    PROVE  BoxesStep
  <1>1. CASE CaptureOuter
    BY <1>1, CaptureOuterMaps, StepsAreNext
  <1>2. CASE CaptureShared
    BY <1>2, CaptureSharedMaps, StepsAreNext
  <1>3. CASE \E o \in FreeAddresses : CaptureNew(o)
    BY <1>3, CaptureNewMaps, StepsAreNext
  <1>4. QED  BY <1>1, <1>2, <1>3 DEF NextUpvalue

\* Nothing happens at all.
LEMMA StutterMaps ==
    ASSUME BoxesInv, UNCHANGED vars
    PROVE  BoxesStep
  <1>1. UNCHANGED <<registers, frames, open_upvalues, globals, heap>>
    BY DEF vars
  <1>2. StackedInv'
    BY <1>1 DEF BoxesInv, StackedInv
  <1>3. \A s : BoxOf(s)' = BoxOf(s)
    BY <1>1 DEF BoxOf, OpenAt
  <1>4. Activations' = Activations
    BY <1>1, <1>3 DEF Activations, ActivationOf
  <1>5. Closures' = Closures /\ Boxes' = Boxes /\ OfKind("data")' = OfKind("data")
    BY <1>1 DEF Closures, Boxes, OfKind, Through
  <1>6. QED  BY <1>1, <1>2, <1>4, <1>5 DEF BoxesStep, Boxed!vars

\* Every step is one of the promise, or changes nothing it speaks of.
LEMMA StepMaps ==
    BoxesInv /\ [Next]_vars => BoxesStep /\ BoxesInv'
  <1> SUFFICES ASSUME BoxesInv, [Next]_vars
               PROVE  BoxesStep /\ BoxesInv'
    OBVIOUS
  <1>1. IInv'
    BY StepHolds DEF BoxesInv
  <1>2. BoxesStep
    <2>1. CASE Running /\ Instruction
      BY <1>1, <2>1, InstructionMaps
    <2>2. CASE building # None /\ NextUpvalue
      BY <1>1, <2>2, CaptureMaps
    <2>3. CASE Collect
      BY <1>1, <2>3, CollectMaps DEF BoxesStep, Boxed!Next
    <2>4. CASE \E o \in Object : Run(o)
      BY <1>1, <2>4, RunMaps DEF BoxesStep, Boxed!Next
    <2>5. CASE \E n \in Global : CallGlobal(n)
      BY <1>1, <2>5, CallGlobalMaps DEF BoxesStep, Boxed!Next
    <2>6. CASE UNCHANGED vars
      BY <2>6, StutterMaps
    <2>7. QED  BY <2>1, <2>2, <2>3, <2>4, <2>5, <2>6 DEF Next
  <1>3. QED  BY <1>1, <1>2 DEF BoxesInv, BoxesStep

\* A machine that has run nothing yet has no variable.
LEMMA InitMaps ==
    Init => Boxed!Init /\ BoxesInv
  <1> SUFFICES ASSUME Init
               PROVE  Boxed!Init /\ BoxesInv
    OBVIOUS
  <1>1. /\ frames = <<>> /\ globals = [n \in Global |-> Undefined]
        /\ \A o \in Object : heap[o].kind = "free"
    BY DEF Init, Freed
  <1>2. \A k \in {"closure", "upvalue", "data"} : OfKind(k) = {}
    BY <1>1 DEF OfKind
  <1>3. Activations = <<>> /\ Closures = <<>> /\ Boxes = <<>>
    BY <1>1, <1>2 DEF Activations, Closures, Boxes
  <1>4. StackedInv
    BY <1>1 DEF StackedInv
  <1>5. QED  BY <1>1, <1>2, <1>3, <1>4, InitHolds
              DEF Boxed!Init, BoxesInv, Undefined, Boxed!Undefined

-----------------------------------------------------------------------------
(* The theorems.                                                           *)

\* The registers in use of two frames never overlap.
THEOREM WindowsApart ==
    Spec => []StackedInv
  <1>1. BoxesInv => StackedInv
    BY DEF BoxesInv
  <1>2. QED  BY <1>1, InitMaps, StepMaps, PTL DEF Spec

\* Overlapping windows of one register array, upvalues that open and close
\* and a collector that runs between any two steps give every program the
\* variables it was promised: what two closures capture they share while its
\* frame lives and after, no frame sees another's registers, and a collection
\* takes nothing the program can still get at.
THEOREM Implements ==
    Spec => ImplementsBoxes
  <1>1. BoxesStep => [Boxed!Next]_(Boxed!vars)
    BY DEF BoxesStep
  <1>2. QED  BY <1>1, InitMaps, StepMaps, PTL DEF Spec, ImplementsBoxes, Boxed!Spec

=============================================================================
