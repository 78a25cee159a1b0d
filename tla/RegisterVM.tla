----------------------------- MODULE RegisterVM -----------------------------
(***************************************************************************)
(* The register virtual machine: src/src/vm_reg.cpp.  One array of         *)
(* registers holds every frame's window; a callee's window starts inside   *)
(* its caller's; a captured variable's upvalue points into the array until *)
(* the variable's scope ends; and the collector runs in the middle of      *)
(* handlers that allocate.                                                 *)
(*                                                                         *)
(* The program is any sequence of instructions the register compiler       *)
(* (src/src/compiler_reg.cpp) could have emitted: each frame carries what  *)
(* the compiler knew at that point, the number of registers in use (live,  *)
(* its free_reg) and how many of them are local variables (locals).        *)
(* Left out: arithmetic and jumps, which move no reference; the functions  *)
(* themselves as heap objects and the elements of arrays, which are one    *)
(* more edge for the collector; natives; and machine code.                 *)
(***************************************************************************)
EXTENDS Integers, Sequences, Functions, FiniteSets

CONSTANTS
    Object,      \* bound: addresses of heap objects, 1..n
    Function, Script, Nested,
    Arity,       \* ObjFunction::arity
    FrameSize,   \* RegChunk::frame_size
    Captures,    \* the Capture words that follow the Closure instruction
    Global,
    Slots,       \* kRegisterSlots
    MaxCallDepth \* kMaxCallDepth

Capture == [is_local : BOOLEAN, index : Nat]

ASSUME ConstantsAssumption ==
    /\ Object \subseteq Nat \ {0}
    /\ Script \in Function
    /\ Nested \in [Function -> SUBSET Function]
    /\ Arity \in [Function -> Nat]
    /\ FrameSize \in [Function -> Nat]
    /\ \A f \in Function : Arity[f] <= FrameSize[f]
    /\ Arity[Script] = 0 /\ Captures[Script] = <<>>
    /\ Captures \in [Function -> Seq(Capture)]
    \* The compiler resolves a capture to a variable of the enclosing function.
    /\ \A f \in Function : \A g \in Nested[f] : \A i \in DOMAIN Captures[g] :
          ~Captures[g][i].is_local => Captures[g][i].index < Len(Captures[f])
    /\ Slots \in Nat /\ Slots > FrameSize[Script]
    /\ MaxCallDepth \in Nat \ {0}

Nil == 0         \* the value nil; every other value is an object
Undefined == -1  \* no such global
Junk == -2       \* what an unused slot holds: never initialised, or stale
Closed == -3     \* location = &closed
None == 0        \* a null pointer

Value == {Nil} \cup Object

VARIABLES
    registers,         \* registers_
    frames,            \* frames_ up to frame_count_
    uncounted_frames,  \* uncounted_frames_
    open_upvalues,     \* open_upvalues_, as the sequence of its members
    globals,           \* globals_
    heap,              \* Heap::objects_
    building           \* the closure whose Capture words are next, or None

vars == <<registers, frames, uncounted_frames, open_upvalues, globals, heap, building>>

-----------------------------------------------------------------------------
(* Heap objects.                                                           *)

Freed == [kind |-> "free"]
Data == [kind |-> "data"]
NewClosureOf(f) == [kind |-> "closure", function |-> f, upvalues |-> <<>>]
OpenUpvalue(local) == [kind |-> "upvalue", location |-> local, closed |-> Nil]

IsClosure(v) == v \in Object /\ heap[v].kind = "closure"

FreeAddresses == {o \in Object : heap[o].kind = "free"}

\* Which address `new` picks makes no difference: the lowest free one.
IsFresh(o) == o \in FreeAddresses /\ \A p \in FreeAddresses : o <= p

\* Heap::trace: an open upvalue's variable is marked as a register.
References(o) ==
    CASE heap[o].kind = "closure" -> Range(heap[o].upvalues)
      [] heap[o].kind = "upvalue" -> {heap[o].closed} \ {Nil}
      [] OTHER -> {}

\* Everything the gray stack reaches from S.
Reach(S) ==
    {o \in Object : \A T \in SUBSET Object :
        (S \subseteq T /\ \A p \in T : References(p) \subseteq T) => o \in T}

-----------------------------------------------------------------------------
(* Frames.                                                                 *)

Newest == frames[Len(frames)]
Running == frames # <<>> /\ building = None

FunctionOf(frame) == heap[frame.closure].function
WindowEnd(frame) == frame.base + FrameSize[FunctionOf(frame)]

\* The value of register r of the newest frame.
Reg(r) == registers[Newest.base + r]

Live == 0..(Newest.live - 1)

\* The newest frame runs top-level code of the script, or may.
AtGlobalScope == FunctionOf(Newest) = Script /\ Newest.locals = 0

ReplaceNewest(frame) == [frames EXCEPT ![Len(frames)] = frame]

\* The run of slots that mark_roots marks: up to the highest window end.
SlotsOf(fs) == {0} \cup UNION {0..(WindowEnd(fs[i]) - 1) : i \in DOMAIN fs}

\* Mutant: the run ends with the newest frame's window.
MarkedSlots_Newest == 0..((IF frames = <<>> THEN 1 ELSE WindowEnd(Newest)) - 1)

MarkedSlots == SlotsOf(frames)

\* RegisterEngine::mark_roots.
Roots ==
    ({registers[s] : s \in MarkedSlots}
        \cup {frames[i].closure : i \in DOMAIN frames}
        \cup Range(open_upvalues)
        \cup Range(globals)) \cap Object

\* Slots past the run hold what returned frames left there; no one may read
\* it, so it is as good as never initialised.
Settled(regs, fs) == [s \in DOMAIN regs |-> IF s \in SlotsOf(fs) THEN regs[s] ELSE Junk]

-----------------------------------------------------------------------------
(* Upvalues.                                                               *)

\* Where an upvalue's variable is now: *up->location.
Through(up) ==
    IF heap[up].location = Closed THEN heap[up].closed ELSE registers[heap[up].location]

\* The members of the list that a walk passes before the first one that is
\* not above a register.
Passed(local) == {i \in DOMAIN open_upvalues :
                     \A j \in 1..i : heap[open_upvalues[j]].location > local}
Above(local) == Cardinality(Passed(local))

\* close_upvalues(last): the list is emptied from its head while it is at or
\* above `last`, and what leaves it takes its value along.
Leaving(last) == {open_upvalues[i] : i \in Passed(last - 1)}

ClosedFrom(last) ==
    [o \in Object |->
        IF o \in Leaving(last)
        THEN [heap[o] EXCEPT !.closed = registers[heap[o].location], !.location = Closed]
        ELSE heap[o]]

StillOpen(last) == SubSeq(open_upvalues, Above(last - 1) + 1, Len(open_upvalues))

\* Mutant: the values stay behind.
CloseUpvalues_NoCopy(last) ==
    /\ heap' = [o \in Object |->
                   IF o \in Leaving(last)
                   THEN [heap[o] EXCEPT !.location = Closed]
                   ELSE heap[o]]
    /\ open_upvalues' = StillOpen(last)

CloseUpvalues(last) ==
    /\ heap' = ClosedFrom(last)
    /\ open_upvalues' = StillOpen(last)

-----------------------------------------------------------------------------

Init ==
    /\ registers = [s \in 0..(Slots - 1) |-> IF s = 0 THEN Nil ELSE Junk]
    /\ frames = <<>>
    /\ uncounted_frames = 0
    /\ open_upvalues = <<>>
    /\ globals = [n \in Global |-> Undefined]
    /\ heap = [o \in Object |-> Freed]
    /\ building = None

\* The collection an allocation may start with (Heap::before_allocate): every
\* state between two actions is one an allocation can come next in.
Collect ==
    /\ heap' = [o \in Object |-> IF o \in Reach(Roots) THEN heap[o] ELSE Freed]
    /\ UNCHANGED <<registers, frames, uncounted_frames, open_upvalues, globals, building>>

-----------------------------------------------------------------------------
(* Instructions of the newest frame.                                       *)

\* Mutant: the compiler forgets to raise the frame size.
Destination_NoHighWater == 0..Newest.live

\* The destination of an instruction: a variable, a temporary in use, or the
\* next temporary, which the compiler has reserved.
Destination == {r \in 0..Newest.live : r < FrameSize[FunctionOf(Newest)]}

Write(r, v) ==
    /\ registers' = [registers EXCEPT ![Newest.base + r] = v]
    /\ frames' = IF r = Newest.live
                 THEN ReplaceNewest([Newest EXCEPT !.live = @ + 1])
                 ELSE frames

\* What MOVE, LOADK, GET_UPVALUE and GET_GLOBAL can put in a register.
Readable ==
    {Nil} \cup {Reg(r) : r \in Live}
          \cup {Through(up) : up \in Range(heap[Newest.closure].upvalues)}
          \cup (Range(globals) \ {Undefined})

Load(r, v) ==
    /\ Running
    /\ r \in Destination
    /\ v \in Readable
    /\ Write(r, v)
    /\ UNCHANGED <<uncounted_frames, open_upvalues, globals, heap, building>>

\* ARRAY, an ADD of strings, or a native that returns a new object.
NewData(r, o) ==
    /\ Running
    /\ r \in Destination
    /\ IsFresh(o)
    /\ heap' = [heap EXCEPT ![o] = Data]
    /\ Write(r, o)
    /\ UNCHANGED <<uncounted_frames, open_upvalues, globals, building>>

\* SET_UPVALUE.
SetUpvalue(i, r) ==
    /\ Running
    /\ i \in DOMAIN heap[Newest.closure].upvalues
    /\ r \in Live
    /\ LET up == heap[Newest.closure].upvalues[i]
       IN IF heap[up].location = Closed
          THEN heap' = [heap EXCEPT ![up].closed = Reg(r)] /\ UNCHANGED registers
          ELSE registers' = [registers EXCEPT ![heap[up].location] = Reg(r)] /\ UNCHANGED heap
    /\ UNCHANGED <<frames, uncounted_frames, open_upvalues, globals, building>>

\* SET_GLOBAL, or DEFINE_GLOBAL at the top level of the script.
SetGlobal(n, r) ==
    /\ Running
    /\ r \in Live
    /\ globals[n] # Undefined \/ AtGlobalScope
    /\ globals' = [globals EXCEPT ![n] = Reg(r)]
    /\ UNCHANGED <<registers, frames, uncounted_frames, open_upvalues, heap, building>>

\* The compiler names the one temporary in use as a variable (add_local).
DeclareLocal ==
    /\ Running
    /\ Newest.live = Newest.locals + 1
    /\ frames' = ReplaceNewest([Newest EXCEPT !.locals = @ + 1])
    /\ UNCHANGED <<registers, uncounted_frames, open_upvalues, globals, heap, building>>

\* The compiler gives temporaries back (set_free_reg).
FreeTemporaries(k) ==
    /\ Running
    /\ k \in Newest.locals..(Newest.live - 1)
    /\ frames' = ReplaceNewest([Newest EXCEPT !.live = k])
    /\ UNCHANGED <<registers, uncounted_frames, open_upvalues, globals, heap, building>>

\* Mutant: no CLOSE at the end of a scope.
EndScope_NoClose(k) ==
    /\ Running
    /\ Newest.live = Newest.locals
    /\ k \in Arity[FunctionOf(Newest)]..(Newest.locals - 1)
    /\ frames' = ReplaceNewest([Newest EXCEPT !.locals = k, !.live = k])
    /\ UNCHANGED <<registers, uncounted_frames, open_upvalues, globals, heap, building>>

\* The end of a scope gives its variables back; CLOSE closes the captured
\* ones first.  (It names the lowest variable of the scope that some closure
\* captures: none below it is open.)  Parameters live as long as the frame.
EndScope(k) ==
    /\ Running
    /\ Newest.live = Newest.locals
    /\ k \in Arity[FunctionOf(Newest)]..(Newest.locals - 1)
    /\ CloseUpvalues(Newest.base + k)
    /\ frames' = ReplaceNewest([Newest EXCEPT !.locals = k, !.live = k])
    /\ UNCHANGED <<registers, uncounted_frames, globals, building>>

\* CLOSURE: the new closure is stored before its captures allocate.  A
\* function declared in a scope is a variable before its body is compiled,
\* so it can be among its own captures.
Closure(f, declares, o) ==
    /\ Running
    /\ f \in Nested[FunctionOf(Newest)]
    /\ declares \/ AtGlobalScope
    /\ Newest.live = Newest.locals
    /\ Newest.live < FrameSize[FunctionOf(Newest)]
    /\ \A i \in DOMAIN Captures[f] :
          Captures[f][i].is_local =>
              Captures[f][i].index < Newest.locals + (IF declares THEN 1 ELSE 0)
    /\ IsFresh(o)
    /\ heap' = [heap EXCEPT ![o] = NewClosureOf(f)]
    /\ registers' = [registers EXCEPT ![Newest.base + Newest.live] = o]
    /\ frames' = ReplaceNewest([Newest EXCEPT !.live = @ + 1,
                                              !.locals = @ + (IF declares THEN 1 ELSE 0)])
    /\ building' = IF Captures[f] = <<>> THEN None ELSE o
    /\ UNCHANGED <<uncounted_frames, open_upvalues, globals>>

\* The next Capture word of the closure being built.
NextCapture == Captures[heap[building].function][Len(heap[building].upvalues) + 1]

\* The closure gets one more upvalue; after the last one it is complete.
AddUpvalue(objects, up) ==
    /\ heap' = [objects EXCEPT ![building].upvalues = Append(@, up)]
    /\ building' =
          IF Len(heap[building].upvalues) + 1 = Len(Captures[heap[building].function])
          THEN None ELSE building

\* A variable further out: the running closure has its upvalue.
CaptureOuter ==
    /\ building # None
    /\ ~NextCapture.is_local
    /\ AddUpvalue(heap, heap[Newest.closure].upvalues[NextCapture.index + 1])
    /\ UNCHANGED <<registers, frames, uncounted_frames, open_upvalues, globals>>

\* capture_upvalue walks down the list. The register's open upvalue, if it has
\* one, is the next ...
Shares(local) ==
    /\ Above(local) < Len(open_upvalues)
    /\ heap[open_upvalues[Above(local) + 1]].location = local

CaptureShared ==
    /\ building # None
    /\ NextCapture.is_local
    /\ LET local == Newest.base + NextCapture.index
       IN /\ Shares(local)
          /\ AddUpvalue(heap, open_upvalues[Above(local) + 1])
    /\ UNCHANGED <<registers, frames, uncounted_frames, open_upvalues, globals>>

\* Mutant: a new upvalue even if the register has an open one.
CaptureNew_Always(o) ==
    /\ building # None
    /\ NextCapture.is_local
    /\ IsFresh(o)
    /\ LET local == Newest.base + NextCapture.index
           above == Above(local)
       IN /\ AddUpvalue([heap EXCEPT ![o] = OpenUpvalue(local)], o)
          /\ open_upvalues' = SubSeq(open_upvalues, 1, above) \o <<o>>
                              \o SubSeq(open_upvalues, above + 1, Len(open_upvalues))
    /\ UNCHANGED <<registers, frames, uncounted_frames, globals>>

\* ... or one is made, and linked where the walk has stopped.
CaptureNew(o) ==
    /\ building # None
    /\ NextCapture.is_local
    /\ ~Shares(Newest.base + NextCapture.index)
    /\ IsFresh(o)
    /\ LET local == Newest.base + NextCapture.index
           above == Above(local)
       IN /\ AddUpvalue([heap EXCEPT ![o] = OpenUpvalue(local)], o)
          /\ open_upvalues' = SubSeq(open_upvalues, 1, above) \o <<o>>
                              \o SubSeq(open_upvalues, above + 1, Len(open_upvalues))
    /\ UNCHANGED <<registers, frames, uncounted_frames, globals>>

-----------------------------------------------------------------------------
(* Calls, returns and errors.                                              *)

\* The registers with the window of a callee of function f at `base`: the
\* arguments stay, the rest becomes nil.
Window(f, base) ==
    [s \in DOMAIN registers |->
        IF s \in (base + Arity[f])..(base + FrameSize[f] - 1) THEN Nil ELSE registers[s]]

FrameOf(closure, base) ==
    [closure |-> closure, base |-> base,
     locals |-> Arity[heap[closure].function], live |-> Arity[heap[closure].function]]

\* Mutant: the limit counts the frame to come.
HasRoom_OffByOne(f, base) ==
    /\ Len(frames) - uncounted_frames <= MaxCallDepth
    /\ FrameSize[f] <= Slots - base

\* call_value: another frame is allowed, and the whole window fits.
HasRoom(f, base) ==
    /\ Len(frames) - uncounted_frames < MaxCallDepth
    /\ FrameSize[f] <= Slots - base

\* CALL: the callee in register r, the arguments above it, in temporaries.
Call(r) ==
    /\ Running
    /\ r \in Newest.locals..(Newest.live - 1)
    /\ LET closure == Reg(r)
           f == heap[closure].function
           base == Newest.base + r + 1
       IN /\ IsClosure(closure)
          /\ Arity[f] = Newest.live - r - 1
          /\ HasRoom(f, base)
          /\ registers' = Window(f, base)
          /\ frames' = Append(ReplaceNewest([Newest EXCEPT !.live = r + 1]),
                              FrameOf(closure, base))
    /\ UNCHANGED <<uncounted_frames, open_upvalues, globals, heap, building>>

\* RETURN and RETURN_NIL: the result is read before anything is closed, and
\* goes to the caller's register that held the callee.  When the entry frame
\* returns, the result goes to the host and slot 0 becomes nil.
Return(v) ==
    /\ Running
    /\ v \in {Nil} \cup {Reg(r) : r \in Live}
    /\ CloseUpvalues(Newest.base)
    /\ frames' = SubSeq(frames, 1, Len(frames) - 1)
    /\ registers' = Settled(IF Len(frames) = 1
                            THEN [registers EXCEPT ![0] = Nil]
                            ELSE [registers EXCEPT ![Newest.base - 1] = v],
                            frames')
    /\ UNCHANGED <<uncounted_frames, globals, building>>

\* An instruction fails (any can, a call also by a wrong callee, arity or
\* depth): take_error closes every upvalue and drops every frame.
RuntimeError ==
    /\ Running
    /\ CloseUpvalues(0)
    /\ frames' = <<>>
    /\ registers' = Settled([registers EXCEPT ![0] = Nil], <<>>)
    /\ UNCHANGED <<uncounted_frames, globals, building>>

\* RegisterEngine::run: the script's closure in slot 0, its window above it;
\* its frame does not count as a call.
Run(o) ==
    /\ frames = <<>>
    /\ IsFresh(o)
    /\ heap' = [heap EXCEPT ![o] = NewClosureOf(Script)]
    /\ registers' = [[s \in DOMAIN registers |->
                         IF s \in 1..FrameSize[Script] THEN Nil ELSE registers[s]]
                     EXCEPT ![0] = o]
    /\ frames' = <<[closure |-> o, base |-> 1, locals |-> 0, live |-> 0]>>
    /\ uncounted_frames' = 1
    /\ UNCHANGED <<open_upvalues, globals, building>>

\* RegisterEngine::call_global, for a global that can be called with no
\* argument: the callee in slot 0, and a frame that counts.  (For another it
\* fails before any frame, and nothing changes.)
CallGlobal(n) ==
    /\ frames = <<>>
    /\ uncounted_frames' = 0
    /\ LET closure == globals[n]
           f == heap[closure].function
       IN /\ IsClosure(closure)
          /\ Arity[f] = 0
          /\ FrameSize[f] <= Slots - 1
          /\ registers' = [Window(f, 1) EXCEPT ![0] = closure]
          /\ frames' = <<FrameOf(closure, 1)>>
    /\ UNCHANGED <<open_upvalues, globals, heap, building>>

-----------------------------------------------------------------------------

Instruction ==
    \/ \E r \in Destination :
          \/ \E v \in Readable : Load(r, v)
          \/ \E o \in FreeAddresses : NewData(r, o)
    \/ \E r \in Live :
          \/ \E i \in DOMAIN heap[Newest.closure].upvalues : SetUpvalue(i, r)
          \/ \E n \in Global : SetGlobal(n, r)
          \/ FreeTemporaries(r) \/ EndScope(r) \/ Call(r)
    \/ DeclareLocal
    \/ \E f \in Nested[FunctionOf(Newest)], declares \in BOOLEAN, o \in FreeAddresses :
          Closure(f, declares, o)
    \/ \E v \in Value : Return(v)
    \/ RuntimeError

NextUpvalue ==
    \/ CaptureOuter \/ CaptureShared
    \/ \E o \in FreeAddresses : CaptureNew(o)

Next ==
    \/ Running /\ Instruction
    \/ building # None /\ NextUpvalue
    \/ Collect
    \/ \E o \in Object : Run(o)
    \/ \E n \in Global : CallGlobal(n)

Spec == Init /\ [][Next]_vars

-----------------------------------------------------------------------------
(* Properties.                                                             *)

Frame == [closure : Object, base : 1..Slots, locals : 0..Slots, live : 0..Slots]

HeapObject ==
    {Freed, Data}
    \cup [kind : {"closure"}, function : Function, upvalues : Seq(Object)]
    \cup [kind : {"upvalue"}, location : 0..(Slots - 1) \cup {Closed}, closed : Value]

\* Every variable has its type; a frame's variables are among its registers
\* in use, and those inside its window.
TypeOK ==
    /\ registers \in [0..(Slots - 1) -> Value \cup {Junk}]
    /\ frames \in Seq(Frame)
    /\ \A i \in DOMAIN frames :
          /\ IsClosure(frames[i].closure)
          /\ frames[i].locals <= frames[i].live
          /\ frames[i].live <= FrameSize[FunctionOf(frames[i])]
    /\ uncounted_frames \in {0, 1}
    /\ open_upvalues \in Seq(Object)
    /\ globals \in [Global -> Value \cup {Undefined}]
    /\ building \in Object \cup {None}
    /\ heap \in [Object -> HeapObject]

IsValid(v) == v = Nil \/ (v \in Object /\ heap[v].kind # "free")

\* The collector reads no slot that was never written or went stale, and
\* frees nothing the program can still reach: every slot it marks, every
\* frame's closure, every open upvalue, every global and everything those
\* lead to is valid, also in the middle of a Closure instruction.
NothingDangles ==
    /\ \A s \in MarkedSlots : IsValid(registers[s])
    /\ \A i \in DOMAIN frames : IsClosure(frames[i].closure)
    /\ \A i \in DOMAIN open_upvalues : heap[open_upvalues[i]].kind = "upvalue"
    /\ \A n \in Global : (globals[n] = Undefined \/ IsValid(globals[n]))
    /\ \A o \in Object : \A p \in References(o) : IsValid(p)
    /\ building # None => IsClosure(building)

\* The list of open upvalues is strictly descending, so capture_upvalue finds
\* a register's upvalue if it has one, and close_upvalues can stop at the
\* first one below; every upvalue that points into the registers is in the
\* list, and points at a variable of a live frame.
OpenUpvaluesOrdered ==
    /\ \A i, j \in DOMAIN open_upvalues :
          i < j => heap[open_upvalues[i]].location > heap[open_upvalues[j]].location
    /\ \A o \in Object :
          heap[o].kind = "upvalue" /\ heap[o].location # Closed => o \in Range(open_upvalues)
    /\ \A o \in Range(open_upvalues) : \E i \in DOMAIN frames :
          heap[o].location \in frames[i].base..(frames[i].base + frames[i].locals - 1)

\* Neither array is overrun: a frame beyond the depth limit, or a window beyond
\* the end of the registers, is a stack overflow error.  A callee's window
\* starts right after the registers its caller has in use.
WithinLimits ==
    /\ Len(frames) <= MaxCallDepth + 1
    /\ \A i \in DOMAIN frames :
          /\ WindowEnd(frames[i]) <= Slots
          /\ i > 1 => frames[i].base = frames[i - 1].base + frames[i - 1].live

-----------------------------------------------------------------------------
(* Refinement: the windows and upvalues implement boxed variables.         *)

\* The open upvalues of a register.
OpenAt(local) == {up \in Range(open_upvalues) : heap[up].location = local}

BoxOf(slot) == IF OpenAt(slot) = {} THEN 0 ELSE CHOOSE up \in OpenAt(slot) : TRUE

ActivationOf(frame) ==
    [closure |-> frame.closure,
     vals |-> [r \in 1..frame.live |->
                  IF BoxOf(frame.base + r - 1) = 0 THEN registers[frame.base + r - 1] ELSE Nil],
     boxed |-> [r \in 1..frame.live |-> BoxOf(frame.base + r - 1)]]

OfKind(k) == {o \in Object : heap[o].kind = k}

Activations == [i \in DOMAIN frames |-> ActivationOf(frames[i])]
Closures == [c \in OfKind("closure") |->
                [function |-> heap[c].function, upvalues |-> heap[c].upvalues]]
Boxes == [b \in OfKind("upvalue") |-> Through(b)]

Boxed == INSTANCE BoxedVariables
    WITH activations <- Activations, closures <- Closures, boxes <- Boxes,
         data <- OfKind("data")

\* Closures over the same variable share it while its frame is live and
\* after, no frame sees another's registers, and a collection changes nothing
\* the program can see.
ImplementsBoxes == Boxed!Spec

=============================================================================
