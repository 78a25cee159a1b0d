-------------------------- MODULE StackMachineProofs --------------------------
(***************************************************************************)
(* Proofs about the machine of StackMachine, for any code that has shapes. *)
(* The machine keeps to the shapes: how high the stack is above each frame *)
(* and which of its slots are captured are what its code says. So it stays *)
(* in its frame, and a pointer to a slot is one to a slot that is there.   *)
(***************************************************************************)
EXTENDS StackMachine, ValueTheorems

-----------------------------------------------------------------------------
(* The invariant.                                                          *)

\* Values on the stack and in the globals.
StackFits(st, arrs, clos) == IsSequence(st) /\ \A i \in DOMAIN st : IsValue(st[i], arrs, clos)
GlobalsFit(globs, arrs, clos) == \A x \in DOMAIN globs : IsValue(globs[x], arrs, clos)

\* An upvalue is open on a slot, or has a value.
UpvalueFits(u, arrs, clos) ==
    /\ u = [location |-> u.location, closed |-> u.closed]
    /\ u.location \in Nat \cup {ClosedUpvalue}
    /\ IsValue(u.closed, arrs, clos)

\* The upvalues, and those in the open list.
UpvaluesFit(ups, open, arrs, clos) ==
    /\ IsSequence(ups) /\ IsSequence(open)
    /\ \A i \in DOMAIN open : open[i] \in DOMAIN ups
    /\ \A x \in DOMAIN ups : UpvalueFits(ups[x], arrs, clos)

\* The open list is by falling slot, and has the upvalues that are open.
ListFits(ups, open) ==
    /\ Falling(ups, open)
    /\ \A i \in DOMAIN open : ups[open[i]].location # ClosedUpvalue
    /\ \A x \in DOMAIN ups : ups[x].location # ClosedUpvalue => \E i \in DOMAIN open : open[i] = x

\* A closure has the upvalues its function names.
ClosureFits(c, ups, fs) ==
    /\ c.function \in DOMAIN fs
    /\ \A i \in DOMAIN fs[c.function].upvalues : /\ i \in DOMAIN c.upvalues
                                                 /\ c.upvalues[i] \in DOMAIN ups

ClosuresFit(clos, ups, fs) ==
    IsSequence(clos) /\ \A c \in DOMAIN clos : ClosureFits(clos[c], ups, fs)

\* What the machine's variables hold.
ValuesInv ==
    /\ StackFits(stack, arrays, closures)
    /\ GlobalsFit(globals, arrays, closures)
    /\ ArraysFit(arrays, closures)
    /\ UpvaluesFit(upvalues, open_upvalues, arrays, closures)
    /\ ListFits(upvalues, open_upvalues)
    /\ ClosuresFit(closures, upvalues, functions)

\* The shape of the word a frame is at, or goes on at.
ShapeOf(f, clos, shapes) == shapes[clos[f.closure].function][f.ip + 1]

\* A frame is at a word that has a shape, and was called when there was room.
FrameFits(f, clos, shapes) ==
    /\ f = [closure |-> f.closure, ip |-> f.ip, base |-> f.base]
    /\ f.closure \in DOMAIN clos
    /\ f.ip \in Nat /\ f.ip + 1 \in DOMAIN shapes[clos[f.closure].function]
    /\ f.base \in Nat /\ f.base + FrameSlots <= call_limit

\* Where the slots of a frame end: at the top of the stack, or for a frame that
\* waits for a call with the slot its result comes to.
Ends(frs, n, k) == IF k = Len(frs) THEN n ELSE frs[k + 1].base + 1

\* The frames, on a stack of n values.
FramesFit(frs, n, clos, shapes) ==
    /\ IsSequence(frs)
    /\ \A k \in DOMAIN frs :
           /\ FrameFits(frs[k], clos, shapes)
           /\ frs[k].base + ShapeOf(frs[k], clos, shapes).height = Ends(frs, n, k)
    /\ frs # <<>> => frs[1].base = 0

\* A slot that a frame's code may have captured, below the frames it called.
Placed(l, frs, clos, shapes) ==
    \E k \in DOMAIN frs : /\ l - frs[k].base \in ShapeOf(frs[k], clos, shapes).captured
                          /\ \A j \in DOMAIN frs : k < j => l < frs[j].base

OpenFits(ups, open, frs, clos, shapes) ==
    \A i \in DOMAIN open : Placed(ups[open[i]].location, frs, clos, shapes)

\* A machine that has ended is empty.
StatusInv ==
    /\ status \in {"running", "finished", "failed"}
    /\ status = "running" <=> frames # <<>>
    /\ status # "running" => stack = <<>>
    /\ uncounted_frames \in {0, 1} /\ Len(frames) <= MaxCallDepth + uncounted_frames
    /\ calls \in Nat

Safe(shapes) ==
    /\ Shaped(functions, shapes)
    /\ ValuesInv
    /\ FramesFit(frames, Len(stack), closures, shapes)
    /\ OpenFits(upvalues, open_upvalues, frames, closures, shapes)
    /\ StatusInv

-----------------------------------------------------------------------------
(* Where the machine is.                                                   *)

\* There is room for one frame at least.
LEMMA Room ==
    /\ call_limit \in Nat /\ StackSlots = call_limit + TempSlack /\ FrameSlots <= call_limit
    /\ TempSlack \in Nat /\ FrameSlots \in Nat /\ MaxCallDepth \in Nat \ {0}
  <1>1. FrameSlots \in Nat \ {0} /\ TempSlack \in Nat /\ MaxCallDepth \in Nat \ {0}
    BY FrameSlotsAssumption, TempSlackAssumption, MaxCallDepthAssumption
  <1>2. PICK n : n = MaxCallDepth * FrameSlots
    OBVIOUS
  <1>3. n \in Nat /\ n >= FrameSlots
    <2>1. \A x \in Nat, y \in Nat : x * y \in Nat
      OBVIOUS
    <2>2. PICK less \in Nat : MaxCallDepth = less + 1
      <3>1. MaxCallDepth - 1 \in Nat /\ MaxCallDepth = MaxCallDepth - 1 + 1
        BY ONLY <1>1
      <3>2. QED  BY <3>1
    <2>3. n = less * FrameSlots + FrameSlots
      <3>1. \A x \in Nat, y \in Nat : (x + 1) * y = x * y + y
        OBVIOUS
      <3>2. QED  BY ONLY <1>1, <1>2, <2>2, <3>1
    <2>4. PICK m \in Nat : m = less * FrameSlots
      BY ONLY <1>1, <2>1
    <2>5. QED  BY ONLY <1>1, <2>3, <2>4
  <1>4. StackSlots = n + TempSlack /\ call_limit = (n + TempSlack) - TempSlack
    <2>1. StackSlots = MaxCallDepth * FrameSlots + TempSlack
      BY ONLY DEF StackSlots
    <2>2. StackSlots = n + TempSlack
      BY ONLY <1>2, <2>1, Zenon
    <2>3. call_limit = StackSlots - TempSlack
      BY ONLY Zenon DEF call_limit
    <2>4. QED  BY ONLY <2>2, <2>3, Zenon
  <1>5. QED  BY ONLY <1>1, <1>3, <1>4

\* The frame that runs, its function and its word.
LEMMA Here ==
    ASSUME NEW shapes, Safe(shapes), status = "running"
    PROVE  /\ IsSequence(frames) /\ frames # <<>> /\ Len(frames) \in DOMAIN frames
           /\ Len(frames) \in Nat \ {0} /\ DOMAIN frames = 1 .. Len(frames)
           /\ frame = frames[Len(frames)] /\ FrameFits(frame, closures, shapes)
           /\ ClosureFits(closure, upvalues, functions)
           /\ closure = closures[frame.closure]
           /\ function = functions[closure.function]
           /\ FunctionFits(function, functions, shapes[closure.function])
           /\ ShapeOf(frame, closures, shapes) = shapes[closure.function][frame.ip + 1]
           /\ insn = function.code[frame.ip + 1]
           /\ WordFits(function, frame.ip + 1, functions, shapes[closure.function])
  <1>1. IsSequence(frames) /\ frames # <<>>
    BY DEF Safe, StatusInv, FramesFit
  <1>2. Len(frames) \in Nat \ {0} /\ DOMAIN frames = 1 .. Len(frames)
    <2>1. PICK frs : frs = frames
      OBVIOUS
    <2>2. Len(frs) \in Nat \ {0} /\ DOMAIN frs = 1 .. Len(frs)
      BY <1>1, <2>1 DEF IsSequence
    <2>3. QED  BY <2>1, <2>2
  <1>3. Len(frames) \in DOMAIN frames
    BY <1>2
  <1>4. frame = frames[Len(frames)] /\ closure = closures[frame.closure]
        /\ function = functions[closure.function] /\ insn = function.code[frame.ip + 1]
    BY Zenon DEF frame, Last, closure, function, insn
  <1>5. FrameFits(frame, closures, shapes)
    BY <1>3, <1>4 DEF Safe, FramesFit
  <1>6. ClosureFits(closure, upvalues, functions)
    BY <1>4, <1>5 DEF Safe, ValuesInv, ClosuresFit, FrameFits
  <1>7. FunctionFits(function, functions, shapes[closure.function])
    BY <1>4, <1>6 DEF Safe, Shaped, ClosureFits
  <1>8. ShapeOf(frame, closures, shapes) = shapes[closure.function][frame.ip + 1]
    BY <1>4 DEF ShapeOf
  <1>9. WordFits(function, frame.ip + 1, functions, shapes[closure.function])
    BY <1>4, <1>5, <1>7 DEF FrameFits, FunctionFits
  <1>10. QED  BY <1>1, <1>2, <1>3, <1>4, <1>5, <1>6, <1>7, <1>8, <1>9

\* How many values a word takes is a number.
LEMMA TakesNumber ==
    ASSUME NEW w, w.operand \in Nat
    PROVE  Takes(w) \in Nat /\ Gives(w) \in {0, 1}
  BY DEF Takes, Gives, Unaries, Arithmetic

\* The values of the frame, and how many of them the word takes.
LEMMA TakenHere ==
    ASSUME NEW shapes, Safe(shapes), status = "running",
           NEW sh, sh = ShapeOf(frame, closures, shapes), NEW n, n = Takes(insn)
    PROVE  /\ n \in Nat /\ sh.height \in Nat /\ Len(stack) \in Nat /\ insn.operand \in Nat
           /\ frame.base \in Nat /\ Len(stack) = frame.base + sh.height
           /\ n <= sh.height /\ n <= Len(stack)
           /\ IsSequence(stack) /\ DOMAIN stack = 1 .. Len(stack)
           /\ \A x \in sh.captured :
                  x \in Nat /\ x < sh.height
                  /\ (insn.op \notin {"CloseUpvalue", "Return"} => x < sh.height - n)
  <1>1. PICK m, h, b : m = Len(stack) /\ h = sh.height /\ b = frame.base
    OBVIOUS
  <1>2. IsSequence(stack) /\ m \in Nat /\ DOMAIN stack = 1 .. m
    BY <1>1, SequenceIsRow DEF Safe, ValuesInv, StackFits
  <1>3. ShapeFits(insn, sh) /\ insn.operand \in Nat
    BY Here DEF WordFits, OperandFits
  <1>4. n \in Nat
    BY <1>3, TakesNumber
  <1>5. h \in Nat /\ n <= h
        /\ sh.captured \subseteq
              0 .. h - 1 - (IF insn.op \in {"CloseUpvalue", "Return"} THEN 0 ELSE n)
    BY <1>1, <1>3 DEF ShapeFits
  <1>6. b \in Nat /\ m = b + h
    <2>1. b \in Nat
      BY <1>1, Here DEF FrameFits
    <2>2. frame.base + sh.height = Ends(frames, Len(stack), Len(frames))
      BY Here DEF Safe, FramesFit
    <2>3. QED  BY <1>1, <2>1, <2>2 DEF Ends
  <1>7. n <= m
    BY ONLY <1>4, <1>5, <1>6
  <1>8. ASSUME NEW x \in sh.captured
        PROVE  x \in Nat /\ x < h /\ (insn.op \notin {"CloseUpvalue", "Return"} => x < h - n)
    <2>1. CASE insn.op \in {"CloseUpvalue", "Return"}
      <3>1. x \in 0 .. h - 1
        BY <1>5, <2>1
      <3>2. QED  BY ONLY <1>5, <2>1, <3>1
    <2>2. CASE insn.op \notin {"CloseUpvalue", "Return"}
      <3>1. x \in 0 .. h - 1 - n
        BY <1>5, <2>2
      <3>2. QED  BY ONLY <1>4, <1>5, <3>1
    <2>3. QED  BY <2>1, <2>2
  <1>9. QED  BY <1>1, <1>2, <1>3, <1>4, <1>5, <1>6, <1>7, <1>8

-----------------------------------------------------------------------------
(* The values of the machine.                                              *)

\* A value on the stack.
LEMMA Peeked ==
    ASSUME NEW arrs, NEW clos, StackFits(stack, arrs, clos), NEW d \in Nat, d < Len(stack)
    PROVE  IsValue(Peek(d), arrs, clos)
  <1>1. PICK m, k : m = Len(stack) /\ k = m - d
    OBVIOUS
  <1>2. m \in Nat /\ DOMAIN stack = 1 .. m
    BY <1>1, SequenceIsRow DEF StackFits
  <1>3. k \in 1 .. m
    BY ONLY <1>1, <1>2, d \in Nat, d < Len(stack)
  <1>4. Peek(d) = stack[k]
    BY ONLY <1>1 DEF Peek
  <1>5. QED  BY <1>2, <1>3, <1>4 DEF StackFits

\* What is left without the upper values.
LEMMA Lowered ==
    ASSUME NEW arrs, NEW clos, StackFits(stack, arrs, clos), NEW n \in 0 .. Len(stack),
           NEW st, st = Lower(n)
    PROVE  /\ StackFits(st, arrs, clos) /\ Len(st) = Len(stack) - n /\ Len(stack) \in Nat
           /\ \A i \in DOMAIN st : i \in DOMAIN stack /\ st[i] = stack[i]
  <1>1. PICK m, k : m = Len(stack) /\ k = m - n
    OBVIOUS
  <1>2. m \in Nat /\ IsSequence(stack)
    BY <1>1, SequenceIsRow DEF StackFits
  <1>3. k \in 0 .. Len(stack)
    BY ONLY <1>1, <1>2, n \in 0 .. Len(stack)
  <1>4. st = SubSeq(stack, 1, k)
    BY ONLY <1>1, st = Lower(n) DEF Lower
  <1>5. /\ IsSequence(st) /\ Len(st) = k /\ DOMAIN st = 1 .. k
        /\ \A i \in 1 .. k : i \in DOMAIN stack /\ st[i] = stack[i]
    BY ONLY <1>2, <1>3, <1>4, FirstOf
  <1>6. QED  BY <1>1, <1>2, <1>5 DEF StackFits

\* A value more.
LEMMA PushedFits ==
    ASSUME NEW arrs, NEW clos, NEW st, StackFits(st, arrs, clos), NEW v, IsValue(v, arrs, clos),
           NEW st2, st2 = Pushed(st, v)
    PROVE  /\ StackFits(st2, arrs, clos) /\ Len(st2) = Len(st) + 1 /\ Len(st) \in Nat
           /\ DOMAIN st = 1 .. Len(st) /\ DOMAIN st2 = 1 .. Len(st) + 1
           /\ st2[Len(st) + 1] = v /\ \A i \in DOMAIN st : st2[i] = st[i]
  <1>1. IsSequence(st) /\ st2 = Pushed(st, v)
    BY DEF StackFits
  <1>2. /\ IsSequence(st2) /\ Len(st2) = Len(st) + 1 /\ Len(st) \in Nat
        /\ DOMAIN st = 1 .. Len(st) /\ DOMAIN st2 = 1 .. Len(st) + 1
        /\ st2[Len(st2)] = v
        /\ \A i \in 1 .. Len(st) : st2[i] = st[i]
    BY ONLY <1>1, Appended
  <1>3. ASSUME NEW i \in 1 .. Len(st) + 1 PROVE IsValue(st2[i], arrs, clos)
    <2>1. CASE i = Len(st) + 1
      BY <1>2, <2>1
    <2>2. CASE i # Len(st) + 1
      <3>1. i \in 1 .. Len(st)
        BY <1>2, <2>2
      <3>2. QED  BY <1>2, <3>1 DEF StackFits
    <2>3. QED  BY <2>1, <2>2
  <1>4. QED  BY <1>2, <1>3 DEF StackFits

\* A value in a slot.
LEMMA SlotFits ==
    ASSUME NEW arrs, NEW clos, NEW st, StackFits(st, arrs, clos), NEW k \in DOMAIN st,
           NEW v, IsValue(v, arrs, clos), NEW st2, st2 = Put(st, k, v)
    PROVE  StackFits(st2, arrs, clos) /\ Len(st2) = Len(st)
  <1>1. IsSequence(st) /\ st2 = Put(st, k, v)
    BY DEF StackFits
  <1>2. /\ IsSequence(st2) /\ Len(st2) = Len(st) /\ DOMAIN st2 = DOMAIN st /\ st2[k] = v
        /\ \A i \in DOMAIN st : i # k => st2[i] = st[i]
    BY ONLY <1>1, k \in DOMAIN st, Exchanged
  <1>3. ASSUME NEW i \in DOMAIN st PROVE IsValue(st2[i], arrs, clos)
    BY <1>2 DEF StackFits
  <1>4. QED  BY <1>2, <1>3 DEF StackFits

\* With more arrays and functions values are still what they were.
LEMMA ValuesGrown ==
    ASSUME NEW arrs, NEW clos, NEW arrs2, NEW clos2,
           DOMAIN arrs \subseteq DOMAIN arrs2, DOMAIN clos \subseteq DOMAIN clos2
    PROVE  /\ \A st : StackFits(st, arrs, clos) => StackFits(st, arrs2, clos2)
           /\ \A globs : GlobalsFit(globs, arrs, clos) => GlobalsFit(globs, arrs2, clos2)
           /\ \A ups, open : UpvaluesFit(ups, open, arrs, clos)
                             => UpvaluesFit(ups, open, arrs2, clos2)
           /\ ArraysFit(arrs, clos) => ArraysFit(arrs, clos2)
  <1>1. \A v : IsValue(v, arrs, clos) => IsValue(v, arrs2, clos2)
    BY StillValue
  <1>2. \A v : IsValue(v, arrs, clos) => IsValue(v, arrs, clos2)
    BY StillValue
  <1>3. \A st : StackFits(st, arrs, clos) => StackFits(st, arrs2, clos2)
    BY <1>1 DEF StackFits
  <1>4. \A globs : GlobalsFit(globs, arrs, clos) => GlobalsFit(globs, arrs2, clos2)
    BY <1>1 DEF GlobalsFit
  <1>5. \A ups, open : UpvaluesFit(ups, open, arrs, clos) => UpvaluesFit(ups, open, arrs2, clos2)
    BY <1>1 DEF UpvaluesFit, UpvalueFits
  <1>6. ArraysFit(arrs, clos) => ArraysFit(arrs, clos2)
    BY <1>2 DEF ArraysFit
  <1>7. QED  BY <1>3, <1>4, <1>5, <1>6

-----------------------------------------------------------------------------
(* From a word to the next.                                                *)

\* The slots that may be captured after the current word.
CapturedNext(shapes) ==
    CapturedAfter(function, frame.ip + 1, functions, ShapeOf(frame, closures, shapes))

\* The frame that runs at another of its words.
WithIp(frs, ip) == [frs EXCEPT ![Len(frs)].ip = ip]

\* The other frames are what they were, the last is at another word.
LEMMA WithIpIs ==
    ASSUME NEW frs, IsSequence(frs), frs # <<>>, NEW top, top = frs[Len(frs)],
           top = [closure |-> top.closure, ip |-> top.ip, base |-> top.base],
           NEW ip, NEW frs2, frs2 = WithIp(frs, ip)
    PROVE  /\ IsSequence(frs2) /\ Len(frs2) = Len(frs) /\ Len(frs) \in Nat \ {0}
           /\ DOMAIN frs = 1 .. Len(frs) /\ DOMAIN frs2 = DOMAIN frs /\ frs2 # <<>>
           /\ \A k \in DOMAIN frs : k # Len(frs) => frs2[k] = frs[k]
           /\ frs2[Len(frs)] = [closure |-> top.closure, ip |-> ip, base |-> top.base]
           /\ \A k \in DOMAIN frs : frs2[k].base = frs[k].base
  <1>1. PICK n : n = Len(frs)
    OBVIOUS
  <1>2. n \in Nat \ {0} /\ DOMAIN frs = 1 .. n /\ n \in DOMAIN frs
    <2>1. n \in Nat /\ DOMAIN frs = 1 .. n
      BY <1>1, SequenceIsRow
    <2>2. n # 0
      BY <1>1 DEF IsSequence
    <2>3. QED  BY <2>1, <2>2
  <1>3. PICK new : new = [closure |-> top.closure, ip |-> ip, base |-> top.base]
    OBVIOUS
  <1>4. [top EXCEPT !.ip = ip] = new
    BY <1>3
  <1>5. frs2 = Put(frs, n, new)
    <2>1. frs2 = [frs EXCEPT ![n] = [@ EXCEPT !.ip = ip]]
      BY <1>1 DEF WithIp
    <2>2. QED  BY <1>1, <1>4, <2>1 DEF Put
  <1>6. /\ IsSequence(frs2) /\ Len(frs2) = Len(frs) /\ DOMAIN frs2 = DOMAIN frs
        /\ frs2[n] = new /\ \A k \in DOMAIN frs : k # n => frs2[k] = frs[k]
    <2>1. n \in DOMAIN frs
      BY <1>2
    <2>2. IsSequence(frs)
      OBVIOUS
    <2>3. /\ IsSequence(Put(frs, n, new)) /\ Len(Put(frs, n, new)) = Len(frs)
          /\ DOMAIN Put(frs, n, new) = DOMAIN frs /\ Put(frs, n, new)[n] = new
          /\ \A k \in DOMAIN frs : k # n => Put(frs, n, new)[k] = frs[k]
      BY ONLY <2>1, <2>2, Exchanged
    <2>4. QED  BY ONLY <1>5, <2>3
  <1>7. frs2 # <<>>
    <2>1. Len(frs2) # 0
      BY <1>1, <1>2, <1>6
    <2>2. QED  BY ONLY <2>1, Empty
  <1>8. \A k \in DOMAIN frs : frs2[k].base = frs[k].base
    BY <1>1, <1>3, <1>6
  <1>9. QED  BY <1>1, <1>2, <1>3, <1>6, <1>7, <1>8

\* A word that follows is one of the function's, and has the shape it is left with.
LEMMA WordAfter ==
    ASSUME NEW shapes, Safe(shapes), status = "running", NEW ip \in Int,
           ip + 1 \in Follows(function, frame.ip + 1, functions),
           NEW sh, sh = shapes[closure.function][ip + 1]
    PROVE  /\ ip \in Nat /\ ip + 1 \in DOMAIN shapes[closure.function]
           /\ sh.height = ShapeOf(frame, closures, shapes).height - Takes(insn) + Gives(insn)
           /\ CapturedNext(shapes) \subseteq sh.captured
  <1>1. PICK j, known : j = ip + 1 /\ known = shapes[closure.function]
    OBVIOUS
  <1>2. /\ j \in DOMAIN known
        /\ known[j].height = HeightAfter(function.code[frame.ip + 1], known[frame.ip + 1].height)
        /\ CapturedAfter(function, frame.ip + 1, functions, known[frame.ip + 1])
              \subseteq known[j].captured
    BY <1>1, Here DEF WordFits
  <1>3. j \in DOMAIN function.code /\ DOMAIN function.code = 1 .. Len(function.code)
    <2>1. j \in DOMAIN function.code
      BY <1>1, <1>2, Here DEF FunctionFits, WordFits
    <2>2. IsSequence(function.code)
      BY Here DEF FunctionFits, IsSequence
    <2>3. QED  BY <2>1, <2>2, SequenceIsRow
  <1>4. ip \in Nat
    <2>1. j \in Int /\ j >= 1
      BY <1>3
    <2>2. QED  BY ONLY <1>1, <2>1, ip \in Int
  <1>5. known[j].height = ShapeOf(frame, closures, shapes).height - Takes(insn) + Gives(insn)
    BY <1>1, <1>2, Here DEF HeightAfter
  <1>6. CapturedNext(shapes) \subseteq known[j].captured
    BY <1>1, <1>2, Here DEF CapturedNext
  <1>7. QED  BY <1>1, <1>2, <1>4, <1>5, <1>6

\* The frames where the running one goes on at a word that follows.
LEMMA MovesOn ==
    ASSUME NEW shapes, Safe(shapes), status = "running", NEW ip \in Int,
           ip + 1 \in Follows(function, frame.ip + 1, functions),
           NEW frs2, frs2 = WithIp(frames, ip),
           NEW clos2, \A c \in DOMAIN closures : c \in DOMAIN clos2 /\ clos2[c] = closures[c],
           NEW m, m = Len(stack) - Takes(insn) + Gives(insn)
    PROVE  /\ FramesFit(frs2, m, clos2, shapes) /\ frs2 # <<>> /\ Len(frs2) = Len(frames)
           /\ \A l : /\ Placed(l, frames, closures, shapes)
                     /\ l - frame.base \in ShapeOf(frame, closures, shapes).captured
                           => l - frame.base \in CapturedNext(shapes)
                     => Placed(l, frs2, clos2, shapes)
           /\ \A l : l - frame.base \in CapturedNext(shapes) => Placed(l, frs2, clos2, shapes)
  <1>1. PICK frs, n : frs = frames /\ n = Len(frames)
    OBVIOUS
  <1>2. /\ IsSequence(frs) /\ frs # <<>> /\ n = Len(frs) /\ n \in Nat \ {0}
        /\ DOMAIN frs = 1 .. n /\ n \in DOMAIN frs /\ frame = frs[n]
        /\ FrameFits(frame, closures, shapes)
    BY <1>1, Here
  <1>3. PICK top : top = frame
    OBVIOUS
  <1>4. /\ IsSequence(frs2) /\ Len(frs2) = n /\ DOMAIN frs2 = DOMAIN frs /\ frs2 # <<>>
        /\ \A k \in DOMAIN frs : k # n => frs2[k] = frs[k]
        /\ frs2[n] = [closure |-> top.closure, ip |-> ip, base |-> top.base]
        /\ \A k \in DOMAIN frs : frs2[k].base = frs[k].base
    <2>1. /\ top = frs[Len(frs)] /\ frs2 = WithIp(frs, ip)
          /\ top = [closure |-> top.closure, ip |-> top.ip, base |-> top.base]
      BY <1>1, <1>2, <1>3 DEF FrameFits
    <2>2. /\ IsSequence(frs2) /\ Len(frs2) = Len(frs) /\ DOMAIN frs2 = DOMAIN frs /\ frs2 # <<>>
          /\ \A k \in DOMAIN frs : k # Len(frs) => frs2[k] = frs[k]
          /\ frs2[Len(frs)] = [closure |-> top.closure, ip |-> ip, base |-> top.base]
          /\ \A k \in DOMAIN frs : frs2[k].base = frs[k].base
      BY ONLY <1>2, <2>1, WithIpIs
    <2>3. QED  BY <1>2, <2>2
  <1>5. PICK sh : sh = shapes[closure.function][ip + 1]
    OBVIOUS
  <1>6. /\ ip \in Nat /\ ip + 1 \in DOMAIN shapes[closure.function]
        /\ sh.height = ShapeOf(frame, closures, shapes).height - Takes(insn) + Gives(insn)
        /\ CapturedNext(shapes) \subseteq sh.captured
    BY <1>5, WordAfter
  <1>7. clos2[top.closure] = closure /\ top.closure \in DOMAIN clos2
    BY <1>2, <1>3, Here DEF FrameFits
  <1>8. /\ frs2[n].closure = top.closure /\ frs2[n].ip = ip /\ frs2[n].base = top.base
        /\ ShapeOf(frs2[n], clos2, shapes) = sh
    BY <1>4, <1>5, <1>7 DEF ShapeOf
  <1>9. ASSUME NEW k \in DOMAIN frs, k # n
        PROVE  /\ frs2[k] = frs[k] /\ FrameFits(frs[k], closures, shapes)
               /\ FrameFits(frs[k], clos2, shapes)
               /\ ShapeOf(frs2[k], clos2, shapes) = ShapeOf(frs[k], closures, shapes)
    <2>1. FrameFits(frs[k], closures, shapes)
      BY <1>1 DEF Safe, FramesFit
    <2>2. clos2[frs[k].closure] = closures[frs[k].closure] /\ frs[k].closure \in DOMAIN clos2
      BY <2>1 DEF FrameFits
    <2>3. QED  BY <1>4, <1>9, <2>1, <2>2 DEF FrameFits, ShapeOf
  <1>10. ASSUME NEW k \in DOMAIN frs PROVE FrameFits(frs2[k], clos2, shapes)
    <2>1. CASE k # n
      BY <1>9, <2>1
    <2>2. CASE k = n
      <3>1. frs2[n] = [closure |-> frs2[n].closure, ip |-> frs2[n].ip, base |-> frs2[n].base]
        BY <1>4, <1>8
      <3>2. top.base \in Nat /\ top.base + FrameSlots <= call_limit
        BY <1>2, <1>3 DEF FrameFits
      <3>3. QED  BY <1>6, <1>7, <1>8, <2>2, <3>1, <3>2 DEF FrameFits
    <2>3. QED  BY <2>1, <2>2
  <1>11. ASSUME NEW k \in DOMAIN frs
         PROVE  frs2[k].base + ShapeOf(frs2[k], clos2, shapes).height = Ends(frs2, m, k)
    <2>1. frs[k].base + ShapeOf(frs[k], closures, shapes).height = Ends(frs, Len(stack), k)
      BY <1>1 DEF Safe, FramesFit
    <2>2. CASE k # n
      <3>1. k + 1 \in DOMAIN frs
        BY <1>2, <2>2
      <3>2. QED  BY <1>2, <1>4, <1>9, <2>1, <2>2, <3>1 DEF Ends
    <2>3. CASE k = n
      <3>1. PICK b, h, t, g : /\ b = top.base /\ h = ShapeOf(frame, closures, shapes).height
                              /\ t = Takes(insn) /\ g = Gives(insn)
        OBVIOUS
      <3>2. b \in Nat /\ h \in Nat /\ t \in Nat /\ Len(stack) = b + h
        BY <1>3, <3>1, TakenHere
      <3>3. g \in {0, 1}
        BY <3>1 DEF Gives
      <3>4. b + (h - t + g) = m
        <4>1. m = b + h - t + g
          BY <3>1, <3>2
        <4>2. QED  BY ONLY <3>2, <3>3, <4>1
      <3>5. frs2[n].base = b /\ ShapeOf(frs2[n], clos2, shapes).height = h - t + g
        BY <1>6, <1>8, <3>1
      <3>6. QED  BY <1>4, <2>3, <3>4, <3>5 DEF Ends
    <2>4. QED  BY <2>2, <2>3
  <1>12. FramesFit(frs2, m, clos2, shapes)
    <2>1. 1 \in DOMAIN frs /\ frs[1].base = 0
      <3>1. 1 \in DOMAIN frs
        BY <1>2
      <3>2. QED  BY <1>1, <1>2, <3>1 DEF Safe, FramesFit
    <2>2. frs2[1].base = 0
      BY <1>4, <2>1
    <2>3. QED  BY <1>4, <1>10, <1>11, <2>2 DEF FramesFit
  <1>13. ASSUME NEW l, l - frame.base \in CapturedNext(shapes)
         PROVE  Placed(l, frs2, clos2, shapes)
    <2>1. l - frs2[n].base \in ShapeOf(frs2[n], clos2, shapes).captured
      BY <1>3, <1>6, <1>8, <1>13
    <2>2. \A j \in DOMAIN frs2 : ~(n < j)
      BY <1>2, <1>4
    <2>3. QED  BY <1>2, <1>4, <2>1, <2>2 DEF Placed
  <1>14. ASSUME NEW l, Placed(l, frames, closures, shapes),
                l - frame.base \in ShapeOf(frame, closures, shapes).captured
                   => l - frame.base \in CapturedNext(shapes)
         PROVE  Placed(l, frs2, clos2, shapes)
    <2>1. PICK k \in DOMAIN frs : /\ l - frs[k].base \in ShapeOf(frs[k], closures, shapes).captured
                                  /\ \A j \in DOMAIN frs : k < j => l < frs[j].base
      BY <1>1, <1>14 DEF Placed
    <2>2. CASE k = n
      BY <1>2, <1>13, <1>14, <2>1, <2>2
    <2>3. CASE k # n
      <3>1. l - frs2[k].base \in ShapeOf(frs2[k], clos2, shapes).captured
        BY <1>9, <2>1, <2>3
      <3>2. \A j \in DOMAIN frs2 : k < j => l < frs2[j].base
        BY <1>4, <2>1
      <3>3. QED  BY <1>4, <3>1, <3>2 DEF Placed
    <2>4. QED  BY <2>2, <2>3
  <1>15. QED  BY <1>1, <1>4, <1>12, <1>13, <1>14

\* To go on is to put another word into the frame that runs.
LEMMA Continued ==
    ASSUME NEW words, Continue(words) PROVE frames' = WithIp(frames, frame.ip + words)
  BY DEF Continue, WithIp, frame, Last

\* A step inside a function, where the values fit and the slots that are still
\* captured are those the code says.
LEMMA MoveSafe ==
    ASSUME NEW shapes, Safe(shapes), status = "running", NEW ip \in Int,
           ip + 1 \in Follows(function, frame.ip + 1, functions),
           frames' = WithIp(frames, ip), functions' = functions, UNCHANGED run_vars,
           \A c \in DOMAIN closures : c \in DOMAIN closures' /\ closures'[c] = closures[c],
           ValuesInv', Len(stack') = Len(stack) - Takes(insn) + Gives(insn),
           \A i \in DOMAIN open_upvalues' :
               \/ upvalues'[open_upvalues'[i]].location - frame.base \in CapturedNext(shapes)
               \/ /\ Placed(upvalues'[open_upvalues'[i]].location, frames, closures, shapes)
                  /\ upvalues'[open_upvalues'[i]].location - frame.base
                         \in ShapeOf(frame, closures, shapes).captured
                     => upvalues'[open_upvalues'[i]].location - frame.base
                            \in CapturedNext(shapes)
    PROVE  Safe(shapes)' /\ functions' = functions
  <1>1. PICK frs2, clos2, m : frs2 = frames' /\ clos2 = closures' /\ m = Len(stack')
    OBVIOUS
  <1>2. /\ frs2 = WithIp(frames, ip)
        /\ \A c \in DOMAIN closures : c \in DOMAIN clos2 /\ clos2[c] = closures[c]
        /\ m = Len(stack) - Takes(insn) + Gives(insn)
    BY <1>1
  <1>3. /\ FramesFit(frs2, m, clos2, shapes) /\ frs2 # <<>> /\ Len(frs2) = Len(frames)
        /\ \A l : /\ Placed(l, frames, closures, shapes)
                  /\ l - frame.base \in ShapeOf(frame, closures, shapes).captured
                        => l - frame.base \in CapturedNext(shapes)
                  => Placed(l, frs2, clos2, shapes)
        /\ \A l : l - frame.base \in CapturedNext(shapes) => Placed(l, frs2, clos2, shapes)
    BY <1>2, MovesOn
  <1>4. OpenFits(upvalues', open_upvalues', frs2, clos2, shapes)
    BY <1>3 DEF OpenFits
  <1>5. /\ status' = status /\ uncounted_frames' = uncounted_frames /\ calls' = calls
    BY DEF run_vars
  <1>6. StatusInv'
    BY <1>1, <1>3, <1>5, Here DEF StatusInv, Safe
  <1>7. Shaped(functions', shapes)
    BY DEF Safe
  <1>8. QED  BY <1>1, <1>3, <1>4, <1>6, <1>7 DEF Safe

\* A step that leaves the upvalues and the closures alone.
LEMMA PlainSafe ==
    ASSUME NEW shapes, Safe(shapes), status = "running",
           insn.op \notin {"CloseUpvalue", "Closure"}, NEW words \in Int, Continue(words),
           frame.ip + words + 1 \in Follows(function, frame.ip + 1, functions),
           UNCHANGED <<object_vars, upvalue_vars, run_vars>>,
           StackFits(stack', arrays', closures), GlobalsFit(globals', arrays', closures),
           ArraysFit(arrays', closures), DOMAIN arrays \subseteq DOMAIN arrays',
           Len(stack') = Len(stack) - Takes(insn) + Gives(insn)
    PROVE  Safe(shapes)' /\ functions' = functions
  <1>1. /\ functions' = functions /\ closures' = closures
        /\ upvalues' = upvalues /\ open_upvalues' = open_upvalues /\ UNCHANGED run_vars
    BY DEF object_vars, upvalue_vars
  <1>2. ValuesInv'
    <2>1. UpvaluesFit(upvalues, open_upvalues, arrays', closures)
      <3>1. PICK arrs2 : arrs2 = arrays'
        OBVIOUS
      <3>2. UpvaluesFit(upvalues, open_upvalues, arrs2, closures)
        BY <3>1, ValuesGrown DEF Safe, ValuesInv
      <3>3. QED  BY <3>1, <3>2
    <2>2. ListFits(upvalues, open_upvalues) /\ ClosuresFit(closures, upvalues, functions)
      BY DEF Safe, ValuesInv
    <2>3. QED  BY <1>1, <2>1, <2>2 DEF ValuesInv
  <1>3. CapturedNext(shapes) = ShapeOf(frame, closures, shapes).captured
    <2>1. function.code[frame.ip + 1] = insn
      BY Here
    <2>2. QED  BY <2>1 DEF CapturedNext, CapturedAfter
  <1>4. ASSUME NEW i \in DOMAIN open_upvalues'
        PROVE  /\ Placed(upvalues'[open_upvalues'[i]].location, frames, closures, shapes)
               /\ upvalues'[open_upvalues'[i]].location - frame.base
                      \in ShapeOf(frame, closures, shapes).captured
                  => upvalues'[open_upvalues'[i]].location - frame.base \in CapturedNext(shapes)
    BY <1>1, <1>3 DEF Safe, OpenFits
  <1>5. PICK ip : ip = frame.ip + words
    OBVIOUS
  <1>6. ip \in Int /\ ip + 1 \in Follows(function, frame.ip + 1, functions)
        /\ frames' = WithIp(frames, ip)
    BY <1>5, Here, Continued DEF FrameFits
  <1>7. \A c \in DOMAIN closures : c \in DOMAIN closures' /\ closures'[c] = closures[c]
    BY <1>1
  <1>8. QED  BY <1>1, <1>2, <1>4, <1>6, <1>7, MoveSafe

\* The words that go on with the next one.
Jumping == {"Return", "Jump", "Loop", "JumpIfFalse", "Closure"}

LEMMA NextFollows ==
    ASSUME NEW shapes, Safe(shapes), status = "running", insn.op \notin Jumping
    PROVE  frame.ip + 1 + 1 \in Follows(function, frame.ip + 1, functions)
  <1>1. function.code[frame.ip + 1] = insn
    BY Here
  <1>2. QED  BY <1>1 DEF Follows, Jumping

\* A step to the next word that leaves values on the stack.
LEMMA LeaveSafe ==
    ASSUME NEW shapes, Safe(shapes), status = "running",
           insn.op \notin Jumping \cup {"CloseUpvalue"}, NEW st, Leaves_(st),
           StackFits(st, arrays', closures), GlobalsFit(globals', arrays', closures),
           ArraysFit(arrays', closures), DOMAIN arrays \subseteq DOMAIN arrays',
           Len(st) = Len(stack) - Takes(insn) + Gives(insn)
    PROVE  Safe(shapes)' /\ functions' = functions
  <1>1. /\ stack' = st /\ Continue(1) /\ UNCHANGED <<object_vars, upvalue_vars, run_vars>>
    BY DEF Leaves_
  <1>2. insn.op \notin {"CloseUpvalue", "Closure"} /\ insn.op \notin Jumping
    BY DEF Jumping
  <1>3. frame.ip + 1 + 1 \in Follows(function, frame.ip + 1, functions)
    BY <1>2, NextFollows
  <1>4. QED  BY <1>1, <1>2, <1>3, PlainSafe

\* And changes nothing else.
LEMMA OnlySafe ==
    ASSUME NEW shapes, Safe(shapes), status = "running",
           insn.op \notin Jumping \cup {"CloseUpvalue"}, NEW st, Only(st),
           StackFits(st, arrays, closures), Len(st) = Len(stack) - Takes(insn) + Gives(insn)
    PROVE  Safe(shapes)' /\ functions' = functions
  <1>1. Leaves_(st) /\ globals' = globals /\ arrays' = arrays
    BY DEF Only
  <1>2. GlobalsFit(globals, arrays, closures) /\ ArraysFit(arrays, closures)
    BY DEF Safe, ValuesInv
  <1>3. QED  BY <1>1, <1>2, LeaveSafe

-----------------------------------------------------------------------------
(* Closing.                                                                *)

\* Every open upvalue is on a slot of the stack.
LEMMA OpenOnStack ==
    ASSUME NEW shapes, Safe(shapes), NEW i \in DOMAIN open_upvalues,
           NEW l, l = upvalues[open_upvalues[i]].location
    PROVE  status = "running" /\ l \in Nat /\ l < Len(stack) /\ l + 1 \in DOMAIN stack
  <1>1. l \in Nat
    BY DEF Safe, ValuesInv, UpvaluesFit, UpvalueFits, ListFits
  <1>2. PICK k \in DOMAIN frames : /\ l - frames[k].base \in ShapeOf(frames[k], closures, shapes).captured
                                   /\ \A j \in DOMAIN frames : k < j => l < frames[j].base
    BY DEF Safe, OpenFits, Placed
  <1>3. status = "running"
    <2>1. frames # <<>>
      BY <1>2, Empty
    <2>2. QED  BY <2>1 DEF Safe, StatusInv
  <1>4. PICK n, b, h, m : /\ n = Len(frames) /\ b = frame.base /\ m = Len(stack)
                          /\ h = ShapeOf(frame, closures, shapes).height
    OBVIOUS
  <1>5. n \in DOMAIN frames /\ DOMAIN frames = 1 .. n /\ frames[n] = frame /\ n \in Nat
    BY <1>3, <1>4, Here
  <1>6. /\ b \in Nat /\ h \in Nat /\ m = b + h /\ DOMAIN stack = 1 .. m /\ m \in Nat
        /\ \A x \in ShapeOf(frame, closures, shapes).captured : x \in Nat /\ x < h
    BY <1>3, <1>4, TakenHere
  <1>7. l < m
    <2>1. CASE k = n
      <3>1. PICK x : x = l - b
        OBVIOUS
      <3>2. x \in Nat /\ x < h
        BY <1>2, <1>4, <1>5, <1>6, <2>1, <3>1
      <3>3. QED  BY ONLY <1>1, <1>6, <3>1, <3>2
    <2>2. CASE k # n
      <3>1. k < n
        BY <1>5, <2>2
      <3>2. l < b
        BY <1>2, <1>4, <1>5, <3>1
      <3>3. QED  BY ONLY <1>1, <1>6, <3>2
    <2>3. QED  BY <2>1, <2>2
  <1>8. l + 1 \in DOMAIN stack
    BY <1>1, <1>6, <1>7
  <1>9. QED  BY <1>1, <1>3, <1>4, <1>7, <1>8

\* The upvalues at a slot or above it get their values; those left are below it.
LEMMA Closes ==
    ASSUME NEW shapes, Safe(shapes), NEW low \in Int, close_upvalues(low)
    PROVE  /\ UpvaluesFit(upvalues', open_upvalues', arrays, closures)
           /\ ListFits(upvalues', open_upvalues') /\ DOMAIN upvalues' = DOMAIN upvalues
           /\ ClosuresFit(closures, upvalues', functions)
           /\ \A i \in DOMAIN open_upvalues' :
                  /\ upvalues'[open_upvalues'[i]].location < low
                  /\ \E j \in DOMAIN open_upvalues :
                         upvalues'[open_upvalues'[i]].location
                             = upvalues[open_upvalues[j]].location
  <1>1. PICK ups, open, ups2, open2 : /\ ups = upvalues /\ open = open_upvalues
                                      /\ ups2 = upvalues' /\ open2 = open_upvalues'
    OBVIOUS
  <1>2. PICK C : C = Closing(low)
    OBVIOUS
  <1>3. /\ ups2 = [x \in DOMAIN ups |-> IF x \in C THEN Close(x) ELSE ups[x]]
        /\ open2 = SubSeq(open, Walked(open, ups, low) + 1, Len(open))
    BY <1>1, <1>2 DEF close_upvalues
  <1>4. C = {open[i] : i \in Leading(open, ups, low)}
    BY <1>1, <1>2 DEF Closing
  <1>5. /\ IsSequence(ups) /\ IsSequence(open) /\ Falling(ups, open)
        /\ \A i \in DOMAIN open : open[i] \in DOMAIN ups
        /\ \A x \in DOMAIN ups : UpvalueFits(ups[x], arrays, closures)
        /\ \A i \in DOMAIN open : ups[open[i]].location # ClosedUpvalue
        /\ \A x \in DOMAIN ups : ups[x].location # ClosedUpvalue
                                   => \E i \in DOMAIN open : open[i] = x
    BY <1>1 DEF Safe, ValuesInv, UpvaluesFit, ListFits
  <1>6. /\ IsSequence(open2) /\ Falling(ups, open2) /\ OpenBelow(ups, open2, low)
        /\ \A i \in Leading(open, ups, low) : i \in DOMAIN open /\ ups[open[i]].location >= low
        /\ \A j \in DOMAIN open2 : \E i \in DOMAIN open : open2[j] = open[i]
        /\ \A i \in DOMAIN open : \/ i \in Leading(open, ups, low)
                                  \/ \E j \in DOMAIN open2 : open2[j] = open[i]
    <2>1. /\ IsSequence(open) /\ Falling(ups, open)
          /\ open2 = LeftBelow(open, ups, low)
      BY <1>3, <1>5 DEF LeftBelow
    <2>2. QED  BY ONLY <2>1, low \in Int, ListCut
  <1>7. \A x \in C : \E i \in DOMAIN open : x = open[i] /\ ups[x].location >= low
    BY <1>4, <1>6
  <1>8. ASSUME NEW j \in DOMAIN open2
        PROVE  /\ open2[j] \in DOMAIN ups /\ open2[j] \notin C
               /\ ups2[open2[j]] = ups[open2[j]] /\ ups[open2[j]].location < low
               /\ \E i \in DOMAIN open : open2[j] = open[i]
    <2>1. PICK i \in DOMAIN open : open2[j] = open[i]
      BY <1>6
    <2>2. ups[open2[j]].location < low
      BY <1>6 DEF OpenBelow
    <2>3. open2[j] \in DOMAIN ups
      BY <1>5, <2>1
    <2>4. ups[open2[j]].location \in Nat
      BY <1>5, <2>1 DEF UpvalueFits
    <2>5. open2[j] \notin C
      <3>1. PICK p : p = ups[open2[j]].location
        OBVIOUS
      <3>2. p < low /\ p \in Nat /\ (open2[j] \in C => p >= low)
        BY <1>7, <2>2, <2>4, <3>1
      <3>3. QED  BY ONLY <3>2, low \in Int
    <2>6. QED  BY <1>3, <2>1, <2>2, <2>3, <2>5
  <1>9. Falling(ups2, open2)
    <2>1. \A j \in DOMAIN open2 : ups2[open2[j]].location = ups[open2[j]].location
      BY <1>8
    <2>2. QED  BY ONLY <1>6, <2>1, FallingStill
  <1>10. ASSUME NEW x \in C PROVE IsValue(stack[ups[x].location + 1], arrays, closures)
    <2>1. PICK i \in DOMAIN open : x = open[i]
      BY <1>7
    <2>2. ups[x].location + 1 \in DOMAIN stack
      BY <1>1, <2>1, OpenOnStack
    <2>3. QED  BY <2>2 DEF Safe, ValuesInv, StackFits
  <1>11. \A x \in C : Close(x) = [location |-> ClosedUpvalue, closed |-> stack[ups[x].location + 1]]
    BY <1>1 DEF Close, location
  <1>12. DOMAIN ups2 = DOMAIN ups /\ IsSequence(ups2)
    <2>1. DOMAIN ups2 = DOMAIN ups
      BY <1>3
    <2>2. PICK n : n = Len(ups) /\ n \in Nat /\ DOMAIN ups = 1 .. n
      BY <1>5, SequenceIsRow
    <2>3. ups2 = [i \in 1 .. n |-> ups2[i]]
      BY <1>3, <2>2
    <2>4. IsSequence(ups2)
      BY ONLY <2>2, <2>3, RowIsSequence
    <2>5. QED  BY <2>1, <2>4
  <1>13. ASSUME NEW x \in DOMAIN ups2 PROVE UpvalueFits(ups2[x], arrays, closures)
    <2>1. CASE x \in C
      <3>1. PICK v : v = stack[ups[x].location + 1]
        OBVIOUS
      <3>2. ups2[x] = [location |-> ClosedUpvalue, closed |-> v] /\ IsValue(v, arrays, closures)
        BY <1>3, <1>10, <1>11, <1>12, <2>1, <3>1
      <3>3. QED  BY ONLY <3>2 DEF UpvalueFits
    <2>2. CASE x \notin C
      BY <1>3, <1>5, <1>12, <2>2
    <2>3. QED  BY <2>1, <2>2
  <1>14. UpvaluesFit(ups2, open2, arrays, closures)
    BY <1>6, <1>8, <1>12, <1>13 DEF UpvaluesFit
  <1>15. ListFits(ups2, open2)
    <2>1. \A j \in DOMAIN open2 : ups2[open2[j]].location # ClosedUpvalue
      BY <1>5, <1>8
    <2>2. ASSUME NEW x \in DOMAIN ups2, ups2[x].location # ClosedUpvalue
          PROVE  \E j \in DOMAIN open2 : open2[j] = x
      <3>1. x \notin C
        BY <1>3, <1>11, <1>12, <2>2
      <3>2. ups2[x] = ups[x] /\ x \in DOMAIN ups
        BY <1>3, <1>12, <3>1
      <3>3. PICK i \in DOMAIN open : open[i] = x
        BY <1>5, <2>2, <3>2
      <3>4. i \notin Leading(open, ups, low)
        BY <1>4, <3>1, <3>3
      <3>5. QED  BY <1>6, <3>3, <3>4
    <2>3. QED  BY <1>9, <2>1, <2>2 DEF ListFits
  <1>16. ClosuresFit(closures, ups2, functions)
    BY <1>1, <1>12 DEF Safe, ValuesInv, ClosuresFit, ClosureFits
  <1>17. \A j \in DOMAIN open2 : /\ ups2[open2[j]].location < low
                                 /\ \E i \in DOMAIN open : ups2[open2[j]].location
                                                               = ups[open[i]].location
    BY <1>8
  <1>18. QED  BY <1>1, <1>12, <1>14, <1>15, <1>16, <1>17

\* Closing all that are open leaves none.
LEMMA ClosesAll ==
    ASSUME NEW shapes, Safe(shapes), close_upvalues(0)
    PROVE  DOMAIN open_upvalues' = {}
  <1> SUFFICES ASSUME NEW i \in DOMAIN open_upvalues' PROVE FALSE
    OBVIOUS
  <1>1. PICK l : l = upvalues'[open_upvalues'[i]].location
    OBVIOUS
  <1>2. l < 0 /\ \E j \in DOMAIN open_upvalues : l = upvalues[open_upvalues[j]].location
    BY <1>1, Closes
  <1>3. l \in Nat
    BY <1>2, OpenOnStack
  <1>4. QED  BY ONLY <1>2, <1>3

\* An empty machine that has ended.
LEMMA EndedSafe ==
    ASSUME NEW shapes, Safe(shapes), close_upvalues(0), functions' = functions,
           closures' = closures, globals' = globals, arrays' = arrays, stack' = <<>>,
           frames' = <<>>, status' \in {"finished", "failed"},
           uncounted_frames' = uncounted_frames, calls' = calls
    PROVE  Safe(shapes)' /\ functions' = functions
  <1>1. /\ UpvaluesFit(upvalues', open_upvalues', arrays, closures)
        /\ ListFits(upvalues', open_upvalues')
        /\ ClosuresFit(closures, upvalues', functions)
    BY Closes
  <1>2. StackFits(<<>>, arrays, closures)
    BY Empty DEF StackFits
  <1>3. ValuesInv'
    BY <1>1, <1>2 DEF Safe, ValuesInv
  <1>4. OpenFits(upvalues', open_upvalues', frames', closures', shapes)
    BY ClosesAll DEF OpenFits
  <1>5. FramesFit(<<>>, Len(stack'), closures', shapes)
    BY Empty DEF FramesFit
  <1>6. StatusInv'
    <2>1. Len(<<>>) = 0 /\ MaxCallDepth \in Nat /\ uncounted_frames \in {0, 1} /\ calls \in Nat
      BY Empty, Room DEF Safe, StatusInv
    <2>2. Len(frames') <= MaxCallDepth + uncounted_frames
      BY <2>1
    <2>3. QED  BY <2>1, <2>2 DEF StatusInv
  <1>7. QED  BY <1>3, <1>4, <1>5, <1>6 DEF Safe

\* An error ends the run.
LEMMA FailSafe ==
    ASSUME NEW shapes, Safe(shapes), NEW message, FAIL(message)
    PROVE  Safe(shapes)' /\ functions' = functions
  BY EndedSafe DEF FAIL, object_vars

-----------------------------------------------------------------------------
(* Constants and variables.                                                *)

\* The values that are there.
LEMMA ValuesHere ==
    ASSUME NEW shapes, Safe(shapes)
    PROVE  /\ StackFits(stack, arrays, closures) /\ GlobalsFit(globals, arrays, closures)
           /\ ArraysFit(arrays, closures)
           /\ Len(stack) \in Nat /\ DOMAIN stack = 1 .. Len(stack)
  <1>1. /\ StackFits(stack, arrays, closures) /\ GlobalsFit(globals, arrays, closures)
        /\ ArraysFit(arrays, closures)
    BY DEF Safe, ValuesInv
  <1>2. QED  BY <1>1, SequenceIsRow DEF StackFits

\* What the operand of the current word names.
LEMMA OperandHere ==
    ASSUME NEW shapes, Safe(shapes), status = "running"
    PROVE  /\ insn.operand \in Nat
           /\ insn.op = "Const" => IsScalar(constant)
           /\ insn.op \in {"GetLocal", "SetLocal"} => Local_ \in DOMAIN stack
           /\ insn.op \in {"GetUpvalue", "SetUpvalue"} => upvalue \in DOMAIN upvalues
  <1>1. OperandFits(function, frame.ip + 1, functions, ShapeOf(frame, closures, shapes))
        /\ function.code[frame.ip + 1] = insn
    BY Here DEF WordFits
  <1>2. insn.operand \in Nat
    BY <1>1 DEF OperandFits
  <1>3. insn.op = "Const" => IsScalar(constant)
    BY <1>1 DEF OperandFits, HasScalar, constant
  <1>4. ASSUME insn.op \in {"GetLocal", "SetLocal"} PROVE Local_ \in DOMAIN stack
    <2>1. PICK b, h, m, x : /\ b = frame.base /\ h = ShapeOf(frame, closures, shapes).height
                            /\ m = Len(stack) /\ x = insn.operand
      OBVIOUS
    <2>2. x < h
      BY <1>1, <1>4, <2>1 DEF OperandFits
    <2>3. b \in Nat /\ h \in Nat /\ m = b + h /\ DOMAIN stack = 1 .. m /\ x \in Nat
      BY <1>2, <2>1, TakenHere
    <2>4. Local_ = b + x + 1
      BY <2>1 DEF Local_
    <2>5. b + x + 1 \in 1 .. m
      BY ONLY <2>2, <2>3
    <2>6. QED  BY <2>3, <2>4, <2>5
  <1>5. ASSUME insn.op \in {"GetUpvalue", "SetUpvalue"} PROVE upvalue \in DOMAIN upvalues
    <2>1. insn.operand + 1 \in DOMAIN function.upvalues
      BY <1>1, <1>5 DEF OperandFits, HasUpvalue
    <2>2. QED  BY <2>1, Here DEF ClosureFits, upvalue
  <1>6. QED  BY <1>2, <1>3, <1>4, <1>5

\* One more value on the stack.
LEMMA PushSafe ==
    ASSUME NEW shapes, Safe(shapes), NEW op \in {"Const", "Nil", "True", "False", "GetLocal",
                                                 "GetGlobal", "GetUpvalue"},
           Dispatch(op), NEW v, Only(Append(stack, v)), IsValue(v, arrays, closures)
    PROVE  Safe(shapes)' /\ functions' = functions
  <1>1. status = "running" /\ insn.op = op
    BY DEF Dispatch
  <1>2. PICK st : st = Append(stack, v)
    OBVIOUS
  <1>3. StackFits(st, arrays, closures) /\ Len(st) = Len(stack) + 1 /\ Len(stack) \in Nat
    <2>1. StackFits(stack, arrays, closures) /\ st = Pushed(stack, v)
      BY <1>2, ValuesHere DEF Pushed
    <2>2. QED  BY ONLY <2>1, IsValue(v, arrays, closures), PushedFits
  <1>4. Takes(insn) = 0 /\ Gives(insn) = 1
    BY <1>1 DEF Takes, Gives, Unaries, Arithmetic
  <1>5. Len(st) = Len(stack) - Takes(insn) + Gives(insn)
    BY <1>3, <1>4
  <1>6. insn.op \notin Jumping \cup {"CloseUpvalue"}
    BY <1>1 DEF Jumping
  <1>7. QED  BY <1>1, <1>2, <1>3, <1>5, <1>6, OnlySafe

\* What an upvalue has is a value.
LEMMA UpvalueValue ==
    ASSUME NEW shapes, Safe(shapes), NEW x \in DOMAIN upvalues
    PROVE  /\ IsValue(UpvalueContents(x), arrays, closures)
           /\ location(x) # ClosedUpvalue => location(x) + 1 \in DOMAIN stack
  <1>1. location(x) = upvalues[x].location
    BY DEF location
  <1>2. CASE location(x) = ClosedUpvalue
    BY <1>2 DEF UpvalueContents, Safe, ValuesInv, UpvaluesFit, UpvalueFits
  <1>3. CASE location(x) # ClosedUpvalue
    <2>1. PICK i \in DOMAIN open_upvalues : open_upvalues[i] = x
      BY <1>1, <1>3 DEF Safe, ValuesInv, ListFits
    <2>2. location(x) + 1 \in DOMAIN stack
      BY <1>1, <2>1, OpenOnStack
    <2>3. QED  BY <1>3, <2>2, ValuesHere DEF StackFits, UpvalueContents
  <1>4. QED  BY <1>2, <1>3

\* Constants, and variables read.
LEMMA LoadsSafe ==
    ASSUME NEW shapes, Safe(shapes), Const \/ Literals \/ GetLocal \/ GetGlobal \/ GetUpvalue
    PROVE  Safe(shapes)' /\ functions' = functions
  <1>1. CASE Const
    <2>1. Dispatch("Const") /\ Only(Append(stack, constant))
      BY <1>1 DEF Const, Push
    <2>2. IsValue(constant, arrays, closures)
      BY <2>1, OperandHere, ScalarIsValue DEF Dispatch
    <2>3. QED  BY <2>1, <2>2, PushSafe
  <1>2. CASE Literals
    <2>1. PICK op \in {"Nil", "True", "False"}, v \in {Nil, True, False} :
                 Dispatch(op) /\ Only(Append(stack, v))
      BY <1>2 DEF Literals, Push
    <2>2. IsValue(v, arrays, closures)
      BY Scalars, ScalarIsValue
    <2>3. QED  BY <2>1, <2>2, PushSafe
  <1>3. CASE GetLocal
    <2>1. Dispatch("GetLocal") /\ Only(Append(stack, stack[Local_]))
      BY <1>3 DEF GetLocal, Push
    <2>2. IsValue(stack[Local_], arrays, closures)
      BY <2>1, OperandHere, ValuesHere DEF Dispatch, StackFits
    <2>3. QED  BY <2>1, <2>2, PushSafe
  <1>4. CASE GetGlobal
    <2>1. Dispatch("GetGlobal") /\ Only(Append(stack, globals[name]))
      BY <1>4 DEF GetGlobal
    <2>2. IsValue(globals[name], arrays, closures)
      BY <1>4, ValuesHere DEF GetGlobal, GlobalsFit
    <2>3. QED  BY <2>1, <2>2, PushSafe
  <1>5. CASE GetUpvalue
    <2>1. Dispatch("GetUpvalue") /\ Only(Append(stack, UpvalueContents(upvalue)))
      BY <1>5 DEF GetUpvalue, Push
    <2>2. IsValue(UpvalueContents(upvalue), arrays, closures)
      BY <2>1, OperandHere, UpvalueValue DEF Dispatch
    <2>3. QED  BY <2>1, <2>2, PushSafe
  <1>6. QED  BY <1>1, <1>2, <1>3, <1>4, <1>5

\* The value on the top, and the stack without some values that are there.
LEMMA TopHere ==
    ASSUME NEW shapes, Safe(shapes), status = "running", NEW n, n = Takes(insn)
    PROVE  /\ \A d \in Nat : d < n => IsValue(Peek(d), arrays, closures)
           /\ StackFits(Lower(n), arrays, closures) /\ Len(Lower(n)) = Len(stack) - n
           /\ n \in Nat /\ Len(stack) \in Nat /\ n <= Len(stack)
           /\ StackFits(stack, arrays, closures)
  <1>1. n \in Nat /\ Len(stack) \in Nat /\ n <= Len(stack)
    BY TakenHere
  <1>2. StackFits(stack, arrays, closures)
    BY ValuesHere
  <1>3. ASSUME NEW d \in Nat, d < n PROVE IsValue(Peek(d), arrays, closures)
    <2>1. d < Len(stack)
      BY <1>1, <1>3
    <2>2. QED  BY <1>2, <2>1, Peeked
  <1>4. n \in 0 .. Len(stack)
    BY <1>1
  <1>5. PICK st : st = Lower(n)
    OBVIOUS
  <1>6. StackFits(st, arrays, closures) /\ Len(st) = Len(stack) - n
    BY ONLY <1>2, <1>4, <1>5, Lowered
  <1>7. QED  BY <1>1, <1>2, <1>3, <1>5, <1>6

\* A value taken off the stack.
LEMMA PopSafe ==
    ASSUME NEW shapes, Safe(shapes), Pop PROVE Safe(shapes)' /\ functions' = functions
  <1>1. status = "running" /\ insn.op = "Pop" /\ Only(Lower(1))
    BY DEF Pop, Dispatch
  <1>2. Takes(insn) = 1 /\ Gives(insn) = 0
    BY <1>1 DEF Takes, Gives, Unaries, Arithmetic
  <1>3. PICK st : st = Lower(1)
    OBVIOUS
  <1>4. StackFits(st, arrays, closures) /\ Len(st) = Len(stack) - 1 /\ Len(stack) \in Nat
    BY <1>1, <1>2, <1>3, TopHere
  <1>5. Len(st) = Len(stack) - Takes(insn) + Gives(insn)
    BY <1>2, <1>4
  <1>6. insn.op \notin Jumping \cup {"CloseUpvalue"}
    BY <1>1 DEF Jumping
  <1>7. QED  BY <1>1, <1>3, <1>4, <1>5, <1>6, OnlySafe

\* A local variable written.
LEMMA SetLocalSafe ==
    ASSUME NEW shapes, Safe(shapes), SetLocal PROVE Safe(shapes)' /\ functions' = functions
  <1>1. status = "running" /\ insn.op = "SetLocal" /\ Only([stack EXCEPT ![Local_] = Peek(0)])
    BY DEF SetLocal, Dispatch
  <1>2. Takes(insn) = 1 /\ Gives(insn) = 1
    BY <1>1 DEF Takes, Gives, Unaries, Arithmetic
  <1>3. PICK st, v, k : st = [stack EXCEPT ![k] = v] /\ v = Peek(0) /\ k = Local_
    OBVIOUS
  <1>4. IsValue(v, arrays, closures) /\ k \in DOMAIN stack /\ Len(stack) \in Nat
    BY <1>1, <1>2, <1>3, TopHere, OperandHere
  <1>5. StackFits(st, arrays, closures) /\ Len(st) = Len(stack)
    <2>1. StackFits(stack, arrays, closures) /\ st = Put(stack, k, v)
      BY <1>3, ValuesHere DEF Put
    <2>2. QED  BY ONLY <1>4, <2>1, SlotFits
  <1>6. Len(st) = Len(stack) - Takes(insn) + Gives(insn)
    BY <1>2, <1>4, <1>5
  <1>7. insn.op \notin Jumping \cup {"CloseUpvalue"} /\ Only(st)
    BY <1>1, <1>3 DEF Jumping
  <1>8. QED  BY <1>1, <1>5, <1>6, <1>7, OnlySafe

\* A global variable written.
LEMMA StoreGlobalSafe ==
    ASSUME NEW shapes, Safe(shapes), status = "running", insn.op \notin Jumping \cup {"CloseUpvalue"},
           NEW st, StoreGlobal(st), StackFits(st, arrays, closures), Takes(insn) = 1,
           Len(st) = Len(stack) - Takes(insn) + Gives(insn)
    PROVE  Safe(shapes)' /\ functions' = functions
  <1>1. PICK v, globs2, x : v = Peek(0) /\ globs2 = globals' /\ x = name
    OBVIOUS
  <1>2. /\ globs2 = [y \in DOMAIN globals \cup {x} |-> IF y = x THEN v ELSE globals[y]]
        /\ Leaves_(st) /\ arrays' = arrays
    BY <1>1 DEF StoreGlobal
  <1>3. IsValue(v, arrays, closures) /\ GlobalsFit(globals, arrays, closures)
        /\ ArraysFit(arrays, closures)
    BY <1>1, TopHere, ValuesHere
  <1>4. GlobalsFit(globs2, arrays, closures)
    BY ONLY <1>2, <1>3 DEF GlobalsFit
  <1>5. QED  BY <1>1, <1>2, <1>3, <1>4, LeaveSafe

LEMMA GlobalsSafe ==
    ASSUME NEW shapes, Safe(shapes), SetGlobal \/ DefineGlobal \/ GlobalFails
    PROVE  Safe(shapes)' /\ functions' = functions
  <1>1. CASE SetGlobal
    <2>1. status = "running" /\ insn.op = "SetGlobal" /\ StoreGlobal(stack)
      BY <1>1 DEF SetGlobal, Dispatch
    <2>2. Takes(insn) = 1 /\ Gives(insn) = 1
      BY <2>1 DEF Takes, Gives, Unaries, Arithmetic
    <2>3. Len(stack) = Len(stack) - Takes(insn) + Gives(insn)
      BY <2>2, ValuesHere
    <2>4. insn.op \notin Jumping \cup {"CloseUpvalue"} /\ StackFits(stack, arrays, closures)
      BY <2>1, ValuesHere DEF Jumping
    <2>5. QED  BY <2>1, <2>2, <2>3, <2>4, StoreGlobalSafe
  <1>2. CASE DefineGlobal
    <2>1. status = "running" /\ insn.op = "DefineGlobal" /\ StoreGlobal(Lower(1))
      BY <1>2 DEF DefineGlobal, Dispatch
    <2>2. Takes(insn) = 1 /\ Gives(insn) = 0
      BY <2>1 DEF Takes, Gives, Unaries, Arithmetic
    <2>3. PICK st : st = Lower(1)
      OBVIOUS
    <2>4. StackFits(st, arrays, closures) /\ Len(st) = Len(stack) - 1 /\ Len(stack) \in Nat
      BY <2>1, <2>2, <2>3, TopHere
    <2>5. Len(st) = Len(stack) - Takes(insn) + Gives(insn)
      BY <2>2, <2>4
    <2>6. insn.op \notin Jumping \cup {"CloseUpvalue"}
      BY <2>1 DEF Jumping
    <2>7. QED  BY <2>1, <2>2, <2>3, <2>4, <2>5, <2>6, StoreGlobalSafe
  <1>3. CASE GlobalFails
    BY <1>3, FailSafe DEF GlobalFails
  <1>4. QED  BY <1>1, <1>2, <1>3

\* A captured variable written: the upvalue has it, or the slot it is on.
LEMMA SetUpvalueSafe ==
    ASSUME NEW shapes, Safe(shapes), SetUpvalue PROVE Safe(shapes)' /\ functions' = functions
  <1>1. /\ status = "running" /\ insn.op = "SetUpvalue" /\ Continue(1)
        /\ UNCHANGED <<object_vars, globals, arrays, open_upvalues, out, run_vars>>
    BY DEF SetUpvalue, Dispatch
  <1>2. Takes(insn) = 1 /\ Gives(insn) = 1
    BY <1>1 DEF Takes, Gives, Unaries, Arithmetic
  <1>3. insn.op \notin Jumping /\ insn.op \notin {"CloseUpvalue", "Closure"}
    BY <1>1 DEF Jumping
  <1>4. frame.ip + 1 + 1 \in Follows(function, frame.ip + 1, functions)
    BY <1>1, <1>3, NextFollows
  <1>5. PICK x, v, m : x = upvalue /\ v = Peek(0) /\ m = Len(stack)
    OBVIOUS
  <1>6. /\ x \in DOMAIN upvalues /\ IsValue(v, arrays, closures) /\ m \in Nat
        /\ StackFits(stack, arrays, closures)
        /\ location(x) # ClosedUpvalue => location(x) + 1 \in DOMAIN stack
    BY <1>1, <1>2, <1>5, OperandHere, TopHere, UpvalueValue
  <1>7. m = m - Takes(insn) + Gives(insn)
    BY <1>2, <1>6
  <1>8. CASE location(x) = ClosedUpvalue
    <2>1. upvalues' = [upvalues EXCEPT ![x].closed = v] /\ stack' = stack
      BY <1>5, <1>8 DEF SetUpvalue
    <2>2. PICK ups, ups2, u : ups = upvalues /\ ups2 = upvalues' /\ u = [ups[x] EXCEPT !.closed = v]
      OBVIOUS
    <2>3. ups2 = Put(ups, x, u) /\ x \in DOMAIN ups /\ IsSequence(ups)
      BY <1>6, <2>1, <2>2 DEF Put, Safe, ValuesInv, UpvaluesFit
    <2>4. /\ IsSequence(ups2) /\ DOMAIN ups2 = DOMAIN ups /\ ups2[x] = u
          /\ \A y \in DOMAIN ups : y # x => ups2[y] = ups[y]
      <3>1. /\ IsSequence(Put(ups, x, u)) /\ DOMAIN Put(ups, x, u) = DOMAIN ups
            /\ Put(ups, x, u)[x] = u
            /\ \A y \in DOMAIN ups : y # x => Put(ups, x, u)[y] = ups[y]
        BY ONLY <2>3, Exchanged
      <3>2. QED  BY ONLY <2>3, <3>1
    <2>5. \A y \in DOMAIN ups : UpvalueFits(ups[y], arrays, closures)
      BY <2>2 DEF Safe, ValuesInv, UpvaluesFit
    <2>6. UpvalueFits(u, arrays, closures) /\ u.location = ups[x].location
      <3>1. u = [location |-> ups[x].location, closed |-> v]
        BY <2>2, <2>3, <2>5 DEF UpvalueFits
      <3>2. QED  BY <1>6, <2>3, <2>5, <3>1 DEF UpvalueFits
    <2>7. \A y \in DOMAIN ups : /\ UpvalueFits(ups2[y], arrays, closures)
                                /\ ups2[y].location = ups[y].location
      BY <2>4, <2>5, <2>6
    <2>8. \A i \in DOMAIN open_upvalues : open_upvalues[i] \in DOMAIN ups
      BY <2>2 DEF Safe, ValuesInv, UpvaluesFit
    <2>9. UpvaluesFit(ups2, open_upvalues, arrays, closures)
      BY <2>4, <2>7, <2>8 DEF UpvaluesFit, Safe, ValuesInv
    <2>10. ListFits(ups2, open_upvalues)
      <3>1. Falling(ups, open_upvalues)
        BY <2>2 DEF Safe, ValuesInv, ListFits
      <3>2. \A i \in DOMAIN open_upvalues : ups2[open_upvalues[i]].location
                                               = ups[open_upvalues[i]].location
        BY <2>7, <2>8
      <3>3. Falling(ups2, open_upvalues)
        BY ONLY <3>1, <3>2, FallingStill
      <3>4. QED  BY <2>2, <2>4, <2>7, <2>8, <3>3 DEF Safe, ValuesInv, ListFits
    <2>11. ClosuresFit(closures, ups2, functions)
      BY <2>2, <2>4 DEF Safe, ValuesInv, ClosuresFit, ClosureFits
    <2>12. /\ functions' = functions /\ closures' = closures /\ UNCHANGED run_vars
           /\ globals' = globals /\ arrays' = arrays /\ open_upvalues' = open_upvalues
      BY <1>1 DEF object_vars
    <2>13. ValuesInv'
      BY <2>1, <2>2, <2>9, <2>10, <2>11, <2>12 DEF Safe, ValuesInv
    <2>14. CapturedNext(shapes) = ShapeOf(frame, closures, shapes).captured
      <3>1. function.code[frame.ip + 1] = insn
        BY <1>1, Here
      <3>2. QED  BY <1>3, <3>1 DEF CapturedNext, CapturedAfter
    <2>15. ASSUME NEW i \in DOMAIN open_upvalues'
           PROVE  /\ Placed(upvalues'[open_upvalues'[i]].location, frames, closures, shapes)
                  /\ upvalues'[open_upvalues'[i]].location - frame.base
                         \in ShapeOf(frame, closures, shapes).captured
                     => upvalues'[open_upvalues'[i]].location - frame.base
                            \in CapturedNext(shapes)
      <3>1. upvalues'[open_upvalues'[i]].location = upvalues[open_upvalues[i]].location
        BY <2>2, <2>7, <2>8, <2>12
      <3>2. QED  BY <2>12, <2>14, <3>1 DEF Safe, OpenFits
    <2>16. PICK ip : ip = frame.ip + 1
      OBVIOUS
    <2>17. /\ ip \in Int /\ ip + 1 \in Follows(function, frame.ip + 1, functions)
           /\ frames' = WithIp(frames, ip)
      BY <1>1, <1>4, <2>16, Here, Continued DEF FrameFits
    <2>18. \A c \in DOMAIN closures : c \in DOMAIN closures' /\ closures'[c] = closures[c]
      BY <2>12
    <2>19. Len(stack') = Len(stack) - Takes(insn) + Gives(insn)
      BY <1>5, <1>7, <2>1
    <2>20. QED  BY <1>1, <2>12, <2>13, <2>15, <2>17, <2>18, <2>19, MoveSafe
  <1>9. CASE location(x) # ClosedUpvalue
    <2>1. stack' = [stack EXCEPT ![location(x) + 1] = v] /\ upvalues' = upvalues
      BY <1>5, <1>9 DEF SetUpvalue
    <2>2. PICK st, k : st = stack' /\ k = location(x) + 1
      OBVIOUS
    <2>3. st = Put(stack, k, v) /\ k \in DOMAIN stack
      BY <1>6, <1>9, <2>1, <2>2 DEF Put
    <2>4. StackFits(st, arrays, closures) /\ Len(st) = Len(stack)
      BY ONLY <1>6, <2>3, SlotFits
    <2>5. Len(stack') = Len(stack) - Takes(insn) + Gives(insn)
      BY <1>5, <1>7, <2>2, <2>4
    <2>6. /\ UNCHANGED <<object_vars, upvalue_vars, run_vars>>
          /\ globals' = globals /\ arrays' = arrays
      BY <1>1, <2>1 DEF upvalue_vars
    <2>7. /\ StackFits(stack', arrays', closures) /\ GlobalsFit(globals', arrays', closures)
          /\ ArraysFit(arrays', closures) /\ DOMAIN arrays \subseteq DOMAIN arrays'
      BY <2>2, <2>4, <2>6, ValuesHere
    <2>8. QED  BY <1>1, <1>3, <1>4, <2>5, <2>6, <2>7, PlainSafe
  <1>10. QED  BY <1>8, <1>9

-----------------------------------------------------------------------------
(* Operations, jumps, arrays and output.                                   *)

\* The result of an operation in the place of its operands, or its error.
LEMMA ReplaceSafe ==
    ASSUME NEW shapes, Safe(shapes), status = "running",
           insn.op \notin Jumping \cup {"CloseUpvalue"}, NEW n, n = Takes(insn), Gives(insn) = 1,
           NEW r, Replace(n, r), IsValue(r.value, arrays, closures)
    PROVE  Safe(shapes)' /\ functions' = functions
  <1>1. CASE r.error # NoError
    BY <1>1, FailSafe DEF Replace
  <1>2. CASE r.error = NoError
    <2>1. PICK left, v, st : left = Lower(n) /\ v = r.value /\ st = Append(left, v)
      OBVIOUS
    <2>2. Only(st)
      BY <1>2, <2>1 DEF Replace
    <2>3. StackFits(left, arrays, closures) /\ Len(left) = Len(stack) - n
          /\ n \in Nat /\ Len(stack) \in Nat
      BY <2>1, TopHere
    <2>4. IsValue(v, arrays, closures) /\ st = Pushed(left, v)
      BY <2>1 DEF Pushed
    <2>5. StackFits(st, arrays, closures) /\ Len(st) = Len(left) + 1
      BY ONLY <2>3, <2>4, PushedFits
    <2>6. Len(st) = Len(stack) - Takes(insn) + Gives(insn)
      BY <2>3, <2>5
    <2>7. QED  BY <2>2, <2>5, <2>6, OnlySafe
  <1>3. QED  BY <1>1, <1>2

LEMMA OperationsSafe ==
    ASSUME NEW shapes, Safe(shapes), BINARY_OP \/ UnaryOp \/ IndexGet
    PROVE  Safe(shapes)' /\ functions' = functions
  <1>1. CASE BINARY_OP
    <2>1. PICK r : r = BinaryOperation(insn.op, Peek(1), Peek(0))
      OBVIOUS
    <2>2. status = "running" /\ insn.op \in Arithmetic /\ Replace(2, r)
      BY <1>1, <2>1 DEF BINARY_OP, Dispatch
    <2>3. Takes(insn) = 2 /\ Gives(insn) = 1 /\ insn.op \notin Jumping \cup {"CloseUpvalue"}
      BY <2>2 DEF Takes, Gives, Unaries, Arithmetic, Jumping
    <2>4. IsValue(Peek(1), arrays, closures) /\ IsValue(Peek(0), arrays, closures)
      BY <2>2, <2>3, TopHere
    <2>5. IsValue(r.value, arrays, closures)
      BY <2>1, <2>2, <2>4, BinaryScalar, ScalarIsValue
    <2>6. QED  BY <2>2, <2>3, <2>5, ReplaceSafe
  <1>2. CASE UnaryOp
    <2>1. PICK r : r = UnaryOperation(insn.op, Peek(0))
      OBVIOUS
    <2>2. status = "running" /\ insn.op \in Unaries /\ Replace(1, r)
      BY <1>2, <2>1 DEF UnaryOp, Dispatch
    <2>3. Takes(insn) = 1 /\ Gives(insn) = 1 /\ insn.op \notin Jumping \cup {"CloseUpvalue"}
      BY <2>2 DEF Takes, Gives, Unaries, Arithmetic, Jumping
    <2>4. IsValue(Peek(0), arrays, closures)
      BY <2>2, <2>3, TopHere
    <2>5. IsValue(r.value, arrays, closures)
      BY <2>1, <2>4, UnaryScalar, ScalarIsValue
    <2>6. QED  BY <2>2, <2>3, <2>5, ReplaceSafe
  <1>3. CASE IndexGet
    <2>1. PICK r : r = array_get(arrays, Peek(1), Peek(0))
      OBVIOUS
    <2>2. status = "running" /\ insn.op = "IndexGet" /\ Replace(2, r)
      BY <1>3, <2>1 DEF IndexGet, Dispatch
    <2>3. Takes(insn) = 2 /\ Gives(insn) = 1 /\ insn.op \notin Jumping \cup {"CloseUpvalue"}
      BY <2>2 DEF Takes, Gives, Unaries, Arithmetic, Jumping
    <2>4. IsValue(Peek(1), arrays, closures)
      BY <2>2, <2>3, TopHere
    <2>5. IsValue(r.value, arrays, closures)
      BY <2>1, <2>4, ValuesHere, ElementIsValue
    <2>6. QED  BY <2>2, <2>3, <2>5, ReplaceSafe
  <1>4. QED  BY <1>1, <1>2, <1>3

\* A jump, whichever way it goes: to the word it names, or to the next.
LEMMA SkipSafe ==
    ASSUME NEW shapes, Safe(shapes), status = "running", NEW op \in {"Jump", "Loop", "JumpIfFalse"},
           insn.op = op, NEW d \in Int, Skip(d),
           frame.ip + (1 + d) + 1 \in Follows(function, frame.ip + 1, functions)
    PROVE  Safe(shapes)' /\ functions' = functions
  <1>1. /\ Continue(1 + d) /\ stack' = stack /\ globals' = globals /\ arrays' = arrays
        /\ UNCHANGED <<object_vars, upvalue_vars, run_vars>>
    BY DEF Skip
  <1>2. Takes(insn) = Gives(insn) /\ Takes(insn) \in {0, 1}
    BY DEF Takes, Gives, Unaries, Arithmetic
  <1>3. Len(stack') = Len(stack) - Takes(insn) + Gives(insn)
    BY <1>1, <1>2, ValuesHere
  <1>4. /\ StackFits(stack', arrays', closures) /\ GlobalsFit(globals', arrays', closures)
        /\ ArraysFit(arrays', closures) /\ DOMAIN arrays \subseteq DOMAIN arrays'
    BY <1>1, ValuesHere
  <1>5. insn.op \notin {"CloseUpvalue", "Closure"} /\ 1 + d \in Int
    OBVIOUS
  <1>6. QED  BY <1>1, <1>3, <1>4, <1>5, PlainSafe

LEMMA JumpsSafe ==
    ASSUME NEW shapes, Safe(shapes), Jump \/ JumpIfFalse \/ Loop
    PROVE  Safe(shapes)' /\ functions' = functions
  <1>1. status = "running"
    BY DEF Jump, JumpIfFalse, Loop, Dispatch
  <1>2. PICK i, x : i = frame.ip /\ x = insn.operand
    OBVIOUS
  <1>3. i \in Nat /\ x \in Nat /\ function.code[i + 1] = insn
    BY <1>1, <1>2, Here, OperandHere DEF FrameFits
  <1>4. /\ i + (1 + x) + 1 = i + 1 + 1 + x /\ i + (1 + 0) + 1 = i + 1 + 1
        /\ i + (1 + -x) + 1 = i + 1 + 1 - x /\ -x \in Int
    BY ONLY <1>3
  <1>5. CASE Jump
    <2>1. insn.op = "Jump" /\ Skip(x)
      BY <1>2, <1>5 DEF Jump, Dispatch
    <2>2. i + (1 + x) + 1 \in Follows(function, i + 1, functions)
      BY <1>2, <1>3, <1>4, <2>1 DEF Follows
    <2>3. QED  BY <1>1, <1>2, <1>3, <2>1, <2>2, SkipSafe
  <1>6. CASE Loop
    <2>1. insn.op = "Loop" /\ Skip(-x)
      BY <1>2, <1>6 DEF Loop, Dispatch
    <2>2. i + (1 + -x) + 1 \in Follows(function, i + 1, functions)
      BY <1>2, <1>3, <1>4, <2>1 DEF Follows
    <2>3. PICK d \in Int : d = -x
      BY <1>4
    <2>4. Skip(d) /\ frame.ip + (1 + d) + 1 \in Follows(function, frame.ip + 1, functions)
      BY <1>2, <2>1, <2>2, <2>3
    <2>5. QED  BY <1>1, <2>1, <2>4, SkipSafe
  <1>7. CASE JumpIfFalse
    <2>1. PICK d \in {0, x} : Skip(d)
      BY <1>2, <1>7 DEF JumpIfFalse
    <2>2. insn.op = "JumpIfFalse"
      BY <1>7 DEF JumpIfFalse, Dispatch
    <2>3. i + (1 + d) + 1 \in Follows(function, i + 1, functions)
      BY <1>2, <1>3, <1>4, <2>2 DEF Follows
    <2>4. d \in Int
      BY <1>3
    <2>5. QED  BY <1>1, <1>2, <2>1, <2>2, <2>3, <2>4, SkipSafe
  <1>8. QED  BY <1>5, <1>6, <1>7

\* The upper values, as a sequence of their own.
Upper(n) == SubSeq(stack, Len(stack) - n + 1, Len(stack))

LEMMA UpperValues ==
    ASSUME NEW shapes, Safe(shapes), NEW n \in Nat, n <= Len(stack),
           NEW row, row = Upper(n)
    PROVE  IsSequence(row) /\ Len(row) = n /\ DOMAIN row = 1 .. n
           /\ \A i \in 1 .. n : /\ IsValue(row[i], arrays, closures)
                                /\ \E j \in DOMAIN stack : row[i] = stack[j]
  <1>1. PICK st, m, k : st = stack /\ m = Len(stack) /\ k = m - n
    OBVIOUS
  <1>2. m \in Nat /\ IsSequence(st) /\ \A i \in DOMAIN st : IsValue(st[i], arrays, closures)
    BY <1>1, ValuesHere DEF StackFits
  <1>3. k \in 0 .. m /\ m - k = n
    BY ONLY <1>1, <1>2, n \in Nat, n <= Len(stack)
  <1>4. k \in 0 .. Len(st) /\ row = SubSeq(st, k + 1, Len(st))
    BY <1>1, <1>3 DEF Upper
  <1>5. IsSequence(row) /\ Len(row) = Len(st) - k
        /\ \A i \in DOMAIN row : i + k \in DOMAIN st /\ row[i] = st[i + k]
    BY ONLY <1>2, <1>4, RestOf
  <1>6. Len(row) = n /\ DOMAIN row = 1 .. n
    BY <1>1, <1>3, <1>5, SequenceIsRow
  <1>7. QED  BY <1>1, <1>2, <1>5, <1>6

\* A value in the place of the n upper ones, with another array perhaps.
LEMMA MadeSafe ==
    ASSUME NEW shapes, Safe(shapes), status = "running",
           insn.op \notin Jumping \cup {"CloseUpvalue"}, NEW n, n = Takes(insn), Gives(insn) = 1,
           NEW v, Leaves_(Append(Lower(n), v)), globals' = globals, IsValue(v, arrays', closures),
           ArraysFit(arrays', closures), DOMAIN arrays \subseteq DOMAIN arrays'
    PROVE  Safe(shapes)' /\ functions' = functions
  <1>1. PICK left, st, arrs2 : left = Lower(n) /\ st = Append(left, v) /\ arrs2 = arrays'
    OBVIOUS
  <1>2. StackFits(left, arrays, closures) /\ Len(left) = Len(stack) - n
        /\ n \in Nat /\ Len(stack) \in Nat
    BY <1>1, TopHere
  <1>3. StackFits(left, arrs2, closures) /\ GlobalsFit(globals, arrs2, closures)
    BY <1>1, <1>2, ValuesHere, ValuesGrown
  <1>4. IsValue(v, arrs2, closures) /\ st = Pushed(left, v)
    BY <1>1 DEF Pushed
  <1>5. StackFits(st, arrs2, closures) /\ Len(st) = Len(left) + 1
    BY ONLY <1>3, <1>4, PushedFits
  <1>6. Len(st) = Len(stack) - Takes(insn) + Gives(insn)
    BY <1>2, <1>5
  <1>7. Leaves_(st) /\ StackFits(st, arrays', closures) /\ GlobalsFit(globals', arrays', closures)
    BY <1>1, <1>3, <1>5
  <1>8. QED  BY <1>6, <1>7, LeaveSafe

\* An array made of the upper values.
LEMMA ArraySafe ==
    ASSUME NEW shapes, Safe(shapes), Array PROVE Safe(shapes)' /\ functions' = functions
  <1>1. PICK n, row, v : /\ n = insn.operand /\ v = ArrayRef(Len(arrays) + 1)
                         /\ row = Upper(n)
    OBVIOUS
  <1>2. /\ status = "running" /\ insn.op = "Array" /\ arrays' = Append(arrays, row)
        /\ Leaves_(Append(Lower(n), v)) /\ globals' = globals
    BY <1>1 DEF Array, Dispatch, Upper
  <1>3. Takes(insn) = n /\ Gives(insn) = 1 /\ insn.op \notin Jumping \cup {"CloseUpvalue"}
    BY <1>1, <1>2 DEF Takes, Gives, Unaries, Arithmetic, Jumping
  <1>4. n \in Nat /\ n <= Len(stack)
    BY <1>2, <1>3, TopHere
  <1>5. IsSequence(row) /\ \A i \in DOMAIN row : IsValue(row[i], arrays, closures)
    BY <1>1, <1>4, UpperValues
  <1>6. PICK arrs2 : arrs2 = arrays'
    OBVIOUS
  <1>7. ArraysFit(arrs2, closures) /\ DOMAIN arrays \subseteq DOMAIN arrs2
        /\ IsValue(v, arrs2, closures)
    <2>1. PICK arrs : arrs = arrays
      OBVIOUS
    <2>2. ArraysFit(arrs, closures) /\ arrs2 = Append(arrs, row)
      BY <1>2, <1>6, <2>1, ValuesHere
    <2>3. \A i \in DOMAIN row : IsValue(row[i], arrs, closures)
      BY <1>5, <2>1
    <2>4. ArraysFit(arrs2, closures) /\ DOMAIN arrs \subseteq DOMAIN arrs2
          /\ IsValue(ArrayRef(Len(arrs) + 1), arrs2, closures)
      BY ONLY <1>5, <2>2, <2>3, ArrayMade
    <2>5. QED  BY <1>1, <2>1, <2>4
  <1>8. QED  BY <1>2, <1>3, <1>6, <1>7, MadeSafe

\* An element written, or an index that is wrong.
LEMMA IndexSetSafe ==
    ASSUME NEW shapes, Safe(shapes), IndexSet PROVE Safe(shapes)' /\ functions' = functions
  <1>1. PICK v, a, x, wrong : /\ v = Peek(0) /\ a = Peek(2) /\ x = Peek(1)
                              /\ wrong = resolve_index(arrays, a, x)
    OBVIOUS
  <1>2. /\ status = "running" /\ insn.op = "IndexSet"
        /\ IF wrong # NoError THEN FAIL(wrong)
           ELSE /\ arrays' = array_set(arrays, a, x, v)
                /\ Leaves_(Append(Lower(3), v)) /\ globals' = globals
    BY <1>1 DEF IndexSet, Dispatch
  <1>3. CASE wrong # NoError
    BY <1>2, <1>3, FailSafe
  <1>4. CASE wrong = NoError
    <2>1. arrays' = array_set(arrays, a, x, v) /\ Leaves_(Append(Lower(3), v)) /\ globals' = globals
      BY <1>2, <1>4
    <2>2. Takes(insn) = 3 /\ Gives(insn) = 1 /\ insn.op \notin Jumping \cup {"CloseUpvalue"}
      BY <1>2 DEF Takes, Gives, Unaries, Arithmetic, Jumping
    <2>3. IsValue(v, arrays, closures) /\ IsValue(a, arrays, closures)
      BY <1>1, <1>2, <2>2, TopHere
    <2>4. a[2] \in DOMAIN arrays /\ x[2] \in 0 .. Len(arrays[a[2]]) - 1
      BY <1>1, <1>4, <2>3, ValuesHere, Resolved
    <2>5. PICK id, i, arrs2 : id = a[2] /\ i = x[2] /\ arrs2 = Stored(arrays, id, i, v)
      OBVIOUS
    <2>6. arrays' = arrs2
      BY <2>1, <2>5 DEF array_set, Stored
    <2>7. ArraysFit(arrs2, closures) /\ DOMAIN arrs2 = DOMAIN arrays
      BY <2>3, <2>4, <2>5, ValuesHere, StoredFits
    <2>8. IsValue(v, arrs2, closures)
      BY <2>3, <2>7, StillValue
    <2>9. QED  BY <1>2, <2>1, <2>2, <2>6, <2>7, <2>8, MadeSafe
  <1>5. QED  BY <1>3, <1>4

\* A value printed.
LEMMA PrintSafe ==
    ASSUME NEW shapes, Safe(shapes), PrintValue PROVE Safe(shapes)' /\ functions' = functions
  <1>1. /\ status = "running" /\ insn.op = "Print" /\ Leaves_(Lower(1))
        /\ globals' = globals /\ arrays' = arrays
    BY DEF PrintValue, Dispatch
  <1>2. Takes(insn) = 1 /\ Gives(insn) = 0 /\ insn.op \notin Jumping \cup {"CloseUpvalue"}
    BY <1>1 DEF Takes, Gives, Unaries, Arithmetic, Jumping
  <1>3. PICK st : st = Lower(1)
    OBVIOUS
  <1>4. StackFits(st, arrays, closures) /\ Len(st) = Len(stack) - 1 /\ Len(stack) \in Nat
    BY <1>1, <1>2, <1>3, TopHere
  <1>5. Len(st) = Len(stack) - Takes(insn) + Gives(insn)
    BY <1>2, <1>4
  <1>6. StackFits(st, arrays', closures) /\ GlobalsFit(globals', arrays', closures)
        /\ ArraysFit(arrays', closures) /\ DOMAIN arrays \subseteq DOMAIN arrays'
    BY <1>1, <1>4, ValuesHere
  <1>7. QED  BY <1>1, <1>2, <1>3, <1>5, <1>6, LeaveSafe

-----------------------------------------------------------------------------
(* Calls.                                                                  *)

\* A native function's result in the place of the callee and its arguments.
LEMMA NativeSafe ==
    ASSUME NEW shapes, Safe(shapes), LengthsFit, CallNativeFunction
    PROVE  Safe(shapes)' /\ functions' = functions
  <1>1. PICK n, args, x : /\ n = insn.operand /\ x = callee[2]
                          /\ args = Upper(n)
    OBVIOUS
  <1>2. PICK called : called = CallNative(x, args, arrays)
    OBVIOUS
  <1>3. /\ status = "running" /\ insn.op = "Call" /\ Is("native", callee) /\ call_error = NoError
        /\ IF called.result.error # NoError THEN FAIL(called.result.error)
           ELSE /\ arrays' = called.arrays
                /\ Leaves_(Append(Lower(n + 1), called.result.value)) /\ globals' = globals
    BY <1>1, <1>2 DEF CallNativeFunction, Dispatch, argc, Upper
  <1>4. Takes(insn) = n + 1 /\ Gives(insn) = 1 /\ insn.op \notin Jumping \cup {"CloseUpvalue"}
    BY <1>1, <1>3 DEF Takes, Gives, Unaries, Arithmetic, Jumping
  <1>5. n \in Nat /\ n + 1 <= Len(stack) /\ Len(stack) \in Nat /\ n <= Len(stack) /\ n < n + 1
    <2>1. n \in Nat
      BY <1>1, <1>3, OperandHere
    <2>2. n + 1 <= Len(stack) /\ Len(stack) \in Nat
      BY <1>3, <1>4, TopHere
    <2>3. QED  BY <2>1, <2>2
  <1>6. IsValue(callee, arrays, closures)
    BY <1>1, <1>3, <1>4, <1>5, TopHere DEF callee, argc
  <1>7. x \in DOMAIN Natives /\ Natives[x] = n
    <2>1. x \in DOMAIN Natives
      BY <1>1, <1>3, <1>6, Contents
    <2>2. call_error = IF Natives[x] # n THEN arity_error(Natives[x], n) ELSE NoError
      BY <1>1, <1>3 DEF call_error, CallError, argc
    <2>3. \A expected, got : arity_error(expected, got) # NoError
      BY DEF arity_error, NoError
    <2>4. QED  BY <1>3, <2>1, <2>2, <2>3
  <1>8. /\ IsSequence(args) /\ \A i \in 1 .. n : IsValue(args[i], arrays, closures)
        /\ \A i \in 1 .. n : \E j \in DOMAIN stack : args[i] = stack[j]
    <2>1. args = Upper(n) /\ n \in Nat /\ n <= Len(stack)
      BY <1>1, <1>5
    <2>2. QED  BY ONLY <2>1, Safe(shapes), UpperValues
  <1>9. Is("str", args[1]) => Len(args[1][2]) \in Nat
    <2>1. 1 \in 1 .. n
      BY <1>7 DEF Natives
    <2>2. QED  BY <1>8, <2>1 DEF LengthsFit
  <1>10. CASE called.result.error # NoError
    BY <1>3, <1>10, FailSafe
  <1>11. CASE called.result.error = NoError
    <2>1. PICK v, arrs2 : v = called.result.value /\ arrs2 = called.arrays
      OBVIOUS
    <2>2. \A i \in 1 .. Natives[x] : IsValue(args[i], arrays, closures)
      BY <1>7, <1>8
    <2>3. /\ ArraysFit(arrs2, closures) /\ DOMAIN arrays \subseteq DOMAIN arrs2
          /\ IsValue(v, arrs2, closures)
      BY <1>2, <1>7, <1>9, <1>11, <2>1, <2>2, ValuesHere, NativeValue
    <2>4. arrays' = arrs2 /\ Leaves_(Append(Lower(n + 1), v)) /\ globals' = globals
      BY <1>3, <1>11, <2>1
    <2>5. QED  BY <1>3, <1>4, <2>3, <2>4, MadeSafe
  <1>12. QED  BY <1>10, <1>11

\* What the frames have captured below n, they have captured with the others too.
StillPlaced(frs, frs2, n, clos, shapes) ==
    \A l \in Nat : Placed(l, frs, clos, shapes) /\ l < n => Placed(l, frs2, clos, shapes)

\* A frame more on the frames, which are at a word that follows the call.
LEMMA FrameCalled ==
    ASSUME NEW frs, NEW n, NEW left, NEW m, NEW clos, NEW shapes, left = n + 1,
           FramesFit(frs, left, clos, shapes), n \in Nat, NEW f, FrameFits(f, clos, shapes), f.base = n,
           n + ShapeOf(f, clos, shapes).height = m, frs # <<>>,
           NEW frs2, frs2 = Pushed(frs, f)
    PROVE  /\ FramesFit(frs2, m, clos, shapes) /\ frs2 # <<>> /\ Len(frs2) = Len(frs) + 1
           /\ StillPlaced(frs, frs2, n, clos, shapes)
  <1>1. PICK p : p = Len(frs)
    OBVIOUS
  <1>2. /\ IsSequence(frs2) /\ Len(frs2) = p + 1 /\ p \in Nat
        /\ DOMAIN frs = 1 .. p /\ DOMAIN frs2 = 1 .. p + 1 /\ frs2[p + 1] = f
        /\ \A k \in 1 .. p : frs2[k] = frs[k]
    <2>1. IsSequence(frs)
      BY DEF FramesFit
    <2>2. /\ IsSequence(frs2) /\ Len(frs2) = Len(frs) + 1 /\ Len(frs) \in Nat
          /\ DOMAIN frs = 1 .. Len(frs) /\ DOMAIN frs2 = 1 .. Len(frs) + 1
          /\ frs2[Len(frs2)] = f
          /\ \A k \in 1 .. Len(frs) : frs2[k] = frs[k]
      BY ONLY <2>1, frs2 = Pushed(frs, f), Appended
    <2>3. QED  BY <1>1, <2>2
  <1>3. p # 0
    <2>1. IsSequence(frs) /\ frs # <<>>
      BY DEF FramesFit
    <2>2. QED  BY <1>1, <2>1 DEF IsSequence
  <1>4. \A k \in 1 .. p + 1 : k \in 1 .. p \/ k = p + 1
    BY <1>2
  <1>5. \A k \in 1 .. p : k \in 1 .. p + 1 /\ k < p + 1 /\ k # p + 1
                          /\ (k # p => k + 1 \in 1 .. p)
    BY <1>2
  <1>6. ASSUME NEW k \in 1 .. p + 1
        PROVE  /\ FrameFits(frs2[k], clos, shapes)
               /\ frs2[k].base + ShapeOf(frs2[k], clos, shapes).height = Ends(frs2, m, k)
    <2>1. CASE k = p + 1
      BY <1>2, <2>1 DEF Ends
    <2>2. CASE k \in 1 .. p
      <3>1. /\ FrameFits(frs[k], clos, shapes) /\ frs2[k] = frs[k]
            /\ frs[k].base + ShapeOf(frs[k], clos, shapes).height = Ends(frs, left, k)
        BY <1>2, <2>2 DEF FramesFit
      <3>2. CASE k = p
        BY <1>1, <1>2, <1>5, <2>2, <3>1, <3>2 DEF Ends
      <3>3. CASE k # p
        BY <1>1, <1>2, <1>5, <2>2, <3>1, <3>3 DEF Ends
      <3>4. QED  BY <3>2, <3>3
    <2>3. QED  BY <1>4, <2>1, <2>2
  <1>7. frs2[1].base = 0 /\ frs2 # <<>>
    <2>1. 1 \in 1 .. p
      BY <1>2, <1>3
    <2>2. frs2 # <<>>
      <3>1. 1 \in DOMAIN frs2
        BY <1>2, <1>5, <2>1
      <3>2. QED  BY ONLY <3>1, Empty
    <2>3. QED  BY <1>2, <2>1, <2>2 DEF FramesFit
  <1>8. FramesFit(frs2, m, clos, shapes)
    BY <1>2, <1>6, <1>7 DEF FramesFit
  <1>9. ASSUME NEW l \in Nat, Placed(l, frs, clos, shapes), l < n
        PROVE  Placed(l, frs2, clos, shapes)
    <2>1. PICK k \in 1 .. p : /\ l - frs[k].base \in ShapeOf(frs[k], clos, shapes).captured
                              /\ \A j \in DOMAIN frs : k < j => l < frs[j].base
      BY <1>2, <1>9 DEF Placed
    <2>2. l - frs2[k].base \in ShapeOf(frs2[k], clos, shapes).captured
      BY <1>2, <2>1
    <2>3. ASSUME NEW j \in 1 .. p + 1, k < j PROVE l < frs2[j].base
      <3>1. CASE j = p + 1
        BY <1>2, <1>9, <3>1
      <3>2. CASE j \in 1 .. p
        BY <1>2, <2>1, <2>3, <3>2
      <3>3. QED  BY <1>4, <3>1, <3>2
    <2>4. QED  BY <1>2, <1>5, <2>1, <2>2, <2>3 DEF Placed
  <1>10. QED  BY <1>1, <1>2, <1>7, <1>8, <1>9 DEF StillPlaced

\* The frame a function is called with.
LEMMA FirstWord ==
    ASSUME NEW shapes, Safe(shapes), NEW v, IsValue(v, arrays, closures), Is("function", v),
           NEW b \in Nat, b + FrameSlots <= call_limit, NEW f, f = NewFrame(v, b)
    PROVE  /\ FrameFits(f, closures, shapes) /\ f.base = b
           /\ ShapeOf(f, closures, shapes).height = CodeOf(v).arity + 1
  <1>1. PICK c, x : c = v[2] /\ x = closures[c].function
    OBVIOUS
  <1>2. c \in DOMAIN closures
    BY <1>1, Contents
  <1>3. x \in DOMAIN functions
    BY <1>1, <1>2 DEF Safe, ValuesInv, ClosuresFit, ClosureFits
  <1>4. 1 \in DOMAIN shapes[x] /\ shapes[x][1].height = functions[x].arity + 1
    BY <1>3 DEF Safe, Shaped, FunctionFits
  <1>5. f = [closure |-> c, ip |-> 0, base |-> b]
    BY <1>1 DEF NewFrame
  <1>6. CodeOf(v) = functions[x]
    BY <1>1 DEF CodeOf
  <1>7. QED  BY <1>1, <1>2, <1>4, <1>5, <1>6 DEF FrameFits, ShapeOf

\* No call takes a slot that an upvalue is open on.
LEMMA OpenBelowTaken ==
    ASSUME NEW shapes, Safe(shapes), status = "running",
           insn.op \notin {"CloseUpvalue", "Return"}, NEW i \in DOMAIN open_upvalues,
           NEW l, l = upvalues[open_upvalues[i]].location, NEW t, t = Takes(insn)
    PROVE  l < Len(stack) - t
  <1>1. PICK k \in DOMAIN frames : /\ l - frames[k].base \in ShapeOf(frames[k], closures, shapes).captured
                                   /\ \A j \in DOMAIN frames : k < j => l < frames[j].base
    BY DEF Safe, OpenFits, Placed
  <1>2. PICK n, b, h, m : /\ n = Len(frames) /\ b = frame.base /\ m = Len(stack)
                          /\ h = ShapeOf(frame, closures, shapes).height
    OBVIOUS
  <1>3. n \in DOMAIN frames /\ DOMAIN frames = 1 .. n /\ frames[n] = frame /\ n \in Nat /\ l \in Nat
    BY <1>2, Here, OpenOnStack
  <1>4. /\ b \in Nat /\ h \in Nat /\ m = b + h /\ m \in Nat /\ t \in Nat /\ t <= h
        /\ \A x \in ShapeOf(frame, closures, shapes).captured : x \in Nat /\ x < h - t
    BY <1>2, TakenHere
  <1>5. l < m - t
    <2>1. CASE k = n
      <3>1. PICK x : x = l - b
        OBVIOUS
      <3>2. x \in Nat /\ x < h - t
        BY <1>1, <1>2, <1>3, <1>4, <2>1, <3>1
      <3>3. QED  BY ONLY <1>3, <1>4, <3>1, <3>2
    <2>2. CASE k # n
      <3>1. k < n
        BY <1>3, <2>2
      <3>2. l < b
        BY <1>1, <1>2, <1>3, <3>1
      <3>3. QED  BY ONLY <1>3, <1>4, <3>2
    <2>3. QED  BY <2>1, <2>2
  <1>6. QED  BY <1>2, <1>5

\* What a call that is possible is a call of, and that there is room for it.
LEMMA CallPossible ==
    ASSUME NEW v, NEW n, NEW height, NEW depth, CallError(v, n, height, depth) = NoError
    PROVE  \/ Is("native", v) /\ Natives[v[2]] = n
           \/ /\ Is("function", v) /\ CodeOf(v).arity = n
              /\ ~(depth >= MaxCallDepth) /\ ~(height + FrameSlots > call_limit)
  <1>1. \A expected, got : arity_error(expected, got) # NoError
    BY DEF arity_error, NoError
  <1>2. NotCallable # NoError /\ StackOverflow # NoError
    BY DEF NotCallable, StackOverflow, NoError
  <1>3. CASE Is("native", v)
    BY <1>1, <1>3 DEF CallError
  <1>4. CASE ~Is("native", v)
    <2>1. ~Full(height, depth) /\ Is("function", v) /\ CodeOf(v).arity = n
      BY <1>1, <1>2, <1>4 DEF CallError
    <2>2. QED  BY <2>1 DEF Full
  <1>5. QED  BY <1>3, <1>4

\* A call of a function: its frame begins with the callee and the arguments.
LEMMA CallClosureSafe ==
    ASSUME NEW shapes, Safe(shapes), CallClosure PROVE Safe(shapes)' /\ functions' = functions
  <1>1. PICK n, v, m, b : n = insn.operand /\ v = callee /\ m = Len(stack) /\ b = m - n - 1
    OBVIOUS
  <1>2. PICK ip, moved, f : /\ ip = frame.ip + 1 /\ moved = WithIp(frames, ip)
                            /\ f = NewFrame(v, b)
    OBVIOUS
  <1>3. /\ status = "running" /\ insn.op = "Call" /\ Is("function", v)
        /\ CallError(v, n, m, counted_frames) = NoError
        /\ frames' = Pushed(moved, f)
        /\ functions' = functions /\ closures' = closures /\ globals' = globals
        /\ arrays' = arrays /\ upvalues' = upvalues /\ open_upvalues' = open_upvalues
        /\ stack' = stack /\ UNCHANGED run_vars
    <2>1. moved = [frames EXCEPT ![Len(frames)].ip = @ + 1]
      BY <1>2 DEF WithIp, frame, Last
    <2>2. QED  BY <1>1, <1>2, <2>1 DEF CallClosure, Dispatch, call_error, argc, Pushed, object_vars,
                                       upvalue_vars
  <1>4. Takes(insn) = n + 1 /\ Gives(insn) = 1 /\ insn.op \notin Jumping \cup {"CloseUpvalue"}
    BY <1>1, <1>3 DEF Takes, Gives, Unaries, Arithmetic, Jumping
  <1>5. n \in Nat /\ m \in Nat /\ n + 1 <= m /\ b \in Nat /\ m = b + n + 1 /\ n < n + 1
    <2>1. n \in Nat
      BY <1>1, <1>3, OperandHere
    <2>2. n + 1 <= m /\ m \in Nat
      BY <1>1, <1>3, <1>4, TopHere
    <2>3. QED  BY ONLY <1>1, <2>1, <2>2
  <1>6. IsValue(v, arrays, closures)
    BY <1>1, <1>3, <1>4, <1>5, TopHere DEF callee, argc
  <1>7. CodeOf(v).arity = n /\ ~(counted_frames >= MaxCallDepth) /\ ~(m + FrameSlots > call_limit)
    <2>1. ~Is("native", v)
      BY <1>3 DEF Is
    <2>2. QED  BY <1>3, <2>1, CallPossible
  <1>8. b + FrameSlots <= call_limit
    BY <1>5, <1>7, Room
  <1>9. FrameFits(f, closures, shapes) /\ f.base = b /\ ShapeOf(f, closures, shapes).height = n + 1
    BY <1>2, <1>3, <1>5, <1>6, <1>7, <1>8, FirstWord
  <1>10. ip \in Int /\ ip + 1 \in Follows(function, frame.ip + 1, functions)
    BY <1>2, <1>3, <1>4, Here, NextFollows DEF FrameFits
  <1>11. /\ FramesFit(moved, b + 1, closures, shapes) /\ moved # <<>> /\ Len(moved) = Len(frames)
         /\ \A l : /\ Placed(l, frames, closures, shapes)
                   /\ l - frame.base \in ShapeOf(frame, closures, shapes).captured
                         => l - frame.base \in CapturedNext(shapes)
                   => Placed(l, moved, closures, shapes)
    <2>1. PICK left : left = b + 1
      OBVIOUS
    <2>2. left = Len(stack) - Takes(insn) + Gives(insn)
      <3>1. left = m - (n + 1) + 1
        BY ONLY <1>5, <2>1
      <3>2. QED  BY <1>1, <1>4, <3>1
    <2>3. /\ FramesFit(moved, left, closures, shapes) /\ moved # <<>> /\ Len(moved) = Len(frames)
          /\ \A l : /\ Placed(l, frames, closures, shapes)
                    /\ l - frame.base \in ShapeOf(frame, closures, shapes).captured
                          => l - frame.base \in CapturedNext(shapes)
                    => Placed(l, moved, closures, shapes)
      BY <1>2, <1>3, <1>10, <2>2, MovesOn
    <2>4. QED  BY <2>1, <2>3
  <1>12. PICK frs2 : frs2 = frames'
    OBVIOUS
  <1>13. /\ FramesFit(frs2, m, closures, shapes) /\ frs2 # <<>> /\ Len(frs2) = Len(frames) + 1
         /\ StillPlaced(moved, frs2, b, closures, shapes)
    <2>1. b + ShapeOf(f, closures, shapes).height = m
      BY <1>5, <1>9
    <2>2. frs2 = Pushed(moved, f)
      BY <1>3, <1>12
    <2>3. PICK left : left = b + 1
      OBVIOUS
    <2>4. FramesFit(moved, left, closures, shapes) /\ moved # <<>> /\ b \in Nat
      BY <1>5, <1>11, <2>3
    <2>5. /\ FramesFit(frs2, m, closures, shapes) /\ frs2 # <<>> /\ Len(frs2) = Len(moved) + 1
          /\ StillPlaced(moved, frs2, b, closures, shapes)
      BY ONLY <1>9, <2>1, <2>2, <2>3, <2>4, FrameCalled
    <2>6. QED  BY <1>11, <2>5
  <1>14. CapturedNext(shapes) = ShapeOf(frame, closures, shapes).captured
    <2>1. function.code[frame.ip + 1] = insn
      BY <1>3, Here
    <2>2. QED  BY <1>3, <2>1 DEF CapturedNext, CapturedAfter
  <1>15. OpenFits(upvalues, open_upvalues, frs2, closures, shapes)
    <2>1. ASSUME NEW i \in DOMAIN open_upvalues
          PROVE  Placed(upvalues[open_upvalues[i]].location, frs2, closures, shapes)
      <3>1. PICK l : l = upvalues[open_upvalues[i]].location
        OBVIOUS
      <3>2. Placed(l, frames, closures, shapes)
        BY <3>1 DEF Safe, OpenFits
      <3>3. Placed(l, moved, closures, shapes)
        BY <1>11, <1>14, <3>2
      <3>4. l < m - (n + 1)
        <4>1. l < Len(stack) - (n + 1)
          BY <1>3, <1>4, <3>1, OpenBelowTaken
        <4>2. QED  BY <1>1, <4>1
      <3>5. l < b /\ l \in Nat
        <4>1. m - (n + 1) = b
          BY ONLY <1>5
        <4>2. l \in Nat
          BY <3>1, OpenOnStack
        <4>3. QED  BY <3>4, <4>1, <4>2
      <3>6. QED  BY <1>13, <3>1, <3>3, <3>5 DEF StillPlaced
    <2>2. QED  BY <2>1 DEF OpenFits
  <1>16. ValuesInv'
    BY <1>3 DEF Safe, ValuesInv
  <1>17. StatusInv'
    <2>1. /\ status' = status /\ uncounted_frames' = uncounted_frames /\ calls' = calls
      BY <1>3 DEF run_vars
    <2>2. PICK p, u : p = Len(frames) /\ u = uncounted_frames
      OBVIOUS
    <2>3. p \in Nat /\ u \in {0, 1} /\ ~(p - u >= MaxCallDepth) /\ MaxCallDepth \in Nat
      BY <1>3, <1>7, <2>2, Here, Room DEF counted_frames, Safe, StatusInv
    <2>4. p + 1 <= MaxCallDepth + u
      BY ONLY <2>3
    <2>5. QED  BY <1>3, <1>12, <1>13, <2>1, <2>2, <2>4 DEF Safe, StatusInv
  <1>18. QED  BY <1>1, <1>3, <1>12, <1>13, <1>15, <1>16, <1>17 DEF Safe

\* The end of a scope that had a captured variable.
LEMMA CloseUpvalueSafe ==
    ASSUME NEW shapes, Safe(shapes), CloseUpvalue PROVE Safe(shapes)' /\ functions' = functions
  <1>1. PICK st, m, b, sh : /\ st = Lower(1) /\ m = Len(stack) /\ b = frame.base
                            /\ sh = ShapeOf(frame, closures, shapes)
    OBVIOUS
  <1>2. /\ status = "running" /\ insn.op = "CloseUpvalue" /\ close_upvalues(m - 1)
        /\ stack' = st /\ Continue(1) /\ UNCHANGED run_vars
        /\ functions' = functions /\ closures' = closures /\ globals' = globals /\ arrays' = arrays
    BY <1>1 DEF CloseUpvalue, Dispatch, object_vars
  <1>3. Takes(insn) = 1 /\ Gives(insn) = 0 /\ insn.op \notin Jumping
    BY <1>2 DEF Takes, Gives, Unaries, Arithmetic, Jumping
  <1>4. StackFits(st, arrays, closures) /\ Len(st) = m - 1 /\ m \in Nat
    BY <1>1, <1>2, <1>3, TopHere
  <1>5. PICK low \in Int : low = m - 1
    BY <1>4
  <1>6. /\ UpvaluesFit(upvalues', open_upvalues', arrays, closures)
        /\ ListFits(upvalues', open_upvalues')
        /\ ClosuresFit(closures, upvalues', functions)
        /\ \A i \in DOMAIN open_upvalues' :
               /\ upvalues'[open_upvalues'[i]].location < low
               /\ \E j \in DOMAIN open_upvalues :
                      upvalues'[open_upvalues'[i]].location
                          = upvalues[open_upvalues[j]].location
    <2>1. close_upvalues(low)
      BY <1>2, <1>5
    <2>2. QED  BY <2>1, Closes
  <1>7. ValuesInv'
    BY <1>2, <1>4, <1>6 DEF Safe, ValuesInv
  <1>8. CapturedNext(shapes) = sh.captured \ {sh.height - 1}
    <2>1. function.code[frame.ip + 1] = insn
      BY <1>2, Here
    <2>2. QED  BY <1>1, <1>2, <2>1 DEF CapturedNext, CapturedAfter
  <1>9. ASSUME NEW i \in DOMAIN open_upvalues'
        PROVE  /\ Placed(upvalues'[open_upvalues'[i]].location, frames, closures, shapes)
               /\ upvalues'[open_upvalues'[i]].location - frame.base
                      \in ShapeOf(frame, closures, shapes).captured
                  => upvalues'[open_upvalues'[i]].location - frame.base \in CapturedNext(shapes)
    <2>1. PICK l : l = upvalues'[open_upvalues'[i]].location
      OBVIOUS
    <2>2. l < low /\ Placed(l, frames, closures, shapes) /\ l \in Nat
      BY <1>6, <2>1, OpenOnStack DEF Safe, OpenFits
    <2>3. PICK h : h = sh.height
      OBVIOUS
    <2>4. b \in Nat /\ h \in Nat /\ m = b + h
      BY <1>1, <1>2, <2>3, TakenHere
    <2>5. l - b # h - 1
      BY ONLY <1>5, <2>2, <2>4
    <2>6. l - b \in sh.captured => l - b \in CapturedNext(shapes)
      BY <1>8, <2>3, <2>5
    <2>7. QED  BY <1>1, <2>1, <2>2, <2>6
  <1>10. PICK ip : ip = frame.ip + 1
    OBVIOUS
  <1>11. /\ ip \in Int /\ ip + 1 \in Follows(function, frame.ip + 1, functions)
         /\ frames' = WithIp(frames, ip)
    BY <1>2, <1>3, <1>10, Here, NextFollows, Continued DEF FrameFits
  <1>12. Len(stack') = Len(stack) - Takes(insn) + Gives(insn)
    BY <1>1, <1>2, <1>3, <1>4
  <1>13. \A c \in DOMAIN closures : c \in DOMAIN closures' /\ closures'[c] = closures[c]
    BY <1>2
  <1>14. QED  BY <1>2, <1>7, <1>9, <1>11, <1>12, <1>13, MoveSafe

\* The frames without the one that runs, which its result goes back to.
LEMMA FrameLeft ==
    ASSUME NEW shapes, Safe(shapes), status = "running", Len(frames) # 1,
           NEW frs2, frs2 = Front(frames), NEW b, b = frame.base, NEW left, left = b + 1
    PROVE  /\ FramesFit(frs2, left, closures, shapes) /\ frs2 # <<>>
           /\ Len(frs2) \in Nat /\ Len(frs2) <= Len(frames)
           /\ StillPlaced(frames, frs2, b, closures, shapes)
  <1>1. PICK frs, n : frs = frames /\ n = Len(frames)
    OBVIOUS
  <1>2. PICK m : m = n - 1
    OBVIOUS
  <1>3. IsSequence(frs) /\ frs # <<>> /\ n = Len(frs) /\ n \in Nat \ {0} /\ frame = frs[n]
    BY <1>1, Here
  <1>4. /\ IsSequence(frs2) /\ Len(frs2) = Len(frs) - 1 /\ Len(frs) \in Nat \ {0}
        /\ DOMAIN frs = 1 .. Len(frs) /\ DOMAIN frs2 = 1 .. Len(frs) - 1
        /\ \A i \in 1 .. Len(frs) - 1 : frs2[i] = frs[i]
    <2>1. IsSequence(frs) /\ frs # <<>> /\ frs2 = Front(frs)
      BY <1>1, <1>3
    <2>2. QED  BY ONLY <2>1, Popped
  <1>5. /\ m \in Nat \ {0} /\ n = m + 1 /\ Len(frs2) = m /\ DOMAIN frs = 1 .. n
        /\ DOMAIN frs2 = 1 .. m /\ \A i \in 1 .. m : frs2[i] = frs[i] /\ i \in 1 .. n
    <2>1. m \in Nat \ {0} /\ n = m + 1
      BY <1>1, <1>2, <1>3
    <2>2. QED  BY <1>2, <1>3, <1>4, <2>1
  <1>6. \A i \in 1 .. m : i + 1 \in 1 .. n /\ i < n /\ (i # m => i + 1 \in 1 .. m) /\ i # n
    BY <1>5
  <1>7. ASSUME NEW k \in 1 .. m
        PROVE  /\ FrameFits(frs2[k], closures, shapes)
               /\ frs2[k].base + ShapeOf(frs2[k], closures, shapes).height = Ends(frs2, left, k)
    <2>1. /\ FrameFits(frs[k], closures, shapes) /\ frs2[k] = frs[k]
          /\ frs[k].base + ShapeOf(frs[k], closures, shapes).height = Ends(frs, Len(stack), k)
      BY <1>1, <1>5 DEF Safe, FramesFit
    <2>2. Ends(frs, Len(stack), k) = frs[k + 1].base + 1
      BY <1>1, <1>3, <1>6 DEF Ends
    <2>3. CASE k = m
      <3>1. k + 1 = n
        BY <1>5, <2>3
      <3>2. Ends(frs, Len(stack), k) = left
        BY <1>3, <2>2, <3>1
      <3>3. QED  BY <1>5, <2>1, <2>3, <3>2 DEF Ends
    <2>4. CASE k # m
      <3>1. frs2[k + 1] = frs[k + 1]
        BY <1>5, <1>6, <2>4
      <3>2. QED  BY <1>5, <2>1, <2>2, <2>4, <3>1 DEF Ends
    <2>5. QED  BY <2>3, <2>4
  <1>8. frs2[1].base = 0 /\ frs2 # <<>>
    <2>1. 1 \in 1 .. m
      BY <1>5
    <2>2. frs2 # <<>>
      BY <1>5, Empty
    <2>3. frs[1].base = 0
      BY <1>1, <1>3 DEF Safe, FramesFit
    <2>4. QED  BY <1>5, <2>1, <2>2, <2>3
  <1>9. FramesFit(frs2, left, closures, shapes)
    BY <1>4, <1>5, <1>7, <1>8 DEF FramesFit
  <1>10. ASSUME NEW l \in Nat, Placed(l, frames, closures, shapes), l < b
         PROVE  Placed(l, frs2, closures, shapes)
    <2>1. PICK k \in 1 .. n : /\ l - frs[k].base \in ShapeOf(frs[k], closures, shapes).captured
                              /\ \A j \in DOMAIN frs : k < j => l < frs[j].base
      BY <1>1, <1>5, <1>10 DEF Placed
    <2>2. k # n
      <3>1. SUFFICES ASSUME k = n PROVE FALSE
        OBVIOUS
      <3>2. PICK x : x = l - b
        OBVIOUS
      <3>3. x \in Nat /\ b \in Nat
        BY <1>3, <2>1, <3>1, <3>2, TakenHere
      <3>4. QED  BY ONLY <1>10, <3>2, <3>3
    <2>3. k \in 1 .. m
      BY <1>5, <2>2
    <2>4. l - frs2[k].base \in ShapeOf(frs2[k], closures, shapes).captured
      BY <1>5, <2>1, <2>3
    <2>5. \A j \in DOMAIN frs2 : k < j => l < frs2[j].base
      BY <1>5, <2>1
    <2>6. QED  BY <1>5, <2>3, <2>4, <2>5 DEF Placed
  <1>11. Len(frs2) \in Nat /\ Len(frs2) <= Len(frames)
    BY <1>1, <1>5
  <1>12. QED  BY <1>8, <1>9, <1>10, <1>11 DEF StillPlaced

\* The result of a call in the place of the callee, and no upvalue on a slot of
\* the frame that ends.
LEMMA ReturnSafe ==
    ASSUME NEW shapes, Safe(shapes), Return PROVE Safe(shapes)' /\ functions' = functions
  <1>1. PICK b, v, frs2 : b = frame.base /\ v = Peek(0) /\ frs2 = Front(frames)
    OBVIOUS
  <1>2. /\ status = "running" /\ insn.op = "Return" /\ close_upvalues(b) /\ frames' = frs2
        /\ functions' = functions /\ closures' = closures /\ globals' = globals
        /\ arrays' = arrays /\ uncounted_frames' = uncounted_frames /\ calls' = calls
    BY <1>1 DEF Return, Dispatch, object_vars
  <1>3. Takes(insn) = 1
    BY <1>2 DEF Takes, Unaries, Arithmetic
  <1>4. IsValue(v, arrays, closures) /\ StackFits(stack, arrays, closures)
    BY <1>1, <1>2, <1>3, TopHere
  <1>5. b \in 0 .. Len(stack) /\ b \in Nat
    <2>1. PICK m, h : m = Len(stack) /\ h = ShapeOf(frame, closures, shapes).height
      OBVIOUS
    <2>2. b \in Nat /\ h \in Nat /\ m = b + h
      BY <1>1, <1>2, <2>1, TakenHere
    <2>3. b \in 0 .. m
      BY ONLY <2>2
    <2>4. QED  BY <2>1, <2>2, <2>3
  <1>6. PICK st : st = SubSeq(stack, 1, b)
    OBVIOUS
  <1>7. StackFits(st, arrays, closures) /\ Len(st) = b
    <2>1. PICK all : all = stack
      OBVIOUS
    <2>2. IsSequence(all) /\ b \in 0 .. Len(all) /\ st = SubSeq(all, 1, b)
      BY <1>4, <1>5, <1>6, <2>1 DEF StackFits
    <2>3. /\ IsSequence(st) /\ Len(st) = b /\ DOMAIN st = 1 .. b
          /\ \A i \in 1 .. b : i \in DOMAIN all /\ st[i] = all[i]
      BY ONLY <2>2, FirstOf
    <2>4. QED  BY <1>4, <2>1, <2>3 DEF StackFits
  <1>8. CASE Len(frames) = 1
    <2>1. status' = "finished" /\ stack' = st
      BY <1>1, <1>6, <1>8 DEF Return
    <2>2. b = 0
      <3>1. frame = frames[1] /\ frames # <<>>
        BY <1>2, <1>8, Here
      <3>2. QED  BY <1>1, <3>1 DEF Safe, FramesFit
    <2>3. stack' = <<>>
      BY <1>7, <2>1, <2>2, Empty DEF StackFits, IsSequence
    <2>4. frames' = <<>>
      <3>1. PICK frs : frs = frames
        OBVIOUS
      <3>2. IsSequence(frs) /\ frs # <<>> /\ frs2 = Front(frs) /\ Len(frs) = 1
        BY <1>1, <1>2, <1>8, <3>1, Here
      <3>3. IsSequence(frs2) /\ Len(frs2) = Len(frs) - 1
        BY ONLY <3>2, Popped
      <3>4. Len(frs2) = 0
        BY ONLY <3>2, <3>3
      <3>5. frs2 = <<>>
        BY ONLY <3>3, <3>4 DEF IsSequence
      <3>6. QED  BY <1>2, <3>5
    <2>5. close_upvalues(0) /\ status' \in {"finished", "failed"}
      BY <1>2, <2>1, <2>2
    <2>6. QED  BY <1>2, <2>3, <2>4, <2>5, EndedSafe
  <1>9. CASE Len(frames) # 1
    <2>1. stack' = Append(st, v) /\ status' = status
      BY <1>1, <1>6, <1>9 DEF Return
    <2>2. PICK st2, left : st2 = stack' /\ left = b + 1
      OBVIOUS
    <2>3. StackFits(st2, arrays, closures) /\ Len(st2) = left
      <3>1. st2 = Pushed(st, v)
        BY <2>1, <2>2 DEF Pushed
      <3>2. StackFits(st2, arrays, closures) /\ Len(st2) = Len(st) + 1
        BY ONLY <1>4, <1>7, <3>1, PushedFits
      <3>3. QED  BY <1>7, <2>2, <3>2
    <2>4. /\ FramesFit(frs2, left, closures, shapes) /\ frs2 # <<>>
          /\ Len(frs2) \in Nat /\ Len(frs2) <= Len(frames)
          /\ StillPlaced(frames, frs2, b, closures, shapes)
      BY <1>1, <1>2, <1>9, <2>2, FrameLeft
    <2>5. /\ UpvaluesFit(upvalues', open_upvalues', arrays, closures)
          /\ ListFits(upvalues', open_upvalues')
          /\ ClosuresFit(closures, upvalues', functions)
          /\ \A i \in DOMAIN open_upvalues' :
                 /\ upvalues'[open_upvalues'[i]].location < b
                 /\ \E j \in DOMAIN open_upvalues :
                        upvalues'[open_upvalues'[i]].location
                            = upvalues[open_upvalues[j]].location
      <3>1. b \in Int
        BY <1>5
      <3>2. QED  BY <1>2, <3>1, Closes
    <2>6. ValuesInv'
      BY <1>2, <2>2, <2>3, <2>5, ValuesHere DEF ValuesInv
    <2>7. OpenFits(upvalues', open_upvalues', frs2, closures, shapes)
      <3>1. ASSUME NEW i \in DOMAIN open_upvalues'
            PROVE  Placed(upvalues'[open_upvalues'[i]].location, frs2, closures, shapes)
        <4>1. PICK l : l = upvalues'[open_upvalues'[i]].location
          OBVIOUS
        <4>2. l < b /\ \E j \in DOMAIN open_upvalues : l = upvalues[open_upvalues[j]].location
          BY <2>5, <4>1
        <4>3. l \in Nat /\ Placed(l, frames, closures, shapes)
          BY <4>2, OpenOnStack DEF Safe, OpenFits
        <4>4. QED  BY <2>4, <4>1, <4>2, <4>3 DEF StillPlaced
      <3>2. QED  BY <3>1 DEF OpenFits
    <2>8. StatusInv'
      <3>1. PICK p, q, u, d : p = Len(frs2) /\ q = Len(frames) /\ u = uncounted_frames
                              /\ d = MaxCallDepth
        OBVIOUS
      <3>2. /\ p \in Nat /\ p <= q /\ q \in Nat /\ u \in {0, 1} /\ d \in Nat /\ q <= d + u
            /\ calls \in Nat
        BY <1>2, <2>4, <3>1, Here, Room DEF Safe, StatusInv
      <3>3. p <= d + u
        BY ONLY <3>2
      <3>4. QED  BY <1>2, <2>1, <2>4, <3>1, <3>2, <3>3 DEF StatusInv
    <2>9. Shaped(functions', shapes)
      BY <1>2 DEF Safe
    <2>10. QED  BY <1>2, <2>2, <2>3, <2>4, <2>6, <2>7, <2>8, <2>9 DEF Safe
  <1>10. QED  BY <1>8, <1>9

-----------------------------------------------------------------------------
(* What a closure captures.                                                *)

\* The upvalues, the open list and those captured, word after word.
IsCapturing(after, words, n) ==
    after = [k \in 0 .. n |-> IF k = 0 THEN NothingCaptured ELSE capture(words[k], after[k - 1])]

\* What was captured after each of the words.
Capturing(words) ==
    CHOOSE after : after = [k \in 0 .. Len(words) |->
                               IF k = 0 THEN NothingCaptured ELSE capture(words[k], after[k - 1])]

\* What a Closure instruction captured is what it has after its last word.
LEMMA CapturedIs == ASSUME NEW words PROVE Captured(words) = Capturing(words)[Len(words)]
  BY DEF Captured, Capturing

\* There is a function that says what was captured after each word. The words are
\* finitely many, so it is found by counting up to their number.
LEMMA CapturingExists ==
    ASSUME NEW words, NEW N \in Nat PROVE \E after : IsCapturing(after, words, N)
  <1> DEFINE T == {n \in 0 .. N : \E after : IsCapturing(after, words, n)}
  <1>1. 0 \in T
    <2>1. PICK after : after = [k \in 0 .. 0 |-> NothingCaptured]
      OBVIOUS
    <2>2. IsCapturing(after, words, 0)
      BY <2>1 DEF IsCapturing
    <2>3. QED  BY <2>2
  <1>2. ASSUME NEW n \in 0 .. N - 1, n \in T PROVE n + 1 \in T
    <2>1. PICK before : IsCapturing(before, words, n)
      BY <1>2
    <2>2. PICK after : after = [k \in 0 .. n + 1 |-> IF k = n + 1 THEN capture(words[n + 1], before[n])
                                                     ELSE before[k]]
      OBVIOUS
    <2>3. \A k \in 0 .. n : after[k] = before[k]
      BY <2>2
    <2>4. ASSUME NEW k \in 0 .. n + 1
          PROVE  after[k] = IF k = 0 THEN NothingCaptured ELSE capture(words[k], after[k - 1])
      <3>1. CASE k = n + 1
        <4>1. k # 0 /\ k - 1 = n /\ n \in 0 .. n
          BY <3>1
        <4>2. after[k] = capture(words[k], before[n])
          BY <2>2, <3>1
        <4>3. QED  BY <2>3, <4>1, <4>2
      <3>2. CASE k # n + 1 /\ k # 0
        <4>1. k \in 0 .. n /\ k - 1 \in 0 .. n
          BY <3>2
        <4>2. before[k] = capture(words[k], before[k - 1])
          BY <2>1, <3>2, <4>1 DEF IsCapturing
        <4>3. QED  BY <2>3, <3>2, <4>1, <4>2
      <3>3. CASE k = 0
        <4>1. before[0] = NothingCaptured
          BY <2>1 DEF IsCapturing
        <4>2. QED  BY <2>3, <3>3, <4>1
      <3>4. QED  BY <3>1, <3>2, <3>3
    <2>5. IsCapturing(after, words, n + 1)
      <3>1. after = [k \in 0 .. n + 1 |-> after[k]]
        BY <2>2
      <3>2. QED  BY <2>4, <3>1 DEF IsCapturing
    <2>6. QED  BY <2>5
  <1>3. N \in T
    <2> HIDE DEF T
    <2>1. \A n \in 0 .. N : n \in T
      BY ONLY <1>1, <1>2, N \in Nat, CountUp
    <2>2. QED  BY <2>1
  <1>4. QED  BY <1>3

\* So it is what the definition of capturing says.
LEMMA CapturingSteps ==
    ASSUME NEW words, Len(words) \in Nat PROVE IsCapturing(Capturing(words), words, Len(words))
  <1>1. PICK after : IsCapturing(after, words, Len(words))
    BY CapturingExists
  <1>2. QED  BY <1>1 DEF IsCapturing, Capturing

\* An upvalue of the list after some words: one that was open before, or on a slot
\* that a word captures.
MayBeOpen(l) == \/ \E j \in DOMAIN open_upvalues : l = upvalues[open_upvalues[j]].location
                \/ l - frame.base \in CapturedSlots(function, frame.ip + 1, functions)

\* After n words: as many upvalues, each of them known, in lists that fit.
CapturedFit(s, n) ==
    /\ s = CaptureState(s.upvalues, s.open, s.captured)
    /\ UpvaluesFit(s.upvalues, s.open, arrays, closures) /\ ListFits(s.upvalues, s.open)
    /\ DOMAIN upvalues \subseteq DOMAIN s.upvalues
    /\ IsSequence(s.captured) /\ Len(s.captured) = n
    /\ \A i \in DOMAIN s.captured : s.captured[i] \in DOMAIN s.upvalues
    /\ \A i \in DOMAIN s.open : MayBeOpen(s.upvalues[s.open[i]].location)

\* One captured more, of the upvalues there are.
LEMMA OneMore ==
    ASSUME NEW n, NEW s, CapturedFit(s, n), NEW x \in DOMAIN s.upvalues,
           NEW t, t = CaptureState(s.upvalues, s.open, Pushed(s.captured, x))
    PROVE  CapturedFit(t, n + 1)
  <1>1. PICK all : all = Pushed(s.captured, x)
    OBVIOUS
  <1>2. IsSequence(s.captured)
    BY DEF CapturedFit
  <1>3. /\ IsSequence(all) /\ Len(all) = Len(s.captured) + 1 /\ Len(s.captured) \in Nat
        /\ DOMAIN s.captured = 1 .. Len(s.captured) /\ DOMAIN all = 1 .. Len(s.captured) + 1
        /\ all[Len(all)] = x
        /\ \A i \in 1 .. Len(s.captured) : all[i] = s.captured[i]
    BY ONLY <1>1, <1>2, Appended
  <1>4. /\ t.upvalues = s.upvalues /\ t.open = s.open /\ t.captured = all
        /\ t = CaptureState(t.upvalues, t.open, t.captured)
    BY <1>1 DEF CaptureState
  <1>5. \A i \in DOMAIN all : all[i] \in DOMAIN s.upvalues
    <2>1. ASSUME NEW i \in 1 .. Len(s.captured) + 1 PROVE all[i] \in DOMAIN s.upvalues
      <3>1. CASE i = Len(s.captured) + 1
        BY <1>3, <3>1
      <3>2. CASE i # Len(s.captured) + 1
        <4>1. i \in 1 .. Len(s.captured)
          BY <1>3, <3>2
        <4>2. QED  BY <1>3, <4>1 DEF CapturedFit
      <3>3. QED  BY <3>1, <3>2
    <2>2. QED  BY <1>3, <2>1
  <1>6. QED  BY <1>3, <1>4, <1>5 DEF CapturedFit

\* A slot is captured by the upvalue that is open on it, or by a new one.
LEMMA SlotCaptured ==
    ASSUME NEW n, NEW s, CapturedFit(s, n), NEW slot \in Nat, MayBeOpen(slot),
           NEW t, t = capture_upvalue(slot, s)
    PROVE  CapturedFit(t, n + 1)
  <1>1. PICK open, ups : open = s.open /\ ups = s.upvalues
    OBVIOUS
  <1>2. PICK above, created, u : /\ above = Walked(open, ups, slot + 1) /\ created = Len(ups) + 1
                                 /\ u = [location |-> slot, closed |-> Nil]
    OBVIOUS
  <1>3. /\ IsSequence(open) /\ IsSequence(ups) /\ Falling(ups, open)
        /\ \A i \in DOMAIN open : open[i] \in DOMAIN ups
        /\ \A x \in DOMAIN ups : UpvalueFits(ups[x], arrays, closures)
        /\ \A i \in DOMAIN open : ups[open[i]].location # ClosedUpvalue
        /\ \A x \in DOMAIN ups : ups[x].location # ClosedUpvalue
                                   => \E i \in DOMAIN open : open[i] = x
        /\ \A i \in DOMAIN open : MayBeOpen(ups[open[i]].location)
    BY <1>1 DEF CapturedFit, UpvaluesFit, ListFits
  <1>4. CASE above + 1 <= Len(open) /\ ups[open[above + 1]].location = slot
    <2>1. above + 1 \in DOMAIN open
      <3>1. PICK m : m = Len(open)
        OBVIOUS
      <3>2. m \in Nat /\ above \in 0 .. m /\ DOMAIN open = 1 .. m
        BY <1>2, <1>3, <3>1, WalkEnds, SequenceIsRow
      <3>3. QED  BY <1>4, <3>1, <3>2
    <2>2. open[above + 1] \in DOMAIN s.upvalues
      BY <1>1, <1>3, <2>1
    <2>3. t = CaptureState(s.upvalues, s.open, Pushed(s.captured, open[above + 1]))
      BY <1>1, <1>2, <1>4 DEF capture_upvalue, CapturedFit, CaptureState, Pushed
    <2>4. QED  BY <2>2, <2>3, OneMore
  <1>5. CASE ~(above + 1 <= Len(open) /\ ups[open[above + 1]].location = slot)
    <2>1. PICK ups2, open2 : ups2 = Pushed(ups, u) /\ open2 = ListWith(open, ups, slot, created)
      OBVIOUS
    <2>2. t = CaptureState(ups2, open2, Pushed(s.captured, created))
      BY <1>1, <1>2, <1>5, <2>1 DEF capture_upvalue, CaptureState, Pushed, ListWith
    <2>3. /\ IsSequence(ups2) /\ IsSequence(open2) /\ Falling(ups2, open2)
          /\ DOMAIN ups2 = DOMAIN ups \cup {created} /\ created \notin DOMAIN ups
          /\ ups2[created] = u /\ \A x \in DOMAIN ups : ups2[x] = ups[x]
          /\ \A i \in DOMAIN open2 : open2[i] = created \/ \E j \in DOMAIN open : open2[i] = open[j]
          /\ \A j \in DOMAIN open : \E i \in DOMAIN open2 : open2[i] = open[j]
          /\ \E i \in DOMAIN open2 : open2[i] = created
      <3>1. slot \in Int /\ u.location = slot
        BY <1>2
      <3>2. /\ IsSequence(ups) /\ IsSequence(open) /\ Falling(ups, open)
            /\ \A i \in DOMAIN open : open[i] \in DOMAIN ups
        BY <1>3
      <3>3. NoneOn(open, ups, slot)
        BY ONLY <1>2, <1>5, Zenon DEF NoneOn
      <3>4. created = Len(ups) + 1
        BY <1>2
      <3>5. ListHas(ups, open, u, created, ups2, open2)
        BY ONLY <2>1, <3>1, <3>2, <3>3, <3>4, ListGrown
      <3>6. QED  BY ONLY <3>5 DEF ListHas
    <2>4. UpvalueFits(u, arrays, closures) /\ u.location = slot /\ slot # ClosedUpvalue
      <3>1. IsValue(Nil, arrays, closures)
        BY Scalars, ScalarIsValue
      <3>2. slot # ClosedUpvalue
        BY DEF ClosedUpvalue
      <3>3. QED  BY <1>2, <3>1, <3>2 DEF UpvalueFits
    <2>5. \A x \in DOMAIN ups2 : UpvalueFits(ups2[x], arrays, closures)
      BY <1>3, <2>3, <2>4
    <2>6. \A i \in DOMAIN open2 : /\ open2[i] \in DOMAIN ups2
                                  /\ ups2[open2[i]].location # ClosedUpvalue
                                  /\ MayBeOpen(ups2[open2[i]].location)
      BY <1>3, <2>3, <2>4
    <2>7. \A x \in DOMAIN ups2 : ups2[x].location # ClosedUpvalue
                                    => \E i \in DOMAIN open2 : open2[i] = x
      BY <1>3, <2>3
    <2>8. UpvaluesFit(ups2, open2, arrays, closures) /\ ListFits(ups2, open2)
      BY <2>3, <2>5, <2>6, <2>7 DEF UpvaluesFit, ListFits
    <2>9. PICK w : w = CaptureState(ups2, open2, s.captured)
      OBVIOUS
    <2>10. CapturedFit(w, n)
      <3>1. /\ w.upvalues = ups2 /\ w.open = open2 /\ w.captured = s.captured
            /\ w = CaptureState(w.upvalues, w.open, w.captured)
        BY <2>9 DEF CaptureState
      <3>2. DOMAIN s.upvalues \subseteq DOMAIN ups2
        BY <1>1, <2>3
      <3>3. QED  BY <2>6, <2>8, <3>1, <3>2 DEF CapturedFit
    <2>11. /\ created \in DOMAIN w.upvalues
           /\ t = CaptureState(w.upvalues, w.open, Pushed(w.captured, created))
      BY <2>2, <2>3, <2>9 DEF CaptureState
    <2>12. QED  BY <2>10, <2>11, OneMore
  <1>6. QED  BY <1>4, <1>5

\* A word after a Closure that captures what is there.
WordCaptures(w, sh) ==
    /\ CaptureFits(function, w, sh)
    /\ w.op = "CaptureLocal" => w.operand \in CapturedSlots(function, frame.ip + 1, functions)

\* One word captures: a slot of this frame, or an upvalue of this function.
LEMMA WordCaptured ==
    ASSUME NEW shapes, Safe(shapes), status = "running", NEW w, NEW sh, WordCaptures(w, sh),
           NEW n, NEW s, CapturedFit(s, n), NEW t, t = capture(w, s)
    PROVE  CapturedFit(t, n + 1)
  <1>1. CaptureFits(function, w, sh) /\ w.operand \in Nat
    BY DEF WordCaptures, CaptureFits
  <1>2. CASE w.op = "CaptureLocal"
    <2>1. PICK slot, x, b : slot = b + x /\ x = w.operand /\ b = frame.base
      OBVIOUS
    <2>2. slot \in Nat /\ slot - b = x
      <3>1. b \in Nat
        BY <2>1, Here DEF FrameFits
      <3>2. x \in Nat
        BY <1>1, <2>1
      <3>3. QED  BY ONLY <2>1, <3>1, <3>2
    <2>3. MayBeOpen(slot)
      <3>1. slot - frame.base \in CapturedSlots(function, frame.ip + 1, functions)
        BY <1>2, <2>1, <2>2 DEF WordCaptures
      <3>2. QED  BY <3>1 DEF MayBeOpen
    <2>4. t = capture_upvalue(slot, s)
      BY <1>2, <2>1 DEF capture
    <2>5. QED  BY <2>2, <2>3, <2>4, SlotCaptured
  <1>3. CASE w.op # "CaptureLocal"
    <2>1. PICK x : x = closure.upvalues[w.operand + 1]
      OBVIOUS
    <2>2. w.operand + 1 \in DOMAIN function.upvalues
      BY <1>1, <1>3 DEF CaptureFits, HasUpvalue
    <2>3. x \in DOMAIN upvalues
      BY <2>1, <2>2, Here DEF ClosureFits
    <2>4. x \in DOMAIN s.upvalues
      BY <2>3 DEF CapturedFit
    <2>5. t = CaptureState(s.upvalues, s.open, Pushed(s.captured, x))
      BY <1>3, <2>1 DEF capture, CapturedFit, CaptureState, Pushed
    <2>6. QED  BY <2>4, <2>5, OneMore
  <1>4. QED  BY <1>2, <1>3

\* After all its words a Closure instruction has one upvalue for each.
LEMMA WordsCaptured ==
    ASSUME NEW shapes, Safe(shapes), status = "running", NEW words, NEW N \in Nat, N = Len(words),
           NEW sh, \A i \in 1 .. N : WordCaptures(words[i], sh)
    PROVE  CapturedFit(Captured(words), N)
  <1>1. PICK after : after = Capturing(words) /\ IsCapturing(after, words, N)
    BY CapturingSteps
  <1>2. PICK T : T = {n \in 0 .. N : CapturedFit(after[n], n)}
    OBVIOUS
  <1>3. \A k \in 0 .. N : after[k] = IF k = 0 THEN NothingCaptured
                                     ELSE capture(words[k], after[k - 1])
    BY <1>1 DEF IsCapturing
  <1>4. 0 \in T
    <2>1. after[0] = NothingCaptured
      BY <1>3
    <2>2. CapturedFit(NothingCaptured, 0)
      <3>1. /\ UpvaluesFit(upvalues, open_upvalues, arrays, closures)
            /\ ListFits(upvalues, open_upvalues)
            /\ \A i \in DOMAIN open_upvalues : MayBeOpen(upvalues[open_upvalues[i]].location)
        BY DEF Safe, ValuesInv, MayBeOpen
      <3>2. QED  BY <3>1, Empty DEF CapturedFit, CaptureState, NothingCaptured
    <2>3. QED  BY <1>2, <2>1, <2>2
  <1>5. ASSUME NEW n \in 0 .. N - 1, n \in T PROVE n + 1 \in T
    <2>1. n + 1 \in 1 .. N /\ n + 1 \in 0 .. N /\ n + 1 # 0 /\ n + 1 - 1 = n
      OBVIOUS
    <2>2. PICK k : k = n + 1
      OBVIOUS
    <2>3. k \in 1 .. N /\ k \in 0 .. N /\ k # 0 /\ k - 1 = n
      BY ONLY <2>2, n \in 0 .. N - 1, N \in Nat
    <2>4. after[k] = capture(words[k], after[n])
      BY <1>3, <2>3
    <2>5. CapturedFit(after[n], n) /\ WordCaptures(words[k], sh)
      BY <1>2, <1>5, <2>3
    <2>6. CapturedFit(after[k], n + 1)
      BY <2>4, <2>5, WordCaptured
    <2>7. QED  BY <1>2, <2>2, <2>3, <2>6
  <1>6. \A n \in 0 .. N : n \in T
    BY ONLY <1>4, <1>5, N \in Nat, CountUp
  <1>7. CapturedFit(after[N], N)
    BY <1>2, <1>6
  <1>8. QED  BY <1>1, <1>7, CapturedIs

\* The words that follow a Closure, and the function it makes a closure of.
LEMMA WordsHere ==
    ASSUME NEW shapes, Safe(shapes), status = "running", insn.op = "Closure",
           NEW made, made = constant[2],
           NEW words, words = SubSeq(function.code, frame.ip + 2,
                                     frame.ip + 1 + Len(functions[made].upvalues)),
           NEW sh, sh = ShapeOf(frame, closures, shapes)
    PROVE  /\ made \in DOMAIN functions
           /\ Len(functions[made].upvalues) \in Nat
           /\ DOMAIN functions[made].upvalues = 1 .. Len(functions[made].upvalues)
           /\ Len(words) = Len(functions[made].upvalues)
           /\ \A i \in 1 .. Len(words) : WordCaptures(words[i], sh)
           /\ frame.ip + (1 + Len(words)) + 1 \in Follows(function, frame.ip + 1, functions)
  <1>1. PICK k, n, ip : k = frame.ip + 1 /\ n = Len(functions[made].upvalues) /\ ip = frame.ip
    OBVIOUS
  <1>2. /\ ip \in Nat /\ k = ip + 1 /\ insn = function.code[k]
        /\ OperandFits(function, k, functions, sh)
        /\ FunctionFits(function, functions, shapes[closure.function])
    BY <1>1, Here DEF FrameFits, WordFits
  <1>3. /\ HasCode(function, insn.operand, functions)
        /\ \A j \in Captures(function, k, functions) :
               /\ j \in DOMAIN function.code
               /\ CaptureFits(function, function.code[j], sh)
    BY <1>2 DEF OperandFits
  <1>4. made \in DOMAIN functions
    BY <1>3 DEF HasCode, constant
  <1>5. n \in Nat /\ DOMAIN functions[made].upvalues = 1 .. n
    <2>1. IsSequence(functions[made].upvalues)
      BY <1>4 DEF Safe, Shaped, FunctionFits, IsSequence
    <2>2. QED  BY <1>1, <2>1, SequenceIsRow
  <1>6. function.constants[function.code[k].operand + 1][2] = made
    BY <1>2 DEF constant
  <1>7. Captures(function, k, functions) = k + 1 .. k + n
    BY ONLY <1>1, <1>6 DEF Captures
  <1>8. PICK code, len : code = function.code /\ len = Len(function.code)
    OBVIOUS
  <1>9. code \in Seq(Range(code)) /\ len \in Nat /\ len = Len(code) /\ DOMAIN code = 1 .. len
    <2>1. IsSequence(code)
      BY <1>2, <1>8 DEF FunctionFits, IsSequence
    <2>2. QED  BY <1>8, <2>1, SequenceIsRow DEF IsSequence
  <1>10. n # 0 => k + n <= len
    <2>1. n # 0 => k + n \in k + 1 .. k + n
      BY ONLY <1>2, <1>5
    <2>2. n # 0 => k + n \in 1 .. len
      BY <1>3, <1>7, <1>8, <1>9, <2>1
    <2>3. QED  BY <1>9, <2>2
  <1>11. Len(words) = n /\ \A i \in 1 .. n : words[i] = code[k + 1 + i - 1]
    <2>1. PICK lo, hi : lo = k + 1 /\ hi = k + n
      OBVIOUS
    <2>2. lo \in Nat \ {0} /\ hi \in Int /\ n = hi - lo + 1 /\ (n # 0 => hi <= Len(code))
      BY ONLY <1>2, <1>5, <1>9, <1>10, <2>1
    <2>3. words = SubSeq(code, lo, hi)
      <3>1. ip + 2 = lo /\ ip + 1 + n = hi
        BY ONLY <1>2, <1>5, <2>1
      <3>2. QED  BY <1>1, <1>8, <3>1
    <2>4. PICK S : S = Range(code)
      OBVIOUS
    <2>5. code \in Seq(S)
      BY <1>9, <2>4
    <2>6. Len(words) = n /\ \A i \in 1 .. n : words[i] = code[lo + i - 1]
      BY ONLY <1>5, <2>2, <2>3, <2>5, SliceOf
    <2>7. QED  BY <2>1, <2>6
  <1>12. ASSUME NEW i \in 1 .. n PROVE WordCaptures(words[i], sh)
    <2>1. PICK j : j = k + i
      OBVIOUS
    <2>2. j \in k + 1 .. k + n /\ k + 1 + i - 1 = j
      BY ONLY <1>2, <1>5, <2>1
    <2>3. words[i] = function.code[j] /\ j \in Captures(function, k, functions)
      BY <1>7, <1>8, <1>11, <2>2
    <2>4. CaptureFits(function, words[i], sh)
      BY <1>3, <2>3
    <2>5. words[i].op = "CaptureLocal" => words[i].operand \in CapturedSlots(function, k, functions)
      BY ONLY <2>3 DEF CapturedSlots
    <2>6. QED  BY <1>1, <2>4, <2>5 DEF WordCaptures
  <1>13. ip + (1 + n) + 1 \in Follows(function, k, functions)
    <2>1. k + 1 + n \in Follows(function, k, functions)
      BY <1>1, <1>2, <1>6 DEF Follows
    <2>2. ip + (1 + n) + 1 = k + 1 + n
      BY ONLY <1>2, <1>5
    <2>3. QED  BY <2>1, <2>2
  <1>14. QED  BY <1>1, <1>4, <1>5, <1>11, <1>12, <1>13

\* A function put together.
ClosureOf(made, captured) == [function |-> made, upvalues |-> captured]

\* A function made: its upvalues exist, and each one that is open is on a slot that
\* may be captured there.
LEMMA ClosureSafe ==
    ASSUME NEW shapes, Safe(shapes), Closure PROVE Safe(shapes)' /\ functions' = functions
  <1>1. PICK made : made = constant[2]
    OBVIOUS
  <1>2. PICK words : words = SubSeq(function.code, frame.ip + 2,
                                    frame.ip + 1 + Len(functions[made].upvalues))
    OBVIOUS
  <1>3. PICK s, N : s = Captured(words) /\ N = Len(words)
    OBVIOUS
  <1>4. PICK new, v, sh : /\ new = ClosureOf(made, s.captured)
                          /\ v = FunctionRef(Len(closures) + 1)
                          /\ sh = ShapeOf(frame, closures, shapes)
    OBVIOUS
  <1>5. /\ status = "running" /\ insn.op = "Closure"
        /\ stack' = Pushed(stack, v) /\ closures' = Pushed(closures, new)
        /\ upvalues' = s.upvalues /\ open_upvalues' = s.open
        /\ Continue(1 + N)
        /\ functions' = functions /\ globals' = globals /\ arrays' = arrays /\ UNCHANGED run_vars
    BY <1>1, <1>2, <1>3, <1>4 DEF Closure, Dispatch, Pushed, ClosureOf
  <1>6. /\ made \in DOMAIN functions
        /\ N \in Nat /\ DOMAIN functions[made].upvalues = 1 .. N
        /\ \A i \in 1 .. N : WordCaptures(words[i], sh)
        /\ frame.ip + (1 + N) + 1 \in Follows(function, frame.ip + 1, functions)
    BY <1>1, <1>2, <1>3, <1>4, <1>5, WordsHere
  <1>7. CapturedFit(s, N)
    BY <1>3, <1>5, <1>6, WordsCaptured
  <1>8. PICK clos2 : clos2 = closures'
    OBVIOUS
  <1>9. /\ IsSequence(clos2) /\ Len(closures) \in Nat
        /\ DOMAIN closures = 1 .. Len(closures) /\ DOMAIN clos2 = 1 .. Len(closures) + 1
        /\ Len(clos2) = Len(closures) + 1 /\ clos2[Len(closures) + 1] = new
        /\ \A c \in 1 .. Len(closures) : clos2[c] = closures[c]
    <2>1. PICK clos : clos = closures
      OBVIOUS
    <2>2. IsSequence(clos) /\ clos2 = Pushed(clos, new)
      BY <1>5, <1>8, <2>1 DEF Safe, ValuesInv, ClosuresFit
    <2>3. /\ IsSequence(clos2) /\ Len(clos2) = Len(clos) + 1 /\ Len(clos) \in Nat
          /\ DOMAIN clos = 1 .. Len(clos) /\ DOMAIN clos2 = 1 .. Len(clos) + 1
          /\ clos2[Len(clos2)] = new
          /\ \A i \in 1 .. Len(clos) : clos2[i] = clos[i]
      BY ONLY <2>2, Appended
    <2>4. QED  BY <2>1, <2>3
  <1>10. /\ DOMAIN closures \subseteq DOMAIN clos2 /\ Len(closures) + 1 \in DOMAIN clos2
         /\ \A c \in DOMAIN closures : c \in DOMAIN clos2 /\ clos2[c] = closures[c]
    BY <1>9
  <1>11. /\ UpvaluesFit(upvalues', open_upvalues', arrays, closures)
         /\ ListFits(upvalues', open_upvalues')
         /\ DOMAIN upvalues \subseteq DOMAIN upvalues'
         /\ DOMAIN s.captured = 1 .. N
         /\ \A i \in 1 .. N : s.captured[i] \in DOMAIN upvalues'
         /\ \A i \in DOMAIN open_upvalues' : MayBeOpen(upvalues'[open_upvalues'[i]].location)
    BY <1>5, <1>7, SequenceIsRow DEF CapturedFit
  <1>12. ClosuresFit(clos2, upvalues', functions)
    <2>1. ClosureFits(new, upvalues', functions)
      BY <1>4, <1>6, <1>11 DEF ClosureFits, ClosureOf
    <2>2. ASSUME NEW c \in DOMAIN closures PROVE ClosureFits(closures[c], upvalues', functions)
      BY <1>11 DEF Safe, ValuesInv, ClosuresFit, ClosureFits
    <2>3. ASSUME NEW c \in 1 .. Len(closures) + 1 PROVE ClosureFits(clos2[c], upvalues', functions)
      <3>1. CASE c = Len(closures) + 1
        BY <1>9, <2>1, <3>1
      <3>2. CASE c # Len(closures) + 1
        <4>1. c \in 1 .. Len(closures)
          BY <1>9, <3>2
        <4>2. QED  BY <1>9, <2>2, <4>1
      <3>3. QED  BY <3>1, <3>2
    <2>4. QED  BY <1>9, <2>3 DEF ClosuresFit
  <1>13. /\ StackFits(stack, arrays, clos2) /\ GlobalsFit(globals, arrays, clos2)
         /\ UpvaluesFit(upvalues', open_upvalues', arrays, clos2) /\ ArraysFit(arrays, clos2)
    <2>1. PICK ups2, open2 : ups2 = upvalues' /\ open2 = open_upvalues'
      OBVIOUS
    <2>2. UpvaluesFit(ups2, open2, arrays, clos2)
      BY <1>10, <1>11, <2>1, ValuesGrown
    <2>3. QED  BY <1>10, <2>1, <2>2, ValuesHere, ValuesGrown
  <1>14. PICK st2 : st2 = stack'
    OBVIOUS
  <1>15. StackFits(st2, arrays, clos2) /\ Len(st2) = Len(stack) + 1 /\ Len(stack) \in Nat
    <2>1. IsValue(v, arrays, clos2)
      BY <1>4, <1>10 DEF IsValue, FunctionRef
    <2>2. st2 = Pushed(stack, v)
      BY <1>5, <1>14
    <2>3. QED  BY ONLY <1>13, <2>1, <2>2, PushedFits
  <1>16. ValuesInv'
    BY <1>5, <1>8, <1>11, <1>12, <1>13, <1>14, <1>15 DEF ValuesInv
  <1>17. CapturedNext(shapes) = sh.captured \cup CapturedSlots(function, frame.ip + 1, functions)
    <2>1. function.code[frame.ip + 1] = insn
      BY <1>5, Here
    <2>2. QED  BY <1>4, <1>5, <2>1 DEF CapturedNext, CapturedAfter
  <1>18. ASSUME NEW i \in DOMAIN open_upvalues'
         PROVE  \/ upvalues'[open_upvalues'[i]].location - frame.base \in CapturedNext(shapes)
                \/ /\ Placed(upvalues'[open_upvalues'[i]].location, frames, closures, shapes)
                   /\ upvalues'[open_upvalues'[i]].location - frame.base
                          \in ShapeOf(frame, closures, shapes).captured
                      => upvalues'[open_upvalues'[i]].location - frame.base
                             \in CapturedNext(shapes)
    <2>1. PICK l : l = upvalues'[open_upvalues'[i]].location
      OBVIOUS
    <2>2. MayBeOpen(l)
      BY <1>11, <2>1
    <2>3. CASE \E j \in DOMAIN open_upvalues : l = upvalues[open_upvalues[j]].location
      BY <1>4, <1>17, <2>1, <2>3 DEF Safe, OpenFits
    <2>4. CASE l - frame.base \in CapturedSlots(function, frame.ip + 1, functions)
      BY <1>17, <2>1, <2>4
    <2>5. QED  BY <2>2, <2>3, <2>4 DEF MayBeOpen
  <1>19. PICK ip : ip = frame.ip + (1 + N)
    OBVIOUS
  <1>20. /\ ip \in Int /\ ip + 1 \in Follows(function, frame.ip + 1, functions)
         /\ frames' = WithIp(frames, ip)
    BY <1>5, <1>6, <1>19, Here, Continued DEF FrameFits
  <1>21. Len(stack') = Len(stack) - Takes(insn) + Gives(insn)
    <2>1. Takes(insn) = 0 /\ Gives(insn) = 1
      BY <1>5 DEF Takes, Gives, Unaries, Arithmetic
    <2>2. QED  BY <1>14, <1>15, <2>1
  <1>22. \A c \in DOMAIN closures : c \in DOMAIN closures' /\ closures'[c] = closures[c]
    BY <1>8, <1>10
  <1>23. QED  BY <1>5, <1>16, <1>18, <1>20, <1>21, <1>22, MoveSafe

-----------------------------------------------------------------------------
(* The machine.                                                            *)

\* One frame that fits, on a stack that has its values alone.
LEMMA OneFrame ==
    ASSUME NEW f, NEW clos, NEW shapes, FrameFits(f, clos, shapes), f.base = 0,
           NEW h \in Nat, ShapeOf(f, clos, shapes).height = h, NEW frs, frs = <<f>>
    PROVE  FramesFit(frs, h, clos, shapes) /\ frs # <<>> /\ Len(frs) = 1
  <1>1. /\ IsSequence(frs) /\ frs # <<>> /\ Len(frs) = 1 /\ DOMAIN frs = {1} /\ frs[1] = f
    BY Single
  <1>2. frs[1].base + ShapeOf(frs[1], clos, shapes).height = Ends(frs, h, 1)
    BY <1>1 DEF Ends
  <1>3. QED  BY <1>1, <1>2 DEF FramesFit

\* A host calls a global function, once the machine is empty.
LEMMA EntrySafe ==
    ASSUME NEW shapes, Safe(shapes), call_global PROVE Safe(shapes)' /\ functions' = functions
  <1>1. /\ status # "running" /\ calls' = calls + 1
        /\ functions' = functions /\ closures' = closures /\ globals' = globals
        /\ arrays' = arrays /\ upvalues' = upvalues /\ open_upvalues' = open_upvalues
    BY DEF call_global, object_vars, upvalue_vars
  <1>2. uncounted_frames' \in {0, uncounted_frames}
    BY DEF call_global
  <1>3. stack = <<>> /\ frames = <<>> /\ Len(stack) = 0
    BY <1>1, Empty DEF Safe, StatusInv
  <1>4. DOMAIN open_upvalues' = {}
    BY <1>1, OpenOnStack
  <1>5. /\ MaxCallDepth \in Nat \ {0} /\ uncounted_frames' \in {0, 1} /\ calls' \in Nat
    BY <1>1, <1>2, Room DEF Safe, StatusInv
  <1>6. 0 <= MaxCallDepth + uncounted_frames' /\ 1 <= MaxCallDepth + uncounted_frames'
    <2>1. PICK d, u : d = MaxCallDepth /\ u = uncounted_frames'
      OBVIOUS
    <2>2. d \in Nat \ {0} /\ u \in {0, 1}
      BY <1>5, <2>1
    <2>3. 0 <= d + u /\ 1 <= d + u
      BY ONLY <2>2
    <2>4. QED  BY <2>1, <2>3
  <1>7. ASSUME StackFits(stack', arrays, closures) PROVE ValuesInv'
    BY <1>1, <1>7 DEF Safe, ValuesInv
  <1>8. OpenFits(upvalues', open_upvalues', frames', closures', shapes)
    BY <1>4 DEF OpenFits
  <1>9. CASE EntryError # NoError
    <2>1. status' = "failed" /\ stack' = <<>> /\ frames' = <<>>
      BY <1>3, <1>9 DEF call_global
    <2>2. StackFits(<<>>, arrays, closures) /\ FramesFit(<<>>, Len(stack'), closures', shapes)
      BY Empty DEF StackFits, FramesFit
    <2>3. ValuesInv'
      BY <1>7, <2>1, <2>2
    <2>4. StatusInv'
      <3>1. Len(frames') = 0
        BY <2>1, Empty
      <3>2. Len(frames') <= MaxCallDepth + uncounted_frames'
        BY <1>6, <3>1
      <3>3. QED  BY <1>5, <2>1, <3>2 DEF StatusInv
    <2>5. QED  BY <1>1, <1>8, <2>1, <2>2, <2>3, <2>4 DEF Safe
  <1>10. CASE EntryError = NoError
    <2>1. PICK v, f : v = globals[Entry] /\ f = NewFrame(v, 0)
      OBVIOUS
    <2>2. /\ status' = "running" /\ stack' = Append(stack, v) /\ frames' = <<f>>
      BY <1>3, <1>10, <2>1 DEF call_global
    <2>3. Entry \in DOMAIN globals /\ CallError(v, 0, 1, 0) = NoError
      <3>1. undefined_variable(Entry) # NoError
        BY DEF undefined_variable, NoError
      <3>2. ~Undefined /\ CallError(v, 0, Len(stack) + 1, 0) = NoError
        BY <1>10, <2>1, <3>1 DEF EntryError
      <3>3. Len(stack) + 1 = 1
        BY <1>3
      <3>4. QED  BY <3>2, <3>3 DEF Undefined
    <2>4. IsValue(v, arrays, closures)
      BY <2>1, <2>3, ValuesHere DEF GlobalsFit
    <2>5. Is("function", v) /\ CodeOf(v).arity = 0
      <3>1. \/ Is("native", v) /\ Natives[v[2]] = 0
            \/ Is("function", v) /\ CodeOf(v).arity = 0
        BY <2>3, CallPossible
      <3>2. ~(Is("native", v) /\ Natives[v[2]] = 0)
        <4>1. Is("native", v) => v[2] \in DOMAIN Natives
          BY <2>4, Contents
        <4>2. QED  BY <4>1 DEF Natives
      <3>3. QED  BY <3>1, <3>2
    <2>6. /\ FrameFits(f, closures, shapes) /\ f.base = 0
          /\ ShapeOf(f, closures, shapes).height = 1
      <3>1. 0 + FrameSlots <= call_limit /\ 0 \in Nat
        BY Room
      <3>2. FrameFits(f, closures, shapes) /\ f.base = 0
            /\ ShapeOf(f, closures, shapes).height = CodeOf(v).arity + 1
        BY <2>1, <2>4, <2>5, <3>1, FirstWord
      <3>3. QED  BY <2>5, <3>2
    <2>7. PICK frs2, st2 : frs2 = frames' /\ st2 = stack'
      OBVIOUS
    <2>8. FramesFit(frs2, 1, closures, shapes) /\ frs2 # <<>> /\ Len(frs2) = 1
      <3>1. 1 \in Nat /\ frs2 = <<f>>
        BY <2>2, <2>7
      <3>2. QED  BY ONLY <2>6, <3>1, OneFrame
    <2>9. StackFits(st2, arrays, closures) /\ Len(st2) = 1
      <3>1. st2 = Pushed(stack, v) /\ StackFits(stack, arrays, closures)
        BY <2>2, <2>7, ValuesHere DEF Pushed
      <3>2. StackFits(st2, arrays, closures) /\ Len(st2) = Len(stack) + 1
        BY ONLY <2>4, <3>1, PushedFits
      <3>3. QED  BY <1>3, <3>2
    <2>10. ValuesInv'
      BY <1>7, <2>7, <2>9
    <2>11. StatusInv'
      <3>1. Len(frames') <= MaxCallDepth + uncounted_frames'
        BY <1>6, <2>7, <2>8
      <3>2. QED  BY <1>5, <2>2, <2>7, <2>8, <3>1 DEF StatusInv
    <2>12. Shaped(functions', shapes)
      BY <1>1 DEF Safe
    <2>13. QED  BY <1>1, <1>8, <2>7, <2>8, <2>9, <2>10, <2>11, <2>12 DEF Safe
  <1>11. QED  BY <1>9, <1>10

\* Every instruction keeps to the shapes of the code.
LEMMA StepSafe ==
    ASSUME NEW shapes, Safe(shapes), LengthsFit, Step PROVE Safe(shapes)' /\ functions' = functions
  <1>1. CASE Const \/ Literals \/ GetLocal \/ GetGlobal \/ GetUpvalue
    BY <1>1, LoadsSafe
  <1>2. CASE Pop
    BY <1>2, PopSafe
  <1>3. CASE SetLocal
    BY <1>3, SetLocalSafe
  <1>4. CASE SetGlobal \/ DefineGlobal \/ GlobalFails
    BY <1>4, GlobalsSafe
  <1>5. CASE SetUpvalue
    BY <1>5, SetUpvalueSafe
  <1>6. CASE BINARY_OP \/ UnaryOp \/ IndexGet
    BY <1>6, OperationsSafe
  <1>7. CASE Jump \/ JumpIfFalse \/ Loop
    BY <1>7, JumpsSafe
  <1>8. CASE Array
    BY <1>8, ArraySafe
  <1>9. CASE IndexSet
    BY <1>9, IndexSetSafe
  <1>10. CASE PrintValue
    BY <1>10, PrintSafe
  <1>11. CASE Closure
    BY <1>11, ClosureSafe
  <1>12. CASE CloseUpvalue
    BY <1>12, CloseUpvalueSafe
  <1>13. CASE CallClosure
    BY <1>13, CallClosureSafe
  <1>14. CASE CallNativeFunction
    BY <1>14, NativeSafe
  <1>15. CASE CallFails
    BY <1>15, FailSafe DEF CallFails
  <1>16. CASE Return
    BY <1>16, ReturnSafe
  <1>17. QED
    BY <1>1, <1>2, <1>3, <1>4, <1>5, <1>6, <1>7, <1>8, <1>9, <1>10, <1>11, <1>12, <1>13, <1>14,
       <1>15, <1>16 DEF Step

\* The machine with its first frame, of the script.
LEMMA SafeInit ==
    ASSUME NEW shapes, Shaped(functions, shapes), run(functions) PROVE Safe(shapes)
  <1>1. PICK n, script, c, f : /\ n = Len(functions) /\ script = functions[n]
                               /\ c = [function |-> n, upvalues |-> <<>>]
                               /\ f = [closure |-> 1, ip |-> 0, base |-> 0]
    OBVIOUS
  <1>2. /\ globals = [x \in DOMAIN Natives |-> NativeRef(x)]
        /\ arrays = <<>> /\ closures = <<c>> /\ upvalues = <<>> /\ open_upvalues = <<>>
        /\ stack = <<FunctionRef(1)>> /\ frames = <<f>>
        /\ uncounted_frames = 1 /\ status = "running" /\ calls = 0
    BY <1>1 DEF run
  <1>3. n \in DOMAIN functions
    <2>1. IsSequence(functions) /\ functions # <<>>
      BY DEF Shaped, IsSequence
    <2>2. PICK fs : fs = functions
      OBVIOUS
    <2>3. Len(fs) \in DOMAIN fs
      BY <2>1, <2>2 DEF IsSequence
    <2>4. QED  BY <1>1, <2>2, <2>3
  <1>4. script.upvalues = <<>> /\ script.arity = 0
    BY <1>1 DEF Shaped, Last
  <1>5. 1 \in DOMAIN shapes[n] /\ shapes[n][1].height = 1
    BY <1>1, <1>3, <1>4 DEF Shaped, FunctionFits
  <1>6. IsSequence(closures) /\ DOMAIN closures = {1} /\ closures[1] = c
    BY <1>2, Single
  <1>7. IsSequence(stack) /\ Len(stack) = 1 /\ DOMAIN stack = {1} /\ stack[1] = FunctionRef(1)
    BY <1>2, Single
  <1>8. ValuesInv
    <2>1. StackFits(stack, arrays, closures)
      <3>1. IsValue(FunctionRef(1), arrays, closures)
        BY <1>6 DEF IsValue, FunctionRef
      <3>2. QED  BY <1>7, <3>1 DEF StackFits
    <2>2. GlobalsFit(globals, arrays, closures)
      BY <1>2 DEF GlobalsFit, IsValue, NativeRef
    <2>3. ArraysFit(arrays, closures) /\ UpvaluesFit(upvalues, open_upvalues, arrays, closures)
      BY <1>2, Empty DEF ArraysFit, UpvaluesFit
    <2>4. ListFits(upvalues, open_upvalues)
      <3>1. Falling(<<>>, <<>>)
        BY Empty DEF Falling, Descending
      <3>2. QED  BY <1>2, <3>1, Empty DEF ListFits
    <2>5. ClosuresFit(closures, upvalues, functions)
      BY <1>1, <1>3, <1>4, <1>6, Empty DEF ClosuresFit, ClosureFits
    <2>6. QED  BY <2>1, <2>2, <2>3, <2>4, <2>5 DEF ValuesInv
  <1>9. FramesFit(frames, 1, closures, shapes) /\ frames # <<>> /\ Len(frames) = 1
    <2>1. PICK clos, frs : clos = closures /\ frs = frames
      OBVIOUS
    <2>2. FrameFits(f, clos, shapes)
      BY <1>1, <1>5, <1>6, <2>1, Room DEF FrameFits
    <2>3. ShapeOf(f, clos, shapes).height = 1
      BY <1>1, <1>5, <1>6, <2>1 DEF ShapeOf
    <2>4. f.base = 0 /\ 1 \in Nat /\ frs = <<f>>
      BY <1>1, <1>2, <2>1
    <2>5. FramesFit(frs, 1, clos, shapes) /\ frs # <<>> /\ Len(frs) = 1
      BY ONLY <2>2, <2>3, <2>4, OneFrame
    <2>6. QED  BY <2>1, <2>5
  <1>10. OpenFits(upvalues, open_upvalues, frames, closures, shapes)
    BY <1>2, Empty DEF OpenFits
  <1>11. StatusInv
    <2>1. 1 <= MaxCallDepth + 1
      BY Room
    <2>2. QED  BY <1>2, <1>9, <2>1 DEF StatusInv
  <1>12. QED  BY <1>7, <1>8, <1>9, <1>10, <1>11 DEF Safe

\* And so does every step.
LEMMA SafeNext ==
    ASSUME NEW shapes, Safe(shapes), LengthsFit, [MachineNext]_machine
    PROVE  Safe(shapes)' /\ functions' = functions
  <1>1. CASE Step
    BY <1>1, StepSafe
  <1>2. CASE call_global
    BY <1>2, EntrySafe
  <1>3. CASE UNCHANGED machine
    <2>1. /\ functions' = functions /\ globals' = globals /\ arrays' = arrays
          /\ closures' = closures /\ upvalues' = upvalues /\ open_upvalues' = open_upvalues
          /\ stack' = stack /\ frames' = frames /\ uncounted_frames' = uncounted_frames
          /\ status' = status /\ calls' = calls
      BY <1>3 DEF machine
    <2>2. ValuesInv' /\ StatusInv'
      BY <2>1 DEF Safe, ValuesInv, StatusInv
    <2>3. QED  BY <2>1, <2>2 DEF Safe
  <1>4. QED  BY <1>1, <1>2, <1>3 DEF MachineNext

-----------------------------------------------------------------------------
(* The properties.                                                         *)

SafeInv == \E shapes : Safe(shapes)

LEMMA SafeInvInit == MachineInit => SafeInv
  BY SafeInit DEF MachineInit, WellFormed, SafeInv

LEMMA SafeInvNext == SafeInv /\ LengthsFit /\ [MachineNext]_machine => SafeInv'
  <1> SUFFICES ASSUME SafeInv, LengthsFit, [MachineNext]_machine PROVE SafeInv'
    OBVIOUS
  <1>1. PICK shapes : Safe(shapes)
    BY DEF SafeInv
  <1>2. Safe(shapes)'
    BY <1>1, SafeNext
  <1>3. QED  BY <1>2 DEF SafeInv

LEMMA SafeOpen == SafeInv => OpenUpvaluesOnStack
  <1> SUFFICES ASSUME SafeInv, NEW i \in DOMAIN open_upvalues
               PROVE  /\ location(open_upvalues[i]) \in 0 .. Len(stack) - 1
                      /\ \A j \in 1 .. i - 1 : location(open_upvalues[j]) > location(open_upvalues[i])
    BY DEF OpenUpvaluesOnStack
  <1>1. PICK shapes : Safe(shapes)
    BY DEF SafeInv
  <1>2. PICK ups, open, n, m : /\ ups = upvalues /\ open = open_upvalues /\ n = Len(open)
                               /\ m = Len(stack)
    OBVIOUS
  <1>3. \A u : location(u) = ups[u].location
    BY <1>2 DEF location
  <1>4. ups[open[i]].location \in 0 .. m - 1
    <2>1. PICK l : l = ups[open[i]].location
      OBVIOUS
    <2>2. l \in Nat /\ l < m /\ m \in Nat
      BY <1>1, <1>2, <2>1, OpenOnStack, ValuesHere
    <2>3. QED  BY <2>1, <2>2
  <1>5. /\ n \in Nat /\ DOMAIN open = 1 .. n
        /\ \A j, k \in 1 .. n : j < k => ups[open[j]].location > ups[open[k]].location
    <2>1. IsSequence(open) /\ Falling(ups, open)
      BY <1>1, <1>2 DEF Safe, ValuesInv, UpvaluesFit, ListFits
    <2>2. QED  BY <1>2, <2>1, FallingOf
  <1>6. ASSUME NEW j \in 1 .. i - 1 PROVE ups[open[j]].location > ups[open[i]].location
    <2>1. i \in 1 .. n
      BY <1>2, <1>5
    <2>2. j \in 1 .. n /\ j < i
      BY ONLY <1>5, <2>1, j \in 1 .. i - 1
    <2>3. QED  BY <1>5, <2>1, <2>2
  <1>7. QED  BY <1>2, <1>3, <1>4, <1>6

LEMMA SafeType == SafeInv /\ LengthsFit => TypeOK
  <1> SUFFICES ASSUME SafeInv, LengthsFit PROVE TypeOK
    OBVIOUS
  <1>1. PICK shapes : Safe(shapes)
    BY DEF SafeInv
  <1>2. status \in {"running", "finished", "failed"} /\ calls \in Nat
    BY <1>1 DEF Safe, StatusInv
  <1>3. ASSUME NEW f \in ToSet(frames) PROVE f.closure \in DOMAIN closures /\ f.base \in Nat
    <2>1. PICK k \in DOMAIN frames : f = frames[k]
      BY DEF ToSet
    <2>2. QED  BY <1>1, <2>1 DEF Safe, FramesFit, FrameFits
  <1>4. ToSet(open_upvalues) = {u \in DOMAIN upvalues : location(u) # ClosedUpvalue}
    <2>1. ASSUME NEW u \in ToSet(open_upvalues)
          PROVE  u \in DOMAIN upvalues /\ location(u) # ClosedUpvalue
      <3>1. PICK i \in DOMAIN open_upvalues : u = open_upvalues[i]
        BY DEF ToSet
      <3>2. QED  BY <1>1, <3>1 DEF Safe, ValuesInv, UpvaluesFit, ListFits, location
    <2>2. ASSUME NEW u \in DOMAIN upvalues, location(u) # ClosedUpvalue
          PROVE  u \in ToSet(open_upvalues)
      <3>1. PICK i \in DOMAIN open_upvalues : open_upvalues[i] = u
        BY <1>1, <2>2 DEF Safe, ValuesInv, ListFits, location
      <3>2. QED  BY <3>1 DEF ToSet
    <2>3. QED  BY <2>1, <2>2
  <1>5. QED  BY <1>2, <1>3, <1>4 DEF TypeOK

LEMMA SafeFrame == SafeInv => StaysInFrame
  <1> SUFFICES ASSUME SafeInv, status = "running"
               PROVE  /\ frame.ip < Len(function.code)
                      /\ Takes(insn) <= Len(stack) - frame.base
                      /\ insn.op \in {"GetLocal", "SetLocal"}
                         => frame.base + insn.operand < Len(stack)
    BY DEF StaysInFrame
  <1>1. PICK shapes : Safe(shapes)
    BY DEF SafeInv
  <1>2. PICK ip, len, b, h, m, t, x : /\ ip = frame.ip /\ len = Len(function.code) /\ b = frame.base
                                      /\ h = ShapeOf(frame, closures, shapes).height
                                      /\ m = Len(stack) /\ t = Takes(insn) /\ x = insn.operand
    OBVIOUS
  <1>3. ip < len
    <2>1. ip \in Nat /\ ip + 1 \in DOMAIN function.code
      BY <1>1, <1>2, Here DEF FrameFits, WordFits
    <2>2. IsSequence(function.code)
      BY <1>1, Here DEF FunctionFits, IsSequence
    <2>3. len \in Nat /\ DOMAIN function.code = 1 .. len
      BY <1>2, <2>2, SequenceIsRow
    <2>4. QED  BY <2>1, <2>3
  <1>4. /\ b \in Nat /\ h \in Nat /\ m = b + h /\ t \in Nat /\ t <= h /\ x \in Nat
    BY <1>1, <1>2, TakenHere
  <1>5. t <= m - b
    BY ONLY <1>4
  <1>6. ASSUME insn.op \in {"GetLocal", "SetLocal"} PROVE b + x < m
    <2>1. /\ OperandFits(function, ip + 1, functions, ShapeOf(frame, closures, shapes))
          /\ function.code[ip + 1] = insn
      BY <1>1, <1>2, Here DEF WordFits
    <2>2. x < h
      BY <1>2, <1>6, <2>1 DEF OperandFits
    <2>3. QED  BY ONLY <1>4, <2>2
  <1>7. QED  BY <1>2, <1>3, <1>5, <1>6

\* The invariant with shapes that are low.
LowInv == \E shapes : Safe(shapes) /\ Low(functions, shapes)

LEMMA LowInit == MachineInit /\ FewTemporaries(functions) => LowInv
  BY SafeInit DEF MachineInit, FewTemporaries, LowInv

LEMMA LowNext == LowInv /\ LengthsFit /\ [MachineNext]_machine => LowInv'
  <1> SUFFICES ASSUME LowInv, LengthsFit, [MachineNext]_machine PROVE LowInv'
    OBVIOUS
  <1>1. PICK shapes : Safe(shapes) /\ Low(functions, shapes)
    BY DEF LowInv
  <1>2. Safe(shapes)' /\ functions' = functions
    BY <1>1, SafeNext
  <1>3. Low(functions, shapes)'
    BY <1>1, <1>2 DEF Low
  <1>4. QED  BY <1>2, <1>3 DEF LowInv

LEMMA LowRoom == LowInv => StackHasRoom
  <1> SUFFICES ASSUME LowInv PROVE StackHasRoom
    OBVIOUS
  <1>1. PICK shapes : Safe(shapes) /\ Low(functions, shapes)
    BY DEF LowInv
  <1>2. PICK m, slots, limit, size, slack :
            /\ m = Len(stack) /\ slots = StackSlots /\ limit = call_limit /\ size = FrameSlots
            /\ slack = TempSlack
    OBVIOUS
  <1>3. /\ limit \in Nat /\ slots = limit + slack /\ size \in Nat /\ slack \in Nat
        /\ MaxCallDepth \in Nat
    BY <1>2, Room
  <1>4. m <= slots
    <2>1. CASE status = "running"
      <3>1. PICK b, h : b = frame.base /\ h = ShapeOf(frame, closures, shapes).height
        OBVIOUS
      <3>2. b \in Nat /\ h \in Nat /\ m = b + h
        BY <1>1, <1>2, <2>1, <3>1, TakenHere
      <3>3. b + size <= limit
        BY <1>1, <1>2, <2>1, <3>1, Here DEF FrameFits
      <3>4. h <= size + slack
        <4>1. closure.function \in DOMAIN functions
          BY <1>1, <2>1, Here DEF ClosureFits
        <4>2. frame.ip + 1 \in DOMAIN shapes[closure.function]
          BY <1>1, <2>1, Here DEF FrameFits
        <4>3. h = shapes[closure.function][frame.ip + 1].height
          BY <1>1, <2>1, <3>1, Here
        <4>4. shapes[closure.function][frame.ip + 1].height <= FrameSlots + TempSlack
          BY <1>1, <4>1, <4>2 DEF Low
        <4>5. QED  BY <1>2, <4>3, <4>4
      <3>5. QED  BY ONLY <1>3, <3>2, <3>3, <3>4
    <2>2. CASE status # "running"
      <3>1. m = 0
        BY <1>1, <1>2, <2>2, Empty DEF Safe, StatusInv
      <3>2. QED  BY ONLY <1>3, <3>1
    <2>3. QED  BY <2>1, <2>2
  <1>5. Len(frames) <= MaxCallDepth + 1
    <2>1. PICK p, u, d : p = Len(frames) /\ u = uncounted_frames /\ d = MaxCallDepth
      OBVIOUS
    <2>2. p <= d + u /\ u \in {0, 1} /\ d \in Nat
      BY <1>1, <1>3, <2>1 DEF Safe, StatusInv
    <2>3. p \in Nat
      <3>1. PICK frs : frs = frames
        OBVIOUS
      <3>2. IsSequence(frs)
        BY <1>1, <3>1 DEF Safe, FramesFit
      <3>3. QED  BY <2>1, <3>1, <3>2, SequenceIsRow
    <2>4. p <= d + 1
      BY ONLY <2>2, <2>3
    <2>5. QED  BY <2>1, <2>4
  <1>6. QED  BY <1>2, <1>4, <1>5 DEF StackHasRoom

\* An open upvalue is on a slot in use, and the list of them is by falling slot,
\* for all code that has shapes and any number of calls from outside: a variable
\* is closed before its slot is left (close_upvalues).
THEOREM AlwaysOnStack == MachineSpec /\ []LengthsFit => []OpenUpvaluesOnStack
  <1>1. QED  BY SafeInvInit, SafeInvNext, SafeOpen, PTL DEF MachineSpec

\* The variables hold what the machine can hold, and the list has every upvalue
\* that is open: one that left it is never read through its slot.
THEOREM TypeCorrect == MachineSpec /\ []LengthsFit => []TypeOK
  <1>1. QED  BY SafeInvInit, SafeInvNext, SafeType, PTL DEF MachineSpec

\* The machine never leaves its code, and an instruction takes no value and names
\* no slot that is not its frame's, which it does not check.
THEOREM AlwaysInFrame == MachineSpec /\ []LengthsFit => []StaysInFrame
  <1>1. QED  BY SafeInvInit, SafeInvNext, SafeFrame, PTL DEF MachineSpec

\* No push goes past the value stack: the check a call makes is enough for all
\* that its frame pushes, of code with few temporaries.
THEOREM AlwaysHasRoom ==
    MachineSpec /\ FewTemporaries(functions) /\ []LengthsFit => []StackHasRoom
  <1>1. QED  BY LowInit, LowNext, LowRoom, PTL DEF MachineSpec
=============================================================================
