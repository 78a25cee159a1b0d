--------------------------- MODULE TreeRootsProofs ---------------------------
(***************************************************************************)
(* The tree-walking engine loses nothing it needs and keeps to the heap's  *)
(* contract, for every program, every set of addresses and strings, and    *)
(* calls and expressions nested to any depth.                              *)
(***************************************************************************)
EXTENDS TreeRoots, QueueTheorems, TLAPS

-----------------------------------------------------------------------------
(* The inductive invariant.                                                *)

\* The scopes there are, and the objects that are values.
ScopeObjects == {o \in objects : kind[o] = "environment"}
ValueObjects == {o \in objects : kind[o] # "environment"}

\* Values and scopes that a C++ variable may have.
SomeValue == ValueObjects \cup {Null}
SomeScope == ScopeObjects \cup {Null}

\* How many operands a call keeps.
HeldCount(a) ==
    CASE a \in {"right", "index", "subscript", "arguments", "called", "native"} -> 1
      [] a \in {"operands", "element"} -> 2
      [] OTHER -> 0

\* Everything the engine has is allocated, and of the right kind.
ContentsInv ==
    /\ objects \subseteq Address
    /\ kind \in [Address -> Text \cup {"free", "environment", "function", "array"}]
    /\ link \in [Address -> Value] /\ contents \in [Address -> SUBSET Address]
    /\ \A o \in objects : link[o] \in SomeScope /\ contents[o] \subseteq ValueObjects
    /\ globals \subseteq ValueObjects
    /\ names \subseteq ValueObjects /\ \A o \in names : kind[o] \in Text
    /\ active \in Seq(objects) /\ stack \in Seq(SomeValue) /\ temps \in Seq(SomeValue)
    /\ returned \in SomeValue /\ value \in SomeValue

\* Where a call that begins now has its roots.
Now == Frame("exec", Null)

\* How the roots of calls lie to each other.
SameLevel(f, g) == f.temps = g.temps /\ f.active = g.active /\ f.stack = g.stack
Below(f, g) == f.temps <= g.temps /\ f.active <= g.active /\ f.stack <= g.stack

\* The roots of a call f, if those of the calls inside it begin at g: its
\* operands are its TempRoots t, its scope is among the active ones a.
Owns(f, g, t, a, scopes) ==
    /\ f.env \in scopes
    /\ Len(f.held) = HeldCount(f.at)
    /\ g.temps = f.temps + Len(f.held)
    /\ g.active = f.active + ActiveRoots(f)
    /\ g.stack >= f.stack
    /\ ~HasRegion(f) => g.stack = f.stack
    /\ \A k \in 1..Len(f.held) : f.held[k] = t[f.temps + k]
    /\ f.env # Null => \E j \in 1..g.active : a[j] = f.env

\* The roots of one call lie below those of the calls inside it.
BelowAll(i) ==
    /\ \A j \in i + 1 .. Len(pending) : Below(Above(i), pending[j])
    /\ Below(Above(i), Now)

\* A body is run for a call, and a `return` is inside a body.
InPlace(i) ==
    /\ pending[i].at = "body" =>
          i > 1 /\ pending[i - 1].at = "called" /\ pending[i].env # Null
    /\ pending[i].at = "return" => \E j \in 1..i : pending[j].at = "body"

FramesInv ==
    /\ pending \in Seq(FrameType)
    /\ \A i \in DOMAIN pending :
          /\ Owns(pending[i], Above(i), temps, active, SomeScope)
          /\ BelowAll(i)
          /\ InPlace(i)
    /\ Above(0).temps = 0 /\ Above(0).active = 0 /\ Above(0).stack = 0

\* Which call is at which point.
Fits(p) ==
    /\ p = "operate" => At("operands")
    /\ p \in {"call", "frame"} => At("called")
    /\ p = "frame" => Callee # Null
    /\ p \in {"arguments", "elements"} => At(p)
    /\ p = "declared" => At("function")
    /\ p = "result" => pending # <<>>
    /\ p = "parameters" => At("body")
    /\ p = "return" => \E i \in DOMAIN pending : pending[i].at = "body"

\* What is made at which point.
Suits(p, k) ==
    /\ p \in {"scope", "frame"} => k = "environment"
    /\ p \in {"string", "result", "declared"} => k # "environment"
    /\ p = "interned" => k \in Text

\* A string that is asked for is not there, and refers to nothing.
NewString(q) ==
    q.kind \in Text => Strings(q.kind) = {} /\ q.link = Null /\ q.contents = {}

\* What the engine has in its hands.
HandsInv ==
    /\ Fits(point)
    /\ point \in Receiving => made \in objects /\ Suits(point, kind[made])
    /\ point \notin Receiving => made = Null
    /\ point \in {"allocate", "collected"} =>
          /\ request \in Request
          /\ Fits(request.next)
          /\ Suits(request.next, request.kind)
          /\ request.link \in SomeScope
          /\ request.link \in Roots \cup {Null} \cup {link[o] : o \in Roots \cap objects}
          /\ request.contents \subseteq ValueObjects \cap Roots
          /\ NewString(request)
    /\ point \notin {"allocate", "collected"} => request = Null
    /\ point # "value" => value = Null
    /\ point # "return" => returned = Null

IInv == ContentsInv /\ FramesInv /\ HandsInv

-----------------------------------------------------------------------------
(* The pending calls.                                                      *)

\* A call that begins now.
LEMMA NowFrame ==
    ASSUME NEW a, NEW e
    PROVE  /\ Frame(a, e).temps = Len(temps)
           /\ Frame(a, e).active = Len(active)
           /\ Frame(a, e).stack = Len(stack)
           /\ Frame(a, e).held = <<>> /\ Frame(a, e).at = a /\ Frame(a, e).env = e
  BY DEF Frame

\* The fields of a call.
LEMMA FrameFields ==
    ASSUME NEW f \in FrameType
    PROVE  /\ f.temps \in Nat /\ f.active \in Nat /\ f.stack \in Nat
           /\ f.held \in Seq(Value) /\ f.env \in Value
           /\ ActiveRoots(f) \in Nat /\ HasRegion(f) \in BOOLEAN
           /\ Len(f.held) \in Nat
  BY DEF FrameType, ActiveRoots, HasRegion

\* Two sequences agree up to n.
Agree(s, t, n) == \A k \in 1..n : t[k] = s[k]

\* A call has its roots as long as the sequences agree where they are.
LEMMA OwnsAgain ==
    ASSUME NEW f \in FrameType, NEW g, NEW h, SameLevel(g, h), NEW t, NEW u, NEW a, NEW b,
           NEW S, NEW R, Owns(f, g, t, a, S),
           Agree(t, u, g.temps), Agree(a, b, g.active), f.env \in R
    PROVE  Owns(f, h, u, b, R)
  <1>1. f.temps \in Nat /\ Len(f.held) \in Nat
    BY FrameFields
  <1>2. \A k \in 1..Len(f.held) : f.held[k] = u[f.temps + k]
    <2>1. TAKE k \in 1..Len(f.held)
    <2>2. f.temps + k \in 1..(f.temps + Len(f.held))
      BY <1>1
    <2>3. u[f.temps + k] = t[f.temps + k]
      BY <2>2 DEF Owns, Agree
    <2>4. QED  BY <2>3 DEF Owns
  <1>3. f.env # Null => \E j \in 1..h.active : b[j] = f.env
    BY DEF Owns, Agree, SameLevel
  <1>4. QED  BY <1>2, <1>3 DEF Owns, SameLevel

\* An order of heights.
LEMMA BelowTransitive ==
    ASSUME NEW f, NEW g, NEW h, Below(f, g), Below(g, h),
           f.temps \in Nat, f.active \in Nat, f.stack \in Nat,
           g.temps \in Nat, g.active \in Nat, g.stack \in Nat,
           h.temps \in Nat, h.active \in Nat, h.stack \in Nat
    PROVE  Below(f, h)
  BY DEF Below

\* The height at which the roots of a call end is a height.
LEMMA AboveNat ==
    ASSUME pending \in Seq(FrameType), ContentsInv, NEW i \in 0..Len(pending)
    PROVE  Above(i).temps \in Nat /\ Above(i).active \in Nat /\ Above(i).stack \in Nat
  <1>1. CASE i < Len(pending)
    <2>1. i + 1 \in DOMAIN pending /\ Above(i) = pending[i + 1]
      BY <1>1 DEF Above
    <2>2. QED  BY <2>1, FrameFields
  <1>2. CASE ~(i < Len(pending))
    <2>1. /\ Above(i).temps = Len(temps) /\ Above(i).active = Len(active)
          /\ Above(i).stack = Len(stack)
      BY <1>2, NowFrame DEF Above
    <2>2. QED  BY <2>1 DEF ContentsInv
  <1>3. QED  BY <1>1, <1>2

\* The first m calls are as before, and at most one is on top of them: what a
\* call, the next stage of one, an item on stack_ and a return have in common.
LEMMA FramesStep ==
    ASSUME FramesInv, ContentsInv, ContentsInv', pending' \in Seq(FrameType),
           NEW m \in Nat, m <= Len(pending), m <= Len(pending'), Len(pending') <= m + 1,
           \A i \in 1..m : pending'[i] = pending[i] /\ pending[i].env \in SomeScope',
           SameLevel(Above(m), Above(m)'),
           Agree(temps, temps', Above(m).temps), Agree(active, active', Above(m).active),
           Len(pending') = m + 1 =>
               Owns(pending'[m + 1], Now', temps', active', SomeScope') /\ InPlace(m + 1)',
           Below(Above(m), Now')
    PROVE  FramesInv'
  <1> USE DEF FramesInv
  <1>0. PICK n \in Nat : n = Len(pending) /\ DOMAIN pending = 1..n
    OBVIOUS
  <1>1. PICK p \in Nat : p = Len(pending') /\ DOMAIN pending' = 1..p
    OBVIOUS
  <1>2. ASSUME NEW i \in 0..m
        PROVE  SameLevel(Above(i), Above(i)')
    <2>1. CASE i < m
      <3>1. i < n /\ i < p /\ i + 1 \in 1..m
        BY <1>0, <1>1, <2>1
      <3>2. Above(i) = pending[i + 1] /\ Above(i)' = pending'[i + 1]
        BY <1>0, <1>1, <3>1 DEF Above
      <3>3. QED  BY <3>1, <3>2 DEF SameLevel
    <2>2. CASE i = m
      BY <2>2
    <2>3. QED  BY <2>1, <2>2
  <1>3. ASSUME NEW i \in 0..m
        PROVE  Below(Above(i), Above(m))
    <2>1. i \in 0..n /\ m \in 0..n
      BY <1>0
    <2>2. CASE i = m
      BY <1>0, <2>1, <2>2, AboveNat DEF Below
    <2>3. CASE i < m
      <3>1. CASE m < n
        <4>1. Above(m) = pending[m + 1]
          BY <1>0, <3>1 DEF Above
        <4>2. CASE i = 0
          BY <1>0, <2>1, <4>2, AboveNat DEF Below
        <4>3. CASE i # 0
          <5>1. i \in 1..n /\ m + 1 \in i + 1 .. n
            BY <2>1, <2>3, <3>1, <4>3
          <5>2. QED  BY <1>0, <4>1, <5>1 DEF BelowAll
        <4>4. QED  BY <4>2, <4>3
      <3>2. CASE m = n
        <4>1. Above(m) = Now
          BY <1>0, <3>2 DEF Above, Now
        <4>2. CASE i = 0
          BY <1>0, <2>1, <4>2, AboveNat DEF Below
        <4>3. CASE i # 0
          BY <1>0, <2>1, <4>1, <4>3 DEF BelowAll
        <4>4. QED  BY <4>2, <4>3
      <3>3. QED  BY <1>0, <3>1, <3>2
    <2>4. QED  BY <2>2, <2>3
  <1>4. ASSUME NEW i \in 1..m
        PROVE  Owns(pending[i], Above(i), temps, active, SomeScope)'
    <2>1. i \in 1..n /\ i \in 0..m /\ i \in 0..n /\ m \in 0..n
      BY <1>0
    <2>2. /\ Above(i).temps \in Nat /\ Above(i).active \in Nat
          /\ Above(m).temps \in Nat /\ Above(m).active \in Nat
      BY <1>0, <2>1, AboveNat
    <2>3. Above(i).temps <= Above(m).temps /\ Above(i).active <= Above(m).active
      BY <1>3, <2>1 DEF Below
    <2>4. Agree(temps, temps', Above(i).temps)
      BY <2>2, <2>3 DEF Agree
    <2>5. Agree(active, active', Above(i).active)
      BY <2>2, <2>3 DEF Agree
    <2>6. /\ pending[i] \in FrameType /\ pending'[i] = pending[i]
          /\ pending[i].env \in SomeScope'
          /\ Owns(pending[i], Above(i), temps, active, SomeScope)
      BY <1>0, <2>1
    <2>7. SameLevel(Above(i), Above(i)')
      BY <1>2, <2>1
    <2>8. Owns(pending[i], Above(i)', temps', active', SomeScope')
      BY <2>4, <2>5, <2>6, <2>7, OwnsAgain
    <2>9. QED  BY <2>6, <2>8
  <1>5. /\ Now'.temps \in Nat /\ Now'.active \in Nat /\ Now'.stack \in Nat
    <2>1. Now'.temps = Len(temps') /\ Now'.active = Len(active') /\ Now'.stack = Len(stack')
      BY DEF Now, Frame
    <2>2. QED  BY <2>1 DEF ContentsInv
  <1>6. ASSUME NEW i \in 1..m
        PROVE  BelowAll(i)'
    <2>0. i \in 1..n /\ i \in 0..m /\ i \in 0..n /\ m \in 0..n
      BY <1>0
    <2>1. SameLevel(Above(i), Above(i)') /\ Below(Above(i), Above(m))
      BY <1>2, <1>3, <2>0
    <2>2. /\ Above(i).temps \in Nat /\ Above(i).active \in Nat /\ Above(i).stack \in Nat
          /\ Above(m).temps \in Nat /\ Above(m).active \in Nat /\ Above(m).stack \in Nat
      BY <1>0, <2>0, AboveNat
    <2>3. Below(Above(i)', Now')
      <3>1. Below(Above(i), Now')
        BY <1>5, <2>1, <2>2, BelowTransitive
      <3>2. QED  BY <2>1, <3>1 DEF Below, SameLevel
    <2>4. ASSUME NEW j \in i + 1 .. p
          PROVE  Below(Above(i)', pending'[j])
      <3>1. CASE j <= m
        <4>1. j \in i + 1 .. n /\ j \in 1..m
          BY <1>0, <3>1
        <4>2. Below(Above(i), pending[j]) /\ pending'[j] = pending[j]
          BY <1>0, <2>0, <4>1 DEF BelowAll
        <4>3. QED  BY <2>1, <4>2 DEF Below, SameLevel
      <3>2. CASE j = m + 1
        <4>1. m < p
          BY <1>1, <3>2
        <4>2. Above(m)' = pending'[j]
          BY <1>1, <3>2, <4>1 DEF Above
        <4>3. QED  BY <2>1, <4>2 DEF Below, SameLevel
      <3>3. QED  BY <1>0, <1>1, <3>1, <3>2
    <2>5. QED  BY <1>1, <2>3, <2>4 DEF BelowAll
  <1>7. ASSUME NEW i \in 1..m
        PROVE  InPlace(i)'
    <2>1. i > 1 => i - 1 \in 1..m
      OBVIOUS
    <2>2. \A j \in 1..i : j \in 1..m
      OBVIOUS
    <2>3. InPlace(i)
      BY <1>0
    <2>4. QED  BY <2>1, <2>2, <2>3 DEF InPlace
  <1>8. ASSUME p = m + 1
        PROVE  /\ Owns(pending[p], Above(p), temps, active, SomeScope)'
               /\ BelowAll(p)' /\ InPlace(p)'
    <2>1. Above(p)' = Now'
      BY <1>1 DEF Above, Now
    <2>2. Owns(pending'[p], Above(p)', temps', active', SomeScope') /\ InPlace(p)'
      BY <1>1, <1>8, <2>1
    <2>3. BelowAll(p)'
      <3>1. Below(Now', Now')
        BY <1>5 DEF Below
      <3>2. p + 1 .. Len(pending') = {}
        BY <1>1
      <3>3. QED  BY <2>1, <3>1, <3>2 DEF BelowAll
    <2>4. QED  BY <2>2, <2>3
  <1>9. Above(0)'.temps = 0 /\ Above(0)'.active = 0 /\ Above(0)'.stack = 0
    BY <1>2 DEF SameLevel
  <1>10. \A i \in 1..p : i \in 1..m \/ (i = p /\ p = m + 1)
    BY <1>1
  <1>11. ASSUME NEW i \in 1..p
         PROVE  (/\ Owns(pending[i], Above(i), temps, active, SomeScope)
                 /\ BelowAll(i) /\ InPlace(i))'
    BY <1>4, <1>6, <1>7, <1>8, <1>10
  <1>12. QED  BY <1>1, <1>9, <1>11

\* The calls stay when their stacks do.
LEMMA SameStacks ==
    ASSUME FramesInv, ContentsInv, ContentsInv', UNCHANGED <<pending, temps, active, stack>>,
           \A i \in DOMAIN pending : pending[i].env \in SomeScope'
    PROVE  FramesInv'
  <1> DEFINE m == Len(pending)
  <1>1. m \in Nat /\ m \in 0..m /\ DOMAIN pending = 1..m
    BY DEF FramesInv
  <1>2. Above(m)' = Above(m) /\ Now' = Now
    BY DEF Above, Now, Frame
  <1>3. \A i \in 1..m : pending'[i] = pending[i] /\ pending[i].env \in SomeScope'
    BY <1>1
  <1>4. SameLevel(Above(m), Above(m)')
    BY <1>2 DEF SameLevel
  <1>5. Agree(temps, temps', Above(m).temps) /\ Agree(active, active', Above(m).active)
    BY DEF Agree
  <1>6. Above(m) = Now
    BY <1>1 DEF Above, Now
  <1>7. Below(Above(m), Now')
    BY <1>1, <1>2, <1>6, AboveNat DEF Below, FramesInv
  <1>8. pending' \in Seq(FrameType) /\ m <= Len(pending') /\ Len(pending') <= m + 1 /\ Len(pending') # m + 1
    <2>1. \A k \in Nat : k <= k /\ k <= k + 1 /\ k # k + 1
      OBVIOUS
    <2>2. Len(pending') = m /\ pending' \in Seq(FrameType)
      BY DEF FramesInv
    <2>3. QED  BY <1>1, <2>1, <2>2
  <1>9. QED  BY <1>1, <1>3, <1>4, <1>5, <1>7, <1>8, FramesStep

\* The same, when no scope is lost.
LEMMA SameFrames ==
    ASSUME FramesInv, ContentsInv, ContentsInv', UNCHANGED <<pending, temps, active, stack>>,
           SomeScope \subseteq SomeScope'
    PROVE  FramesInv'
  <1>1. \A i \in DOMAIN pending : pending[i].env \in SomeScope'
    BY DEF FramesInv, Owns
  <1>2. QED  BY <1>1, SameStacks

\* The beginning of a sequence.
LEMMA Beginning ==
    ASSUME NEW S, NEW s \in Seq(S), NEW n \in Nat, n <= Len(s)
    PROVE  /\ SubSeq(s, 1, n) \in Seq(S) /\ Len(SubSeq(s, 1, n)) = n
           /\ Agree(s, SubSeq(s, 1, n), n)
  BY DEF Agree

\* The innermost call.
LEMMA TopCall ==
    ASSUME FramesInv, ContentsInv, pending # <<>>
    PROVE  /\ Len(pending) \in Nat \ {0} /\ Len(pending) \in DOMAIN pending
           /\ Top = pending[Len(pending)] /\ Top \in FrameType
           /\ Len(temps) = Top.temps + Len(Top.held)
           /\ Len(active) = Top.active + ActiveRoots(Top)
           /\ Len(stack) >= Top.stack
           /\ ~HasRegion(Top) => Len(stack) = Top.stack
           /\ Top.env \in SomeScope
           /\ Top.env # Null => \E j \in 1..Len(active) : active[j] = Top.env
           /\ Len(Top.held) = HeldCount(Top.at)
           /\ \A k \in 1..Len(Top.held) : Top.held[k] = temps[Top.temps + k]
  <1>1. /\ Len(pending) \in Nat \ {0} /\ Len(pending) \in DOMAIN pending
        /\ Top = pending[Len(pending)] /\ Top \in FrameType
    BY DEF FramesInv, Top
  <1>2. Owns(Top, Above(Len(pending)), temps, active, SomeScope)
    BY <1>1 DEF FramesInv
  <1>3. /\ Above(Len(pending)).temps = Len(temps) /\ Above(Len(pending)).active = Len(active)
        /\ Above(Len(pending)).stack = Len(stack)
    BY <1>1, NowFrame DEF Above
  <1>4. QED  BY <1>1, <1>2, <1>3 DEF Owns

\* What is left of the three stacks when the innermost call returns.
LEMMA LeaveStacks ==
    ASSUME FramesInv, ContentsInv, pending # <<>>, Leave
    PROVE  /\ temps' \in Seq(SomeValue) /\ stack' \in Seq(SomeValue) /\ active' \in Seq(objects)
           /\ Len(temps') = Top.temps /\ Len(active') = Top.active /\ Len(stack') = Top.stack
           /\ Agree(temps, temps', Top.temps) /\ Agree(active, active', Top.active)
           /\ Agree(stack, stack', Top.stack)
           /\ Top.temps <= Len(temps) /\ Top.active <= Len(active) /\ Top.stack <= Len(stack)
  <1>1. /\ Top.temps \in Nat /\ Top.active \in Nat /\ Top.stack \in Nat
        /\ Len(Top.held) \in Nat /\ ActiveRoots(Top) \in Nat /\ HasRegion(Top) \in BOOLEAN
    BY TopCall, FrameFields
  <1>2. \A x, y \in Nat : x + y - y = x /\ x <= x + y
    OBVIOUS
  <1>3. temps' = SubSeq(temps, 1, Top.temps) /\ Top.temps <= Len(temps)
    <2>1. Len(temps) = Top.temps + Len(Top.held)
      BY TopCall
    <2>2. Len(temps) - Len(Top.held) = Top.temps /\ Top.temps <= Len(temps)
      BY <1>1, <1>2, <2>1
    <2>3. temps' = SubSeq(temps, 1, Len(temps) - Len(Top.held))
      BY DEF Leave, Shortened
    <2>4. QED  BY <2>2, <2>3
  <1>4. active' = SubSeq(active, 1, Top.active) /\ Top.active <= Len(active)
    <2>1. Len(active) = Top.active + ActiveRoots(Top)
      BY TopCall
    <2>2. QED  BY <1>1, <1>2, <2>1 DEF Leave, Shortened
  <1>5. stack' = SubSeq(stack, 1, Top.stack) /\ Top.stack <= Len(stack)
    <2>1. Len(stack) >= Top.stack /\ (~HasRegion(Top) => Len(stack) = Top.stack)
      BY TopCall
    <2>2. Top.stack <= Len(stack) /\ Len(stack) \in Nat
      BY <1>1, <2>1 DEF ContentsInv
    <2>3. SubSeq(stack, 1, Len(stack)) = stack
      BY DEF ContentsInv
    <2>4. QED  BY <2>1, <2>2, <2>3 DEF Leave
  <1>6. temps \in Seq(SomeValue) /\ stack \in Seq(SomeValue) /\ active \in Seq(objects)
    BY DEF ContentsInv
  <1>7. temps' \in Seq(SomeValue) /\ Len(temps') = Top.temps /\ Agree(temps, temps', Top.temps)
    BY <1>1, <1>3, <1>6, Beginning
  <1>8. active' \in Seq(objects) /\ Len(active') = Top.active /\ Agree(active, active', Top.active)
    BY <1>1, <1>4, <1>6, Beginning
  <1>9. stack' \in Seq(SomeValue) /\ Len(stack') = Top.stack /\ Agree(stack, stack', Top.stack)
    BY <1>1, <1>5, <1>6, Beginning
  <1>10. QED  BY <1>3, <1>4, <1>5, <1>7, <1>8, <1>9

\* The other calls are as before when the innermost one returns.
LEMMA LeaveFrames ==
    ASSUME FramesInv, ContentsInv, ContentsInv', pending # <<>>, Leave,
           SomeScope \subseteq SomeScope'
    PROVE  /\ FramesInv'
           /\ Len(pending') = Len(pending) - 1
           /\ \A i \in 1 .. Len(pending) - 1 : pending'[i] = pending[i]
  <1>1. PICK n \in Nat \ {0} : n = Len(pending) /\ DOMAIN pending = 1..n
    BY TopCall DEF FramesInv
  <1>2. PICK m \in Nat : m = n - 1 /\ m \in 0..n /\ m <= n /\ m < n /\ m + 1 = n
    BY <1>1
  <1>3. /\ pending' \in Seq(FrameType) /\ Len(pending') = m
        /\ \A i \in 1..m : pending'[i] = pending[i]
    <2>1. pending' = SubSeq(pending, 1, m) /\ pending \in Seq(FrameType)
      BY <1>1, <1>2 DEF Leave, Shortened, FramesInv
    <2>2. QED  BY <1>1, <1>2, <2>1, Beginning DEF Agree
  <1>4. \A i \in 1..m : pending[i].env \in SomeScope'
    BY <1>1, <1>2 DEF FramesInv, Owns
  <1>5. Above(m) = Top
    BY <1>1, <1>2, TopCall DEF Above
  <1>6. Above(m)' = Now'
    BY <1>3 DEF Above, Now
  <1>7. Now'.temps = Top.temps /\ Now'.active = Top.active /\ Now'.stack = Top.stack
    BY LeaveStacks DEF Now, Frame
  <1>8. SameLevel(Above(m), Above(m)')
    BY <1>5, <1>6, <1>7 DEF SameLevel
  <1>9. Below(Above(m), Now')
    <2>1. Top.temps \in Nat /\ Top.active \in Nat /\ Top.stack \in Nat
      BY TopCall, FrameFields
    <2>2. QED  BY <1>5, <1>7, <2>1 DEF Below
  <1>10. Agree(temps, temps', Above(m).temps) /\ Agree(active, active', Above(m).active)
    BY <1>5, LeaveStacks
  <1>11. m <= Len(pending') /\ Len(pending') <= m + 1 /\ Len(pending') # m + 1
    BY <1>3
  <1>12. FramesInv'
    BY <1>1, <1>2, <1>3, <1>4, <1>8, <1>9, <1>10, <1>11, FramesStep
  <1>13. QED  BY <1>1, <1>2, <1>3, <1>12

\* A call begins, with its roots on top of all others.
LEMMA PushFrames ==
    ASSUME FramesInv, ContentsInv, ContentsInv', SomeScope \subseteq SomeScope',
           NEW f \in FrameType, pending' = Append(pending, f),
           f.temps = Len(temps), f.active = Len(active), f.stack = Len(stack), stack' = stack,
           Agree(temps, temps', Len(temps)), Agree(active, active', Len(active)),
           Owns(f, Now', temps', active', SomeScope'),
           f.at = "body" => pending # <<>> /\ Top.at = "called" /\ f.env # Null,
           f.at = "return" => \E j \in DOMAIN pending : pending[j].at = "body"
    PROVE  FramesInv'
  <1>1. PICK n \in Nat : n = Len(pending) /\ DOMAIN pending = 1..n
    BY DEF FramesInv
  <1>2. /\ pending' \in Seq(FrameType) /\ Len(pending') = n + 1
        /\ \A i \in 1..n : pending'[i] = pending[i]
        /\ pending'[n + 1] = f
    BY <1>1 DEF FramesInv
  <1>3. \A i \in 1..n : pending[i].env \in SomeScope'
    BY <1>1 DEF FramesInv, Owns
  <1>4. Above(n) = Now
    BY <1>1 DEF Above, Now
  <1>5. Above(n)' = f
    BY <1>1, <1>2 DEF Above
  <1>6. Now.temps = Len(temps) /\ Now.active = Len(active) /\ Now.stack = Len(stack)
    BY NowFrame DEF Now
  <1>7. SameLevel(Above(n), Above(n)')
    BY <1>4, <1>5, <1>6 DEF SameLevel
  <1>8. Below(Above(n), Now')
    <2>1. f.temps \in Nat /\ f.active \in Nat /\ f.stack \in Nat
          /\ Len(f.held) \in Nat /\ ActiveRoots(f) \in Nat
      BY FrameFields
    <2>2. \A x, y \in Nat : x <= x + y
      OBVIOUS
    <2>3. f.temps <= Now'.temps /\ f.active <= Now'.active
      BY <2>1, <2>2 DEF Owns
    <2>4. f.stack <= Now'.stack
      BY <2>1, NowFrame DEF Now, Frame
    <2>5. QED  BY <1>4, <1>6, <2>3, <2>4 DEF Below
  <1>9. Agree(temps, temps', Above(n).temps) /\ Agree(active, active', Above(n).active)
    BY <1>4, <1>6
  <1>10. InPlace(n + 1)'
    <2>1. f.at = "body" => n + 1 > 1 /\ (n + 1) - 1 = n /\ pending'[n].at = "called"
      <3>1. SUFFICES ASSUME f.at = "body" PROVE n + 1 > 1 /\ (n + 1) - 1 = n /\ pending'[n].at = "called"
        OBVIOUS
      <3>2. n \in 1..n /\ n > 0
        BY <1>1, <3>1, TopCall
      <3>3. QED  BY <1>1, <1>2, <3>1, <3>2, TopCall
    <2>2. f.at = "return" => \E j \in 1 .. n + 1 : pending'[j].at = "body"
      BY <1>1, <1>2
    <2>3. QED  BY <1>2, <2>1, <2>2 DEF InPlace
  <1>11. n <= Len(pending) /\ n <= Len(pending') /\ Len(pending') <= n + 1
    BY <1>1, <1>2
  <1>12. QED  BY <1>2, <1>3, <1>7, <1>8, <1>9, <1>10, <1>11, FramesStep

\* The innermost call goes to another stage, or pushes something.
LEMMA BecomeFrames ==
    ASSUME FramesInv, ContentsInv, ContentsInv', SomeScope \subseteq SomeScope', pending # <<>>,
           NEW f \in FrameType, pending' = [pending EXCEPT ![Len(pending)] = f],
           f.temps = Top.temps, f.active = Top.active, f.stack = Top.stack,
           Agree(temps, temps', Top.temps), Agree(active, active', Top.active),
           Owns(f, Now', temps', active', SomeScope'), f.stack <= Len(stack'),
           f.at \notin {"body", "return"}
    PROVE  FramesInv'
  <1>1. PICK n \in Nat \ {0} : n = Len(pending) /\ DOMAIN pending = 1..n
    BY TopCall DEF FramesInv
  <1>2. PICK m \in Nat : m = n - 1 /\ m \in 0..n /\ m <= n /\ m < n /\ m + 1 = n
    BY <1>1
  <1>3. /\ pending' \in Seq(FrameType) /\ Len(pending') = n
        /\ \A i \in 1..m : pending'[i] = pending[i]
        /\ pending'[n] = f
    BY <1>1, <1>2 DEF FramesInv
  <1>4. \A i \in 1..m : pending[i].env \in SomeScope'
    BY <1>1, <1>2, SMTT(30) DEF FramesInv, Owns
  <1>5. Above(m) = Top
    BY <1>1, <1>2, TopCall DEF Above
  <1>6. Above(m)' = f
    BY <1>2, <1>3 DEF Above
  <1>7. SameLevel(Above(m), Above(m)')
    BY <1>5, <1>6 DEF SameLevel
  <1>8. Below(Above(m), Now')
    <2>1. f.temps \in Nat /\ f.active \in Nat /\ f.stack \in Nat
          /\ Len(f.held) \in Nat /\ ActiveRoots(f) \in Nat
      BY FrameFields
    <2>2. \A x, y \in Nat : x <= x + y
      OBVIOUS
    <2>3. f.temps <= Now'.temps /\ f.active <= Now'.active
      BY <2>1, <2>2 DEF Owns
    <2>4. f.stack <= Now'.stack
      BY DEF Now, Frame
    <2>5. QED  BY <1>5, <2>3, <2>4 DEF Below
  <1>9. Agree(temps, temps', Above(m).temps) /\ Agree(active, active', Above(m).active)
    BY <1>5
  <1>10. Owns(pending'[m + 1], Now', temps', active', SomeScope') /\ InPlace(m + 1)'
    BY <1>2, <1>3 DEF InPlace
  <1>11. m <= Len(pending) /\ m <= Len(pending') /\ Len(pending') <= m + 1
    BY <1>1, <1>2, <1>3
  <1>12. QED  BY <1>2, <1>3, <1>4, <1>7, <1>8, <1>9, <1>10, <1>11, FramesStep

-----------------------------------------------------------------------------
(* What the engine has.                                                    *)

\* Every root is allocated, and so is what a root or a scope leads to.
LEMMA RootsKnown ==
    ASSUME ContentsInv
    PROVE  /\ Roots \subseteq objects
           /\ \A o \in objects : Refs(o) \subseteq objects
           /\ SomeValue \subseteq Value /\ SomeScope \subseteq Value /\ objects \subseteq Address
  <1>1. Range(active) \subseteq objects /\ Range(stack) \subseteq SomeValue
        /\ Range(temps) \subseteq SomeValue
    BY RangeType DEF ContentsInv
  <1>2. Roots \subseteq objects
    BY <1>1 DEF ContentsInv, Roots, SomeValue, ValueObjects
  <1>3. \A o \in objects : Refs(o) \subseteq objects
    BY DEF ContentsInv, Refs, SomeScope, ScopeObjects, ValueObjects
  <1>4. QED
    BY <1>2, <1>3 DEF ContentsInv, SomeValue, SomeScope, ValueObjects, ScopeObjects, Value

\* The scopes around one are scopes.
LEMMA ScopesKnown ==
    ASSUME ContentsInv, NEW e \in SomeScope
    PROVE  Scopes(e) \subseteq ScopeObjects
  <1> SUFFICES ASSUME NEW o \in Scopes(e), o \notin ScopeObjects
               PROVE  FALSE
    OBVIOUS
  <1>1. ScopeObjects \in SUBSET (Address \ {o})
    BY DEF ContentsInv, ScopeObjects
  <1>2. {e} \ {Null} \subseteq ScopeObjects
    BY DEF SomeScope
  <1>3. \A p \in ScopeObjects \cap objects : link[p] \in ScopeObjects \cup {Null}
    BY DEF ContentsInv, SomeScope
  <1>4. QED  BY <1>1, <1>2, <1>3 DEF Scopes

\* The scope and the operands of the innermost call are roots.
LEMMA EnvRooted ==
    ASSUME FramesInv, ContentsInv
    PROVE  Env \in SomeScope /\ Env \in Roots \cup {Null}
  <1>1. CASE pending = <<>>
    BY <1>1 DEF Env, SomeScope
  <1>2. CASE pending # <<>>
    <2>1. /\ Env = Top.env /\ Top.env \in SomeScope
          /\ Top.env # Null => \E j \in 1..Len(active) : active[j] = Top.env
      BY <1>2, TopCall DEF Env
    <2>2. Top.env # Null => Top.env \in Range(active)
      BY <2>1 DEF Range, ContentsInv
    <2>3. QED  BY <2>1, <2>2 DEF Roots
  <1>3. QED  BY <1>1, <1>2

\* An operand of the innermost call is a value, and a root.
LEMMA HeldRooted ==
    ASSUME FramesInv, ContentsInv, pending # <<>>, NEW k \in 1..Len(Top.held)
    PROVE  Top.held[k] \in SomeValue /\ Top.held[k] \in Roots \cup {Null}
  <1>1. /\ Top.temps \in Nat /\ Len(Top.held) \in Nat
        /\ Len(temps) = Top.temps + Len(Top.held) /\ Top.held[k] = temps[Top.temps + k]
    BY TopCall, FrameFields
  <1>2. Top.temps + k \in 1..Len(temps)
    BY <1>1
  <1>3. temps \in Seq(SomeValue)
    BY DEF ContentsInv
  <1>4. temps[Top.temps + k] \in SomeValue /\ temps[Top.temps + k] \in Range(temps)
    BY <1>2, <1>3 DEF Range
  <1>5. QED  BY <1>1, <1>4 DEF Roots

\* The objects stay, and what they contain is allocated.
LEMMA ContentsStep ==
    ASSUME ContentsInv, UNCHANGED <<objects, kind, link>>,
           contents' \in [Address -> SUBSET Address],
           \A o \in objects : contents'[o] \subseteq ValueObjects,
           globals' \subseteq ValueObjects,
           names' \subseteq ValueObjects, \A o \in names' : kind[o] \in Text,
           active' \in Seq(objects), stack' \in Seq(SomeValue), temps' \in Seq(SomeValue),
           returned' \in SomeValue, value' \in SomeValue
    PROVE  ContentsInv' /\ SomeScope' = SomeScope /\ SomeValue' = SomeValue
           /\ ValueObjects' = ValueObjects
  <1>1. ScopeObjects' = ScopeObjects /\ ValueObjects' = ValueObjects
    BY DEF ScopeObjects, ValueObjects
  <1>2. SomeScope' = SomeScope /\ SomeValue' = SomeValue
    BY <1>1 DEF SomeScope, SomeValue
  <1>3. QED  BY <1>1, <1>2 DEF ContentsInv

\* Nothing but what is in hand changes.
LEMMA SameContents ==
    ASSUME ContentsInv, UNCHANGED <<heapVars, globals, names, returned>>,
           active' \in Seq(objects), stack' \in Seq(SomeValue), temps' \in Seq(SomeValue),
           value' \in SomeValue
    PROVE  ContentsInv' /\ SomeScope' = SomeScope /\ SomeValue' = SomeValue
           /\ ValueObjects' = ValueObjects
  <1>1. UNCHANGED <<objects, kind, link>> /\ contents' = contents
        /\ globals' = globals /\ names' = names /\ returned' = returned
    BY DEF heapVars
  <1>2. /\ contents \in [Address -> SUBSET Address]
        /\ \A o \in objects : contents[o] \subseteq ValueObjects
        /\ globals \subseteq ValueObjects
        /\ names \subseteq ValueObjects /\ \A o \in names : kind[o] \in Text
        /\ returned \in SomeValue
    BY DEF ContentsInv
  <1>3. QED  BY <1>1, <1>2, ContentsStep

\* Where the engine can go on in any call, with nothing new in its hands.
Anywhere == {"exec", "eval", "value", "done", "failed", "name", "named"}

\* Going on at such a point asks nothing of the pending calls.
LEMMA FitsAnywhere ==
    ASSUME NEW p \in Anywhere
    PROVE  Fits(p) /\ Fits(p)' /\ p \notin Receiving /\ p \notin {"allocate", "collected", "return"}
  BY DEF Fits, Anywhere, Receiving

\* What fits the pending calls fits them as long as they stay.
LEMMA SameFits ==
    ASSUME NEW p, Fits(p), pending' = pending
    PROVE  Fits(p)'
  BY DEF Fits, At, Top, Callee

\* Going on with at most a value in hand.
LEMMA HandsStep ==
    ASSUME NEW p, point' = p, p \notin Receiving, p \notin {"allocate", "collected", "return"},
           Fits(p)', made' = Null, request' = Null, returned' = Null,
           value' = Null \/ p = "value"
    PROVE  HandsInv'
  BY DEF HandsInv

-----------------------------------------------------------------------------
(* What a kind of step preserves.                                          *)

\* Nothing is in hand but a value, unless there is an object just made, an
\* allocation to come, or a `return` under way.
LEMMA Hands ==
    ASSUME IInv
    PROVE  /\ point \notin Receiving => made = Null
           /\ point \notin {"allocate", "collected"} => request = Null
           /\ point # "return" => returned = Null
           /\ point # "value" => value = Null
           /\ Null \in SomeValue /\ Null \in SomeScope
           /\ ContentsInv /\ FramesInv /\ HandsInv
  BY DEF IInv, HandsInv, SomeValue, SomeScope

\* The engine goes on with the same calls and roots.
LEMMA StepsHold ==
    ASSUME IInv, NEW p, NEW v \in SomeValue, Steps(p, v),
           made = Null, request = Null, returned = Null,
           p \notin Receiving, p \notin {"allocate", "collected", "return"}, Fits(p)',
           v = Null \/ p = "value"
    PROVE  IInv'
  <1>1. /\ point' = p /\ value' = v /\ UNCHANGED <<heapVars, globals, names, returned>>
        /\ UNCHANGED <<pending, temps, active, stack>> /\ made' = made /\ request' = request
        /\ returned' = returned
    BY DEF Steps, Goes, rootVars
  <1>2. active' \in Seq(objects) /\ stack' \in Seq(SomeValue) /\ temps' \in Seq(SomeValue)
    BY <1>1, Hands DEF ContentsInv
  <1>3. ContentsInv' /\ SomeScope' = SomeScope
    BY <1>1, <1>2, Hands, SameContents
  <1>4. FramesInv'
    BY <1>1, <1>3, Hands, SameFrames
  <1>5. HandsInv'
    BY <1>1, HandsStep
  <1>6. QED  BY <1>3, <1>4, <1>5 DEF IInv

\* The innermost call returns; what the objects contain may change.
LEMMA LeaveHolds ==
    ASSUME IInv, pending # <<>>, Leave, NEW p \in Anywhere, point' = p,
           UNCHANGED <<objects, kind, link, names>>,
           contents' \in [Address -> SUBSET Address],
           \A o \in objects : contents'[o] \subseteq ValueObjects,
           globals' \subseteq ValueObjects,
           returned' = Null, made' = Null, request' = Null, value' \in SomeValue,
           value' = Null \/ p = "value"
    PROVE  IInv'
  <1>1. active' \in Seq(objects) /\ stack' \in Seq(SomeValue) /\ temps' \in Seq(SomeValue)
    BY Hands, LeaveStacks
  <1>2. names' \subseteq ValueObjects /\ \A o \in names' : kind[o] \in Text
    BY Hands DEF ContentsInv
  <1>3. returned' \in SomeValue
    BY Hands
  <1>4. ContentsInv' /\ SomeScope' = SomeScope
    BY <1>1, <1>2, <1>3, Hands, ContentsStep
  <1>5. FramesInv'
    BY <1>4, Hands, LeaveFrames
  <1>6. HandsInv'
    BY FitsAnywhere, HandsStep
  <1>7. QED  BY <1>4, <1>5, <1>6 DEF IInv

\* The same, and no more.
LEMMA EndsHold ==
    ASSUME IInv, pending # <<>>, NEW p \in Anywhere, NEW v \in SomeValue, Ends(p, v),
           made = Null, request = Null, returned = Null, v = Null \/ p = "value"
    PROVE  IInv'
  <1>1. /\ Leave /\ point' = p /\ value' = v /\ UNCHANGED <<objects, kind, link, names>>
        /\ contents' = contents /\ globals' = globals /\ returned' = Null
        /\ made' = Null /\ request' = Null
    BY DEF Ends, Goes, heapVars
  <1>2. /\ contents' \in [Address -> SUBSET Address]
        /\ \A o \in objects : contents'[o] \subseteq ValueObjects
        /\ globals' \subseteq ValueObjects
    BY <1>1, Hands DEF ContentsInv
  <1>3. QED  BY <1>1, <1>2, LeaveHolds

\* What an allocation can be asked for at a point that goes on at p.
Asked(k, l, c, p) ==
    /\ k \in Text \cup {"environment", "function", "array"} /\ p \in Receiving
    /\ Suits(p, k)
    /\ l \in SomeScope /\ l \in Roots \cup {Null} \cup {link[o] : o \in Roots \cap objects}
    /\ c \subseteq ValueObjects \cap Roots
    /\ k \in Text => Strings(k) = {} /\ l = Null /\ c = {}

\* The engine asks for an object.
LEMMA AsksHold ==
    ASSUME IInv, NEW k, NEW l, NEW c, NEW p, Asks(k, l, c, p), Asked(k, l, c, p), Fits(p),
           UNCHANGED <<rootVars, pending>>, made = Null, returned = Null
    PROVE  IInv'
  <1>1. /\ point' = "allocate" /\ value' = Null /\ UNCHANGED <<heapVars, globals, names, returned>>
        /\ UNCHANGED <<pending, temps, active, stack>> /\ made' = Null /\ returned' = Null
        /\ request' = [kind |-> k, link |-> l, contents |-> c, next |-> p]
    BY DEF Asks, Goes, rootVars
  <1>2. active' \in Seq(objects) /\ stack' \in Seq(SomeValue) /\ temps' \in Seq(SomeValue)
    BY <1>1, Hands DEF ContentsInv
  <1>3. /\ ContentsInv' /\ SomeScope' = SomeScope /\ ValueObjects' = ValueObjects
    BY <1>1, <1>2, Hands, SameContents
  <1>4. FramesInv'
    BY <1>1, <1>3, Hands, SameFrames
  <1>5. HandsInv'
    <2>1. request' \in Request
      BY <1>1, Hands, RootsKnown DEF Asked, Request, Value, ContentsInv, ValueObjects
    <2>2. Roots' = Roots /\ link' = link /\ objects' = objects
      BY DEF Roots, Asks, heapVars, rootVars
    <2>3. Fits(request.next)' /\ Suits(request'.next, request'.kind)
      <3>1. Fits(p)' /\ Suits(p, k)
        BY <1>1, SameFits DEF Asked
      <3>2. request'.next = p /\ request'.kind = k
        BY <1>1
      <3>3. Fits(request.next)'
        BY <3>1, <3>2 DEF Fits
      <3>4. QED  BY <3>1, <3>2, <3>3
    <2>4. /\ request'.link \in SomeScope'
          /\ request'.link \in Roots' \cup {Null} \cup {link'[o] : o \in Roots' \cap objects'}
          /\ request'.contents \subseteq ValueObjects' \cap Roots'
      BY <1>1, <1>3, <2>2 DEF Asked
    <2>5. Fits("allocate")'
      BY DEF Fits
    <2>6. "allocate" \notin Receiving
      BY DEF Receiving
    <2>7. Fits(point)'
      BY <1>1, <2>5 DEF Fits
    <2>8. NewString(request)'
      BY <1>1 DEF Asked, NewString, Strings, heapVars
    <2>9. QED  BY <1>1, <2>1, <2>3, <2>4, <2>6, <2>7, <2>8 DEF HandsInv
  <1>6. QED  BY <1>3, <1>4, <1>5 DEF IInv

\* The string there is, or a new one.
LEMMA InternHolds ==
    ASSUME IInv, NEW t \in Text, NEW p \in {"interned", "string", "result", "key"},
           Intern(t, p), Fits(p), made = Null, request = Null, returned = Null
    PROVE  IInv'
  <1>0. t # "environment" /\ p \in Receiving /\ p \notin {"value", "return", "allocate", "collected", "scope", "frame"}
    BY ConstantsAssumption DEF Receiving
  <1>1. CASE Strings(t) = {} /\ Asks(t, Null, {}, p) /\ UNCHANGED <<rootVars, pending>>
    <2>1. Asked(t, Null, {}, p)
      BY <1>0, <1>1, Hands DEF Asked, Suits
    <2>2. QED  BY <1>1, <2>1, AsksHold
  <1>2. CASE made' \in Strings(t) /\ Goes(p, Null) /\ UNCHANGED <<heapVars, request, rootVars, pending>>
    <2>1. /\ point' = p /\ value' = Null /\ UNCHANGED <<heapVars, globals, names, returned>>
          /\ UNCHANGED <<pending, temps, active, stack>> /\ request' = Null /\ returned' = Null
          /\ made' \in objects /\ kind[made'] = t /\ kind' = kind /\ objects' = objects
      BY <1>2 DEF Goes, rootVars, heapVars, Strings
    <2>2. active' \in Seq(objects) /\ stack' \in Seq(SomeValue) /\ temps' \in Seq(SomeValue)
      BY <2>1, Hands DEF ContentsInv
    <2>3. ContentsInv' /\ SomeScope' = SomeScope
      BY <2>1, <2>2, Hands, SameContents
    <2>4. FramesInv'
      BY <2>1, <2>3, Hands, SameFrames
    <2>5. Fits(p)'
      BY <2>1 DEF Fits, At, Top, Callee
    <2>6. Suits(p, kind'[made'])
      BY <1>0, <2>1 DEF Suits
    <2>7. HandsInv'
      BY <1>0, <2>1, <2>5, <2>6 DEF HandsInv
    <2>8. QED  BY <2>3, <2>4, <2>7 DEF IInv
  <1>3. QED  BY <1>1, <1>2 DEF Intern

-----------------------------------------------------------------------------
(* The heap.                                                               *)

\* What is reachable is in every closed set.
LEMMA ReachLeast ==
    ASSUME NEW S, NEW T \in SUBSET Address, S \subseteq T,
           \A p \in T \cap objects : Refs(p) \subseteq T
    PROVE  Reach(S) \subseteq T
  <1> SUFFICES ASSUME NEW o \in Reach(S), o \notin T
               PROVE  FALSE
    OBVIOUS
  <1>1. T \in SUBSET (Address \ {o})
    OBVIOUS
  <1>2. QED  BY <1>1 DEF Reach

\* What is reachable is closed.
LEMMA ReachClosed ==
    ASSUME NEW S \in SUBSET Address, \A p \in objects : Refs(p) \subseteq Address
    PROVE  /\ Reach(S) \subseteq Address
           /\ S \subseteq Reach(S)
           /\ \A p \in Reach(S) \cap objects : Refs(p) \subseteq Reach(S)
  <1>1. Reach(S) \subseteq Address /\ S \subseteq Reach(S)
    BY DEF Reach
  <1>2. ASSUME NEW p \in Reach(S) \cap objects, NEW q \in Refs(p), q \notin Reach(S)
        PROVE  FALSE
    <2>1. PICK T \in SUBSET (Address \ {q}) :
              S \subseteq T /\ \A r \in T \cap objects : Refs(r) \subseteq T
      BY <1>2 DEF Reach
    <2>2. Reach(S) \subseteq T
      BY <2>1, ReachLeast
    <2>3. QED  BY <1>2, <2>1, <2>2
  <1>3. QED  BY <1>1, <1>2

\* The scope of every pending call is a root.
LEMMA EnvsRooted ==
    ASSUME FramesInv, ContentsInv, NEW i \in DOMAIN pending
    PROVE  pending[i].env \in SomeScope /\ pending[i].env \in Roots \cup {Null}
  <1>1. i \in 0..Len(pending) /\ Len(pending) \in Nat /\ i \in 1..Len(pending)
    BY DEF FramesInv
  <1>2. Above(i).active \in Nat
    BY <1>1, AboveNat DEF FramesInv
  <1>3. Above(i).active <= Len(active)
    BY <1>1, NowFrame DEF FramesInv, BelowAll, Below, Now
  <1>4. /\ pending[i].env \in SomeScope
        /\ pending[i].env # Null => \E j \in 1..Above(i).active : active[j] = pending[i].env
    BY DEF FramesInv, Owns
  <1>5. DOMAIN active = 1..Len(active) /\ Len(active) \in Nat
    BY DEF ContentsInv
  <1>6. pending[i].env # Null => pending[i].env \in Range(active)
    BY <1>2, <1>3, <1>4, <1>5 DEF Range
  <1>7. QED  BY <1>4, <1>6 DEF Roots

\* A sequence of what it contains.
LEMMA SeqOfRange ==
    ASSUME NEW S, NEW s \in Seq(S), NEW T, Range(s) \subseteq T
    PROVE  s \in Seq(T)
  BY DEF Range

\* A collection frees nothing the engine has.
LEMMA CollectHolds ==
    ASSUME IInv, Collect
    PROVE  IInv'
  <1> DEFINE R == Reach(Roots)
  <1>1. /\ objects' = objects \cap R
        /\ UNCHANGED <<globals, names, active, stack, temps, returned>>
        /\ UNCHANGED <<pending, made, request>> /\ point' = "collected" /\ value' = value
        /\ point = "allocate"
    BY DEF Collect, Goes, rootVars
  <1>2. /\ Roots \subseteq R
        /\ \A o \in R \cap objects : Refs(o) \subseteq R
    <2>1. Roots \in SUBSET Address /\ \A p \in objects : Refs(p) \subseteq Address
      BY Hands, RootsKnown
    <2>2. QED  BY <2>1, ReachClosed
  <1>3. Roots \subseteq objects' /\ \A o \in objects' : Refs(o) \subseteq objects'
    BY <1>1, <1>2, Hands, RootsKnown
  <1>4. /\ kind' \in [Address -> Text \cup {"free", "environment", "function", "array"}]
        /\ link' \in [Address -> Value] /\ contents' \in [Address -> SUBSET Address]
    BY Hands DEF Collect, ContentsInv, Value
  <1>5. /\ objects' \subseteq Address
        /\ \A o \in objects' : kind'[o] = kind[o] /\ link'[o] = link[o] /\ contents'[o] = contents[o]
    BY <1>1, Hands DEF Collect, ContentsInv
  <1>6. /\ ValueObjects' = ValueObjects \cap objects' /\ ScopeObjects' = ScopeObjects \cap objects'
    BY <1>1, <1>5 DEF ValueObjects, ScopeObjects
  <1>7. \A v \in SomeValue : v \in Roots \cup {Null} => v \in SomeValue'
    BY <1>3, <1>6 DEF SomeValue
  <1>8. \A e \in SomeScope : e \in Roots \cup {Null} => e \in SomeScope'
    BY <1>3, <1>6 DEF SomeScope
  <1>9. \A o \in objects' : link'[o] \in SomeScope' /\ contents'[o] \subseteq ValueObjects'
    <2>1. TAKE o \in objects'
    <2>2. link[o] \in SomeScope /\ contents[o] \subseteq ValueObjects
      BY <1>1, Hands DEF ContentsInv
    <2>3. contents[o] \cup ({link[o]} \ {Null}) \subseteq objects'
      BY <1>3 DEF Refs
    <2>4. QED  BY <1>5, <1>6, <2>2, <2>3 DEF SomeScope
  <1>10. globals' \subseteq ValueObjects' /\ names' \subseteq ValueObjects'
         /\ \A o \in names' : kind'[o] \in Text
    <2>1. /\ globals \subseteq ValueObjects /\ names \subseteq ValueObjects
          /\ \A o \in names : kind[o] \in Text
      BY Hands DEF ContentsInv
    <2>2. globals \cup names \subseteq objects'
      <3>1. Null \notin ValueObjects
        BY Hands, ConstantsAssumption DEF ContentsInv, ValueObjects
      <3>2. globals \cup names \subseteq Roots
        BY <2>1, <3>1 DEF Roots
      <3>3. QED  BY <1>3, <3>2
    <2>3. QED  BY <1>1, <1>5, <1>6, <2>1, <2>2
  <1>11. active' \in Seq(objects') /\ stack' \in Seq(SomeValue') /\ temps' \in Seq(SomeValue')
    <2>1. active \in Seq(objects) /\ stack \in Seq(SomeValue) /\ temps \in Seq(SomeValue)
      BY Hands DEF ContentsInv
    <2>2. Range(active) \subseteq objects /\ Range(stack) \subseteq SomeValue /\ Range(temps) \subseteq SomeValue
      BY <2>1, RangeType
    <2>3. Range(active) \subseteq objects'
      <3>1. Null \notin objects
        BY Hands, ConstantsAssumption DEF ContentsInv
      <3>2. Range(active) \subseteq Roots
        BY <2>2, <3>1 DEF Roots
      <3>3. QED  BY <1>3, <3>2
    <2>4. Range(stack) \subseteq SomeValue' /\ Range(temps) \subseteq SomeValue'
      <3>1. Range(stack) \subseteq Roots \cup {Null} /\ Range(temps) \subseteq Roots \cup {Null}
        BY DEF Roots
      <3>2. QED  BY <1>7, <2>2, <3>1
    <2>5. QED  BY <1>1, <2>1, <2>3, <2>4, SeqOfRange
  <1>12. returned' \in SomeValue' /\ value' \in SomeValue'
    <2>1. returned = Null /\ value = Null
      BY <1>1, Hands
    <2>2. QED  BY <1>1, <2>1 DEF SomeValue
  <1>13. ContentsInv'
    BY <1>4, <1>5, <1>9, <1>10, <1>11, <1>12 DEF ContentsInv
  <1>14. FramesInv'
    <2>1. \A i \in DOMAIN pending : pending[i].env \in SomeScope'
      BY <1>8, Hands, EnvsRooted
    <2>2. QED  BY <1>1, <1>13, <2>1, Hands, SameStacks
  <1>15. HandsInv'
    <2>0. Roots' = Roots
      BY <1>1 DEF Roots
    <2>1. /\ request \in Request /\ Fits(request.next) /\ Suits(request.next, request.kind)
          /\ request.link \in SomeScope
          /\ request.link \in Roots \cup {Null} \cup {link[o] : o \in Roots \cap objects}
          /\ request.contents \subseteq ValueObjects \cap Roots
          /\ made = Null /\ value = Null /\ returned = Null
      BY <1>1, Hands DEF HandsInv, Receiving
    <2>2. request.link \in SomeScope' /\ request.link \in Roots' \cup {Null} \cup {link'[o] : o \in Roots' \cap objects'}
      <3>1. CASE request.link \in Roots \cup {Null}
        BY <1>8, <2>0, <2>1, <3>1
      <3>2. CASE request.link \in {link[o] : o \in Roots \cap objects}
        <4>1. PICK o \in Roots \cap objects : request.link = link[o]
          BY <3>2
        <4>2. o \in Roots' \cap objects' /\ link'[o] = request.link
          BY <1>3, <1>5, <2>0, <4>1
        <4>3. link'[o] \in SomeScope'
          BY <1>9, <4>2
        <4>4. QED  BY <4>2, <4>3
      <3>3. QED  BY <2>1, <3>1, <3>2
    <2>3. request.contents \subseteq ValueObjects' \cap Roots'
      BY <1>3, <1>6, <2>0, <2>1
    <2>4. Fits(request.next)'
      <3>1. Fits(request.next) /\ request' = request /\ pending' = pending
        BY <1>1, <2>1
      <3>2. QED  BY <3>1 DEF Fits, At, Top, Callee
    <2>5. Fits(point)'
      BY <1>1 DEF Fits
    <2>6. "collected" \notin Receiving
      BY DEF Receiving
    <2>7. NewString(request)'
      <3>1. NewString(request)
        BY <1>1, Hands DEF HandsInv
      <3>2. QED  BY <1>1, <1>5, <3>1 DEF NewString, Strings
    <2>8. QED  BY <1>1, <2>1, <2>2, <2>3, <2>4, <2>5, <2>6, <2>7 DEF HandsInv
  <1>16. QED  BY <1>13, <1>14, <1>15 DEF IInv

\* What was asked for is there, and in hand.
LEMMA AllocateHolds ==
    ASSUME IInv, NEW o \in Address, Allocate(o)
    PROVE  IInv'
  <1> DEFINE p == request.next
  <1>1. /\ objects' = objects \cup {o} /\ o \notin objects
        /\ UNCHANGED <<globals, names, active, stack, temps, returned>>
        /\ pending' = pending /\ made' = o /\ request' = Null /\ point' = p /\ value' = value
        /\ point \in {"allocate", "collected"}
    BY DEF Allocate, MayAllocate, Goes, rootVars
  <1>2. /\ request \in Request /\ Fits(p) /\ Suits(p, request.kind)
        /\ request.link \in SomeScope /\ request.contents \subseteq ValueObjects
        /\ returned = Null /\ value = Null
    BY <1>1, Hands DEF HandsInv
  <1>3. /\ p \in Receiving /\ request.link \in Value /\ request.contents \in SUBSET Address
        /\ request.kind \in Text \cup {"environment", "function", "array"}
    BY <1>2 DEF Request
  <1>4. /\ kind' \in [Address -> Text \cup {"free", "environment", "function", "array"}]
        /\ link' \in [Address -> Value] /\ contents' \in [Address -> SUBSET Address]
        /\ kind'[o] = request.kind /\ link'[o] = request.link /\ contents'[o] = request.contents
        /\ \A q \in objects : kind'[q] = kind[q] /\ link'[q] = link[q] /\ contents'[q] = contents[q]
    BY <1>1, <1>3, Hands DEF Allocate, ContentsInv
  <1>5. /\ ValueObjects \subseteq ValueObjects' /\ ScopeObjects \subseteq ScopeObjects'
        /\ SomeValue \subseteq SomeValue' /\ SomeScope \subseteq SomeScope' /\ objects \subseteq objects'
    BY <1>1, <1>4 DEF ValueObjects, ScopeObjects, SomeValue, SomeScope
  <1>6. \A q \in objects' : link'[q] \in SomeScope' /\ contents'[q] \subseteq ValueObjects'
    BY <1>1, <1>2, <1>4, <1>5, Hands DEF ContentsInv
  <1>7. globals' \subseteq ValueObjects' /\ names' \subseteq ValueObjects'
         /\ \A q \in names' : kind'[q] \in Text
    BY <1>1, <1>4, <1>5, Hands DEF ContentsInv, ValueObjects
  <1>8. active' \in Seq(objects') /\ stack' \in Seq(SomeValue') /\ temps' \in Seq(SomeValue')
    <2>1. active \in Seq(objects) /\ stack \in Seq(SomeValue) /\ temps \in Seq(SomeValue)
      BY Hands DEF ContentsInv
    <2>2. Range(active) \subseteq objects /\ Range(stack) \subseteq SomeValue /\ Range(temps) \subseteq SomeValue
      BY <2>1, RangeType
    <2>3. Range(active) \subseteq objects' /\ Range(stack) \subseteq SomeValue' /\ Range(temps) \subseteq SomeValue'
      BY <1>5, <2>2
    <2>4. QED  BY <1>1, <2>1, <2>3, SeqOfRange
  <1>9. returned' \in SomeValue' /\ value' \in SomeValue'
    BY <1>1, <1>2 DEF SomeValue
  <1>10. objects' \subseteq Address
    BY <1>1, Hands DEF ContentsInv
  <1>11. ContentsInv'
    BY <1>4, <1>6, <1>7, <1>8, <1>9, <1>10 DEF ContentsInv
  <1>12. FramesInv'
    BY <1>1, <1>5, <1>11, Hands, SameFrames
  <1>13. HandsInv'
    <2>1. Fits(point)'
      <3>1. Fits(request.next) /\ pending' = pending
        BY <1>1, <1>2
      <3>2. point' = request.next
        BY <1>1
      <3>3. Fits(point')
        BY <3>1, <3>2
      <3>4. QED  BY <3>1, <3>2, <3>3 DEF Fits, At, Top, Callee
    <2>2. made' \in objects' /\ Suits(point', kind'[made'])
      BY <1>1, <1>2, <1>4
    <2>3. p \notin {"allocate", "collected", "value", "return"}
      BY <1>3 DEF Receiving
    <2>4. QED  BY <1>1, <1>2, <1>3, <2>1, <2>2, <2>3 DEF HandsInv
  <1>14. QED  BY <1>11, <1>12, <1>13 DEF IInv

\* A name is kept.
LEMMA InternedHolds ==
    ASSUME IInv, Interned
    PROVE  IInv'
  <1>1. /\ point = "interned" /\ names' = names \cup {made} /\ made' = Null
        /\ UNCHANGED <<heapVars, globals, active, stack, temps, returned, pending, request>>
        /\ point' = "named" /\ value' = Null
    BY DEF Interned, Goes
  <1>2. made \in objects /\ kind[made] \in Text /\ request = Null /\ returned = Null
    BY <1>1, Hands DEF HandsInv, Receiving, Suits
  <1>3. made \in ValueObjects
    BY <1>2, ConstantsAssumption DEF ValueObjects
  <1>4. names' \subseteq ValueObjects /\ \A o \in names' : kind[o] \in Text
    BY <1>1, <1>2, <1>3, Hands DEF ContentsInv
  <1>5. /\ UNCHANGED <<objects, kind, link>>
        /\ contents' \in [Address -> SUBSET Address]
        /\ \A o \in objects : contents'[o] \subseteq ValueObjects
        /\ globals' \subseteq ValueObjects
        /\ active' \in Seq(objects) /\ stack' \in Seq(SomeValue) /\ temps' \in Seq(SomeValue)
        /\ returned' \in SomeValue /\ value' \in SomeValue
    BY <1>1, Hands DEF ContentsInv, heapVars
  <1>6. ContentsInv' /\ SomeScope' = SomeScope
    BY <1>4, <1>5, Hands, ContentsStep
  <1>7. FramesInv'
    BY <1>1, <1>6, Hands, SameFrames
  <1>8. "named" \in Anywhere
    BY DEF Anywhere
  <1>9. HandsInv'
    BY <1>1, <1>2, <1>8, FitsAnywhere, HandsStep
  <1>10. QED  BY <1>6, <1>7, <1>9 DEF IInv

\* A name that is there, or not yet.
LEMMA NameHolds ==
    ASSUME IInv, NEW t \in Text, NameOf(t)
    PROVE  IInv'
  <1>1. point = "name"
    BY DEF NameOf
  <1>2. made = Null /\ request = Null /\ returned = Null /\ Null \in SomeValue
    BY <1>1, Hands DEF Receiving
  <1>3. CASE Steps("named", Null)
    <2>1. "named" \in Anywhere
      BY DEF Anywhere
    <2>2. QED  BY <1>2, <1>3, <2>1, FitsAnywhere, StepsHold
  <1>4. CASE Intern(t, "interned")
    <2>1. Fits("interned")
      BY DEF Fits
    <2>2. QED  BY <1>2, <1>4, <2>1, InternHolds
  <1>5. QED  BY <1>3, <1>4 DEF NameOf

-----------------------------------------------------------------------------
(* Nodes and statements.                                                   *)

\* The same points for all: an action at one of these finds the hands empty.
LEMMA EmptyHands ==
    ASSUME IInv, point \notin Receiving, point \notin {"allocate", "collected", "return"}
    PROVE  made = Null /\ request = Null /\ returned = Null
  BY Hands

\* fail() changes nothing but where the engine goes on.
LEMMA FailsHold ==
    ASSUME IInv, Fails, made = Null, request = Null, returned = Null
    PROVE  IInv'
  <1>1. "failed" \in Anywhere
    BY DEF Anywhere
  <1>2. Null \in SomeValue
    BY DEF SomeValue
  <1>3. QED  BY <1>1, <1>2, FitsAnywhere, StepsHold DEF Fails

\* A node begins with no roots of its own.
LEMMA BeginHolds ==
    ASSUME IInv, NEW a \in Statements \cup Expressions, Begin(a)
    PROVE  IInv'
  <1> DEFINE f == Frame(a, Env)
  <1>1. /\ pending' = Append(pending, f) /\ point' = First(a) /\ value' = Null
        /\ UNCHANGED <<heapVars, globals, names, active, stack, temps, returned, made, request>>
        /\ point \in {"exec", "eval"}
        /\ a = "return" => \E i \in DOMAIN pending : pending[i].at = "body"
    BY DEF Begin, Push, Goes, rootVars
  <1>2. made = Null /\ request = Null /\ returned = Null
    BY <1>1, EmptyHands DEF Receiving
  <1>3. active' \in Seq(objects) /\ stack' \in Seq(SomeValue) /\ temps' \in Seq(SomeValue)
        /\ value' \in SomeValue
    BY <1>1, Hands DEF ContentsInv
  <1>4. ContentsInv' /\ SomeScope' = SomeScope
    BY <1>1, <1>3, Hands, SameContents
  <1>5. Env \in SomeScope /\ Env \in Value
    BY Hands, EnvRooted, RootsKnown
  <1>6. Len(temps) \in Nat /\ Len(active) \in Nat /\ Len(stack) \in Nat
    BY Hands DEF ContentsInv
  <1>7. f \in FrameType
    BY <1>5, <1>6 DEF Frame, FrameType
  <1>8. /\ f.at = a /\ f.env = Env /\ f.held = <<>>
        /\ f.temps = Len(temps) /\ f.active = Len(active) /\ f.stack = Len(stack)
    BY DEF Frame
  <1>9. Owns(f, Now', temps', active', SomeScope')
    <2>1. Now'.temps = Len(temps) /\ Now'.active = Len(active) /\ Now'.stack = Len(stack)
      BY <1>1 DEF Now, Frame
    <2>2. Len(f.held) = 0 /\ HeldCount(f.at) = 0 /\ ActiveRoots(f) = 0
      BY <1>8 DEF HeldCount, ActiveRoots, Statements, Expressions
    <2>3. Env # Null => \E j \in 1..Len(active) : active[j] = Env
      BY Hands, TopCall DEF Env
    <2>4. QED  BY <1>1, <1>4, <1>5, <1>6, <1>8, <2>1, <2>2, <2>3 DEF Owns
  <1>10. FramesInv'
    <2>1. Agree(temps, temps', Len(temps)) /\ Agree(active, active', Len(active)) /\ stack' = stack
      BY <1>1 DEF Agree
    <2>2. f.at # "body"
      BY <1>8 DEF Statements, Expressions
    <2>3. SomeScope \subseteq SomeScope' /\ f.at = "return" => \E j \in DOMAIN pending : pending[j].at = "body"
      BY <1>1, <1>4, <1>8
    <2>4. QED  BY <1>1, <1>4, <1>7, <1>8, <1>9, <2>1, <2>2, <2>3, Hands, PushFrames
  <1>11. HandsInv'
    <2>1. CASE a = "elements"
      <3>1. At("elements")'
        <4>1. pending \in Seq(FrameType)
          BY Hands DEF FramesInv
        <4>2. pending' # <<>> /\ pending'[Len(pending')] = f
          BY <1>1, <1>7, <4>1
        <4>3. QED  BY <1>8, <2>1, <4>2 DEF At, Top
      <3>2. Fits("elements")'
        BY <3>1 DEF Fits
      <3>3. First(a) = "elements"
        BY <2>1 DEF First
      <3>4. QED  BY <1>1, <1>2, <3>2, <3>3, HandsStep DEF Receiving
    <2>2. CASE a # "elements"
      <3>1. First(a) \in Anywhere
        BY <2>2 DEF First, Anywhere
      <3>2. QED  BY <1>1, <1>2, <3>1, FitsAnywhere, HandsStep
    <2>3. QED  BY <2>1, <2>2
  <1>12. QED  BY <1>4, <1>10, <1>11 DEF IInv

\* A call goes to another stage with the roots it has.
LEMMA RestageHolds ==
    ASSUME IInv, pending # <<>>, NEW b \in {"loop", "while", "called"},
           Become([Top EXCEPT !.at = b]), NEW p, Goes(p, Null),
           UNCHANGED <<heapVars, rootVars, made, request>>,
           b = "loop" => Top.at = "while", b = "while" => Top.at = "loop",
           b = "called" => Top.at = "arguments",
           made = Null, request = Null, returned = Null,
           p \in Anywhere \/ (p = "call" /\ b = "called")
    PROVE  IInv'
  <1> DEFINE f == [Top EXCEPT !.at = b]
  <1>1. /\ pending' = [pending EXCEPT ![Len(pending)] = f] /\ point' = p /\ value' = Null
        /\ UNCHANGED <<heapVars, globals, names, active, stack, temps, returned, made, request>>
    BY DEF Become, Goes, rootVars
  <1>2. active' \in Seq(objects) /\ stack' \in Seq(SomeValue) /\ temps' \in Seq(SomeValue)
        /\ value' \in SomeValue
    BY <1>1, Hands DEF ContentsInv
  <1>3. ContentsInv' /\ SomeScope' = SomeScope
    BY <1>1, <1>2, Hands, SameContents
  <1>4. Top \in FrameType
    BY Hands, TopCall
  <1>5. f \in FrameType /\ f.at = b /\ f.env = Top.env /\ f.held = Top.held
        /\ f.temps = Top.temps /\ f.active = Top.active /\ f.stack = Top.stack
    <2>1. b \in Statements \cup {"loop", "called"}
      BY DEF Statements
    <2>2. QED  BY <1>4, <2>1 DEF FrameType
  <1>6. ActiveRoots(f) = ActiveRoots(Top) /\ HeldCount(f.at) = HeldCount(Top.at)
        /\ HasRegion(f) = HasRegion(Top)
    BY <1>5 DEF ActiveRoots, HeldCount, HasRegion
  <1>7. Owns(f, Now', temps', active', SomeScope')
    <2>1. Now'.temps = Len(temps) /\ Now'.active = Len(active) /\ Now'.stack = Len(stack)
      BY <1>1 DEF Now, Frame
    <2>2. /\ Len(temps) = Top.temps + Len(Top.held)
          /\ Len(active) = Top.active + ActiveRoots(Top)
          /\ Len(stack) >= Top.stack
          /\ ~HasRegion(Top) => Len(stack) = Top.stack
          /\ Top.env \in SomeScope
          /\ Top.env # Null => \E j \in 1..Len(active) : active[j] = Top.env
          /\ Len(Top.held) = HeldCount(Top.at)
          /\ \A k \in 1..Len(Top.held) : Top.held[k] = temps[Top.temps + k]
      BY Hands, TopCall
    <2>3. temps' = temps /\ active' = active
      BY <1>1
    <2>4. QED  BY <1>3, <1>5, <1>6, <2>1, <2>2, <2>3 DEF Owns
  <1>8. FramesInv'
    <2>1. Agree(temps, temps', Top.temps) /\ Agree(active, active', Top.active)
      BY <1>1 DEF Agree
    <2>2. f.stack <= Len(stack')
      <3>1. Len(stack) >= Top.stack /\ Len(stack) \in Nat /\ Top.stack \in Nat
        BY <1>4, Hands, TopCall, FrameFields DEF ContentsInv
      <3>2. QED  BY <1>1, <1>5, <3>1
    <2>3. f.at \notin {"body", "return"} /\ SomeScope \subseteq SomeScope'
      BY <1>3, <1>5
    <2>4. QED  BY <1>1, <1>3, <1>5, <1>7, <2>1, <2>2, <2>3, Hands, BecomeFrames
  <1>9. Fits(p)'
    <2>1. CASE p \in Anywhere
      BY <2>1, FitsAnywhere
    <2>2. CASE p = "call" /\ b = "called"
      <3>1. pending' # <<>> /\ pending'[Len(pending')] = f
        BY <1>1, <1>5, Hands, TopCall DEF FramesInv
      <3>2. At("called")'
        BY <1>5, <2>2, <3>1 DEF At, Top
      <3>3. QED  BY <2>2, <3>2 DEF Fits
    <2>3. QED  BY <2>1, <2>2
  <1>10. HandsInv'
    <2>1. p \notin Receiving /\ p \notin {"allocate", "collected", "return"}
      BY FitsAnywhere DEF Receiving
    <2>2. QED  BY <1>1, <1>9, <2>1, HandsStep
  <1>11. QED  BY <1>3, <1>8, <1>10 DEF IInv

\* A value takes the place of another, or is added.
LEMMA StoredKnown ==
    ASSUME NEW S, S \subseteq ValueObjects, NEW v \in SomeValue, NEW T \in Stored(S, v)
    PROVE  T \subseteq ValueObjects
  BY DEF Stored, SomeValue

\* A declaration adds a variable and is done.
LEMMA DefineHolds ==
    ASSUME IInv, pending # <<>>, NEW v \in SomeValue, Define(v),
           made' = Null, request = Null, returned = Null
    PROVE  IInv'
  <1>1. /\ Leave /\ point' = "done" /\ value' = Null /\ UNCHANGED <<objects, kind, link, names>>
        /\ returned' = Null /\ request' = Null
    BY DEF Define, Goes
  <1>2. /\ contents \in [Address -> SUBSET Address] /\ globals \subseteq ValueObjects
        /\ \A o \in objects : contents[o] \subseteq ValueObjects
    BY Hands DEF ContentsInv
  <1>3. {v} \ {Null} \subseteq ValueObjects /\ ValueObjects \subseteq Address
    BY Hands DEF SomeValue, ValueObjects, ContentsInv
  <1>4. globals' \subseteq ValueObjects
    BY <1>2, StoredKnown DEF Define
  <1>5. contents' \in [Address -> SUBSET Address] /\ \A o \in objects : contents'[o] \subseteq ValueObjects
    <2>1. CASE contents' = contents
      BY <1>2, <2>1
    <2>2. CASE contents' = [contents EXCEPT ![Env] = @ \cup ({v} \ {Null})]
      <3>1. /\ contents' = [q \in Address |-> IF q = Env THEN contents[q] \cup ({v} \ {Null})
                                                     ELSE contents[q]]
        BY <1>2, <2>2
      <3>2. objects \subseteq Address
        BY Hands DEF ContentsInv
      <3>3. \A q \in Address : contents[q] \subseteq Address
        BY <1>2
      <3>4. \A q \in Address : contents'[q] \subseteq Address
        BY <1>3, <3>1, <3>3
      <3>5. \A o \in objects : contents'[o] \subseteq ValueObjects
        BY <1>2, <1>3, <3>1, <3>2
      <3>6. QED  BY <3>1, <3>4, <3>5
    <2>3. QED  BY <2>1, <2>2 DEF Define
  <1>6. "done" \in Anywhere /\ Null \in SomeValue
    BY DEF Anywhere, SomeValue
  <1>7. QED  BY <1>1, <1>4, <1>5, <1>6, LeaveHolds

\* A call returns, and a `return` goes on in the call outside it.
LEMMA ReturnHolds ==
    ASSUME IInv, pending # <<>>, Leave, Goes("return", Null),
           UNCHANGED <<heapVars, globals, names, made, request>>,
           made = Null, request = Null, returned' \in SomeValue,
           Top.at # "body", \E i \in DOMAIN pending : pending[i].at = "body"
    PROVE  IInv'
  <1>1. active' \in Seq(objects) /\ stack' \in Seq(SomeValue) /\ temps' \in Seq(SomeValue)
    BY Hands, LeaveStacks
  <1>2. /\ UNCHANGED <<objects, kind, link>> /\ point' = "return" /\ value' = Null
        /\ contents' \in [Address -> SUBSET Address]
        /\ \A o \in objects : contents'[o] \subseteq ValueObjects
        /\ globals' \subseteq ValueObjects
        /\ names' \subseteq ValueObjects /\ \A o \in names' : kind[o] \in Text
        /\ value' \in SomeValue
    BY Hands DEF ContentsInv, Goes, heapVars
  <1>3. ContentsInv' /\ SomeScope' = SomeScope
    BY <1>1, <1>2, Hands, ContentsStep
  <1>4. /\ FramesInv' /\ Len(pending') = Len(pending) - 1
        /\ \A i \in 1 .. Len(pending) - 1 : pending'[i] = pending[i]
    BY <1>3, Hands, LeaveFrames
  <1>5. \E i \in DOMAIN pending' : pending'[i].at = "body"
    <2>1. PICK i \in DOMAIN pending : pending[i].at = "body"
      OBVIOUS
    <2>2. Len(pending) \in Nat \ {0} /\ DOMAIN pending = 1..Len(pending) /\ Top = pending[Len(pending)]
      BY Hands, TopCall DEF FramesInv
    <2>3. i # Len(pending)
      BY <2>1, <2>2
    <2>4. i \in 1 .. Len(pending) - 1
      BY <2>2, <2>3
    <2>5. DOMAIN pending' = 1..Len(pending')
      BY <1>4 DEF FramesInv
    <2>6. QED  BY <1>4, <2>1, <2>4, <2>5
  <1>6. Fits(point)'
    BY <1>2, <1>5 DEF Fits
  <1>7. HandsInv'
    BY <1>2, <1>6 DEF HandsInv, Receiving
  <1>8. QED  BY <1>3, <1>4, <1>7 DEF IInv

\* A new scope is active from its beginning on.
LEMMA EnterBlockHolds ==
    ASSUME IInv, EnterBlock
    PROVE  IInv'
  <1> DEFINE f == Frame("block", made)
  <1>1. /\ pending' = Append(pending, f) /\ point' = "exec" /\ value' = Null
        /\ active' = Append(active, made) /\ made' = Null
        /\ UNCHANGED <<heapVars, globals, names, stack, temps, returned, request>>
        /\ point = "scope"
    BY DEF EnterBlock, Push, Goes
  <1>2. made \in ScopeObjects /\ request = Null /\ returned = Null
    BY <1>1, Hands DEF HandsInv, Receiving, Suits, ScopeObjects
  <1>3. active' \in Seq(objects) /\ stack' \in Seq(SomeValue) /\ temps' \in Seq(SomeValue)
        /\ value' \in SomeValue
    BY <1>1, <1>2, Hands DEF ContentsInv, ScopeObjects
  <1>4. ContentsInv' /\ SomeScope' = SomeScope
    BY <1>1, <1>3, Hands, SameContents
  <1>5. made \in SomeScope /\ made \in Value
    BY <1>2, Hands, RootsKnown DEF SomeScope
  <1>6. /\ Len(temps) \in Nat /\ Len(active) \in Nat /\ Len(stack) \in Nat
        /\ Len(active') = Len(active) + 1 /\ active'[Len(active) + 1] = made
        /\ Agree(active, active', Len(active))
    BY <1>1, <1>2, Hands DEF ContentsInv, Agree
  <1>7. f \in FrameType
    BY <1>5, <1>6 DEF Frame, FrameType
  <1>8. /\ f.at = "block" /\ f.env = made /\ f.held = <<>>
        /\ f.temps = Len(temps) /\ f.active = Len(active) /\ f.stack = Len(stack)
    BY DEF Frame
  <1>9. Owns(f, Now', temps', active', SomeScope')
    <2>1. Now'.temps = Len(temps) /\ Now'.active = Len(active) + 1 /\ Now'.stack = Len(stack)
      BY <1>1, <1>6 DEF Now, Frame
    <2>2. Len(f.held) = 0 /\ HeldCount(f.at) = 0 /\ ActiveRoots(f) = 1
      BY <1>8 DEF HeldCount, ActiveRoots
    <2>3. Len(active) + 1 \in 1..(Len(active) + 1)
      BY <1>6
    <2>4. QED  BY <1>1, <1>4, <1>5, <1>6, <1>8, <2>1, <2>2, <2>3 DEF Owns
  <1>10. FramesInv'
    <2>1. Agree(temps, temps', Len(temps)) /\ stack' = stack
      BY <1>1 DEF Agree
    <2>2. f.at # "body" /\ f.at # "return" /\ SomeScope \subseteq SomeScope'
      BY <1>4, <1>8
    <2>3. QED  BY <1>1, <1>4, <1>6, <1>7, <1>8, <1>9, <2>1, <2>2, Hands, PushFrames
  <1>11. HandsInv'
    <2>1. "exec" \in Anywhere
      BY DEF Anywhere
    <2>2. QED  BY <1>1, <1>2, <2>1, FitsAnywhere, HandsStep
  <1>12. QED  BY <1>4, <1>10, <1>11 DEF IInv

\* The steps of statements.
LEMMA StatementHolds ==
    ASSUME IInv, StatementStep
    PROVE  IInv'
  <1>0. /\ {"exec", "eval", "value", "done", "failed", "name", "named"} \subseteq Anywhere
        /\ Null \in SomeValue
    BY DEF Anywhere, SomeValue
  <1>1. CASE EndStatement
    <2>1. pending # <<>> /\ point = "value" /\ Ends("done", Null)
      BY <1>1 DEF EndStatement, At
    <2>2. made = Null /\ request = Null /\ returned = Null
      BY <2>1, EmptyHands DEF Receiving
    <2>3. QED  BY <1>0, <2>1, <2>2, EndsHold
  <1>2. CASE Branch
    <2>1. pending # <<>> /\ point = "value" /\ Ends("exec", Null)
      BY <1>2 DEF Branch, At
    <2>2. made = Null /\ request = Null /\ returned = Null
      BY <2>1, EmptyHands DEF Receiving
    <2>3. QED  BY <1>0, <2>1, <2>2, EndsHold
  <1>3. CASE LoopBody
    <2>1. /\ pending # <<>> /\ point = "value" /\ Top.at = "while"
          /\ Become([Top EXCEPT !.at = "loop"]) /\ Goes("exec", Null)
          /\ UNCHANGED <<heapVars, rootVars, made, request>>
      BY <1>3 DEF LoopBody, At
    <2>2. made = Null /\ request = Null /\ returned = Null
      BY <2>1, EmptyHands DEF Receiving
    <2>3. QED  BY <1>0, <2>1, <2>2, RestageHolds
  <1>4. CASE LoopAgain
    <2>1. /\ pending # <<>> /\ point = "done" /\ Top.at = "loop"
          /\ Become([Top EXCEPT !.at = "while"]) /\ Goes("eval", Null)
          /\ UNCHANGED <<heapVars, rootVars, made, request>>
      BY <1>4 DEF LoopAgain, At
    <2>2. made = Null /\ request = Null /\ returned = Null
      BY <2>1, EmptyHands DEF Receiving
    <2>3. QED  BY <1>0, <2>1, <2>2, RestageHolds
  <1>5. CASE Initializer
    <2>1. point = "named" /\ Steps("eval", Null)
      BY <1>5 DEF Initializer
    <2>2. made = Null /\ request = Null /\ returned = Null
      BY <2>1, EmptyHands DEF Receiving
    <2>3. QED  BY <1>0, <2>1, <2>2, FitsAnywhere, StepsHold
  <1>6. CASE EndLet
    <2>1. pending # <<>> /\ point = "value" /\ Define(value) /\ made' = made
      BY <1>6 DEF EndLet, At
    <2>2. made = Null /\ request = Null /\ returned = Null /\ value \in SomeValue
      BY <2>1, EmptyHands, Hands DEF Receiving, ContentsInv
    <2>3. QED  BY <2>1, <2>2, DefineHolds
  <1>7. CASE MakeFunction
    <2>1. /\ point = "named" /\ Asks("function", Env, {}, "declared")
          /\ UNCHANGED <<rootVars, pending>> /\ At("function")
      BY <1>7 DEF MakeFunction
    <2>2. made = Null /\ request = Null /\ returned = Null
      BY <2>1, EmptyHands DEF Receiving
    <2>3. Asked("function", Env, {}, "declared")
      BY Hands, EnvRooted, ConstantsAssumption DEF Asked, Receiving, Suits
    <2>4. Fits("declared")
      BY <2>1 DEF Fits
    <2>5. QED  BY <2>1, <2>2, <2>3, <2>4, AsksHold
  <1>8. CASE EndFunction
    <2>1. point = "declared" /\ Define(made) /\ made' = Null
      BY <1>8 DEF EndFunction
    <2>2. pending # <<>> /\ made \in objects /\ kind[made] # "environment" /\ request = Null /\ returned = Null
      BY <2>1, Hands DEF HandsInv, Fits, At, Suits, Receiving
    <2>3. made \in SomeValue
      BY <2>2 DEF SomeValue, ValueObjects
    <2>4. QED  BY <2>1, <2>2, <2>3, DefineHolds
  <1>9. CASE Block
    <2>1. /\ point = "exec" /\ Asks("environment", Env, {}, "scope")
          /\ UNCHANGED <<rootVars, pending>>
      BY <1>9 DEF Block
    <2>2. made = Null /\ request = Null /\ returned = Null
      BY <2>1, EmptyHands DEF Receiving
    <2>3. Asked("environment", Env, {}, "scope")
      BY Hands, EnvRooted, ConstantsAssumption DEF Asked, Receiving, Suits
    <2>4. Fits("scope")
      BY DEF Fits
    <2>5. QED  BY <2>1, <2>2, <2>3, <2>4, AsksHold
  <1>10. CASE EnterBlock
    BY <1>10, EnterBlockHolds
  <1>11. CASE EndBlock
    <2>1. pending # <<>> /\ point = "exec" /\ Ends("done", Null)
      BY <1>11 DEF EndBlock, At
    <2>2. made = Null /\ request = Null /\ returned = Null
      BY <2>1, EmptyHands DEF Receiving
    <2>3. QED  BY <1>0, <2>1, <2>2, EndsHold
  <1>12. CASE NextStatement
    <2>1. point = "done" /\ Steps("exec", Null)
      BY <1>12 DEF NextStatement
    <2>2. made = Null /\ request = Null /\ returned = Null
      BY <2>1, EmptyHands DEF Receiving
    <2>3. QED  BY <1>0, <2>1, <2>2, FitsAnywhere, StepsHold
  <1>13. CASE Return
    <2>1. /\ pending # <<>> /\ Top.at = "return" /\ point = "value" /\ returned' = value
          /\ Leave /\ Goes("return", Null)
          /\ UNCHANGED <<heapVars, globals, names, made, request>>
      BY <1>13 DEF Return, At
    <2>2. made = Null /\ request = Null /\ value \in SomeValue
      BY <2>1, EmptyHands, Hands DEF Receiving, ContentsInv
    <2>3. \E i \in DOMAIN pending : pending[i].at = "body"
      <3>1. /\ Len(pending) \in DOMAIN pending /\ Top = pending[Len(pending)]
            /\ DOMAIN pending = 1..Len(pending)
        BY <2>1, Hands, TopCall DEF FramesInv
      <3>2. InPlace(Len(pending))
        BY <3>1, Hands DEF FramesInv
      <3>3. QED  BY <2>1, <3>1, <3>2 DEF InPlace
    <2>4. QED  BY <2>1, <2>2, <2>3, ReturnHolds
  <1>14. CASE ReturnThrough
    <2>1. /\ point = "return" /\ ~At("body") /\ Leave /\ Goes("return", Null)
          /\ UNCHANGED <<heapVars, globals, names, made, request>> /\ returned' = returned
      BY <1>14 DEF ReturnThrough, Ends
    <2>2. /\ made = Null /\ request = Null /\ returned \in SomeValue
          /\ \E i \in DOMAIN pending : pending[i].at = "body"
      BY <2>1, Hands DEF Receiving, HandsInv, Fits, ContentsInv
    <2>3. pending # <<>> /\ Top.at # "body"
      BY <2>1, <2>2 DEF At
    <2>4. QED  BY <2>1, <2>2, <2>3, ReturnHolds
  <1>15. CASE FailThrough
    <2>1. point = "failed" /\ (IF pending = <<>> THEN Steps("exec", Null) ELSE Ends("failed", Null))
      BY <1>15 DEF FailThrough
    <2>2. made = Null /\ request = Null /\ returned = Null
      BY <2>1, EmptyHands DEF Receiving
    <2>3. CASE pending = <<>>
      BY <1>0, <2>1, <2>2, <2>3, FitsAnywhere, StepsHold
    <2>4. CASE pending # <<>>
      BY <1>0, <2>1, <2>2, <2>4, EndsHold
    <2>5. QED  BY <2>3, <2>4
  <1>16. QED
    BY <1>1, <1>2, <1>3, <1>4, <1>5, <1>6, <1>7, <1>8, <1>9, <1>10, <1>11, <1>12, <1>13,
       <1>14, <1>15 DEF StatementStep

-----------------------------------------------------------------------------
(* Expressions.                                                            *)

\* What was just made is the value.
LEMMA StringLiteralHolds ==
    ASSUME IInv, StringLiteral
    PROVE  IInv'
  <1>1. /\ point = "string" /\ point' = "value" /\ value' = made /\ made' = Null
        /\ UNCHANGED <<heapVars, globals, names, active, stack, temps, returned, pending, request>>
    BY DEF StringLiteral, Goes, rootVars
  <1>2. made \in objects /\ kind[made] # "environment" /\ request = Null /\ returned = Null
    BY <1>1, Hands DEF HandsInv, Receiving, Suits
  <1>3. value' \in SomeValue
    BY <1>1, <1>2 DEF SomeValue, ValueObjects
  <1>4. active' \in Seq(objects) /\ stack' \in Seq(SomeValue) /\ temps' \in Seq(SomeValue)
    BY <1>1, Hands DEF ContentsInv
  <1>5. ContentsInv' /\ SomeScope' = SomeScope
    BY <1>1, <1>3, <1>4, Hands, SameContents
  <1>6. FramesInv'
    BY <1>1, <1>5, Hands, SameFrames
  <1>7. "value" \in Anywhere
    BY DEF Anywhere
  <1>8. HandsInv'
    BY <1>1, <1>2, <1>7, FitsAnywhere, HandsStep
  <1>9. QED  BY <1>5, <1>6, <1>8 DEF IInv

\* An operand is kept.
LEMMA KeepOperandHolds ==
    ASSUME IInv, NEW a \in DOMAIN NextOperand, KeepOperand(a)
    PROVE  IInv'
  <1> DEFINE b == NextOperand[a][1]
             p == NextOperand[a][2]
             f == [Top EXCEPT !.at = b, !.held = Append(@, value)]
  <1>1. /\ pending # <<>> /\ Top.at = a /\ point = "value"
        /\ pending' = [pending EXCEPT ![Len(pending)] = f] /\ point' = p /\ value' = Null
        /\ temps' = Append(temps, value)
        /\ UNCHANGED <<heapVars, globals, names, active, stack, returned, made, request>>
    BY DEF KeepOperand, At, Become, Goes
  <1>2. made = Null /\ request = Null /\ returned = Null /\ value \in SomeValue /\ value \in Value
    BY <1>1, EmptyHands, Hands, RootsKnown DEF Receiving, ContentsInv
  <1>3. /\ a \in {"left", "right", "object", "target", "subscript", "callee"}
        /\ b \in {"right", "operands", "index", "subscript", "element", "arguments"}
        /\ HeldCount(b) = HeldCount(a) + 1
        /\ HeldCount(a) \in Nat
        /\ p \in {"eval", "operate", "arguments"}
        /\ p = "operate" => b = "operands"
        /\ p = "arguments" => b = "arguments"
    BY DEF NextOperand, HeldCount
  <1>4. active' \in Seq(objects) /\ stack' \in Seq(SomeValue) /\ temps' \in Seq(SomeValue)
        /\ value' \in SomeValue
    BY <1>1, <1>2, Hands DEF ContentsInv
  <1>5. ContentsInv' /\ SomeScope' = SomeScope
    BY <1>1, <1>4, Hands, SameContents
  <1>6. Top \in FrameType
    BY <1>1, Hands, TopCall
  <1>7. /\ f \in FrameType /\ f.at = b /\ f.env = Top.env /\ f.held = Append(Top.held, value)
        /\ f.temps = Top.temps /\ f.active = Top.active /\ f.stack = Top.stack
    <2>1. Append(Top.held, value) \in Seq(Value)
      BY <1>2, <1>6 DEF FrameType
    <2>2. QED  BY <1>3, <1>6, <2>1 DEF FrameType
  <1>8. ActiveRoots(f) = 0 /\ ActiveRoots(Top) = 0 /\ ~HasRegion(Top)
    BY <1>1, <1>3, <1>7 DEF ActiveRoots, HasRegion
  <1>9. /\ Len(temps) = Top.temps + Len(Top.held)
        /\ Len(active) = Top.active + 0
        /\ Len(stack) = Top.stack
        /\ Top.env \in SomeScope
        /\ Top.env # Null => \E j \in 1..Len(active) : active[j] = Top.env
        /\ Len(Top.held) = HeldCount(a)
        /\ \A k \in 1..Len(Top.held) : Top.held[k] = temps[Top.temps + k]
    BY <1>1, <1>8, Hands, TopCall
  <1>10. /\ Len(Top.held) \in Nat /\ Top.temps \in Nat /\ Top.active \in Nat /\ Top.stack \in Nat
         /\ Top.held \in Seq(Value)
         /\ temps \in Seq(SomeValue) /\ Len(temps) \in Nat /\ Len(active) \in Nat
    BY <1>6, Hands, FrameFields DEF ContentsInv
  <1>11. /\ Len(temps') = Len(temps) + 1 /\ temps'[Len(temps) + 1] = value
         /\ \A k \in 1..Len(temps) : temps'[k] = temps[k]
    BY <1>1, <1>2, <1>10
  <1>12. Owns(f, Now', temps', active', SomeScope')
    <2>1. Now'.temps = Len(temps) + 1 /\ Now'.active = Len(active) /\ Now'.stack = Len(stack)
      BY <1>1, <1>11 DEF Now, Frame
    <2>2. /\ Len(f.held) = Len(Top.held) + 1
          /\ \A k \in 1..Len(Top.held) : f.held[k] = Top.held[k]
          /\ f.held[Len(Top.held) + 1] = value
      BY <1>2, <1>7, <1>10
    <2>3. \A k \in 1..Len(f.held) : f.held[k] = temps'[f.temps + k]
      <3>1. TAKE k \in 1..Len(f.held)
      <3>2. CASE k \in 1..Len(Top.held)
        <4>1. Top.temps + k \in 1..Len(temps)
          BY <1>9, <1>10, <3>2
        <4>2. QED  BY <1>7, <1>9, <1>11, <2>2, <3>2, <4>1
      <3>3. CASE k = Len(Top.held) + 1
        <4>1. Top.temps + k = Len(temps) + 1
          BY <1>9, <1>10, <3>3, SMTT(30)
        <4>2. QED  BY <1>7, <1>11, <2>2, <3>3, <4>1
      <3>4. QED  BY <1>10, <2>2, <3>2, <3>3
    <2>4. Len(f.held) = HeldCount(f.at)
      BY <1>3, <1>7, <1>9, <2>2
    <2>5. Now'.temps = f.temps + Len(f.held) /\ Now'.active = f.active + ActiveRoots(f)
          /\ Now'.stack >= f.stack /\ Now'.stack = f.stack
      BY <1>7, <1>8, <1>9, <1>10, <2>1, <2>2
    <2>6. f.env \in SomeScope' /\ (f.env # Null => \E j \in 1..Now'.active : active'[j] = f.env)
      BY <1>1, <1>5, <1>7, <1>9, <2>1
    <2>7. QED  BY <2>3, <2>4, <2>5, <2>6 DEF Owns
  <1>13. FramesInv'
    <2>1. Agree(temps, temps', Top.temps)
      <3>1. \A k \in 1..Top.temps : k \in 1..Len(temps)
        BY <1>9, <1>10
      <3>2. QED  BY <1>11, <3>1 DEF Agree
    <2>2. Agree(active, active', Top.active)
      BY <1>1 DEF Agree
    <2>3. f.stack <= Len(stack')
      BY <1>1, <1>7, <1>9, <1>10
    <2>4. f.at \notin {"body", "return"} /\ SomeScope \subseteq SomeScope'
      BY <1>3, <1>5, <1>7
    <2>5. QED  BY <1>1, <1>5, <1>7, <1>12, <2>1, <2>2, <2>3, <2>4, Hands, BecomeFrames
  <1>14. Fits(p)'
    <2>1. pending' # <<>> /\ Top' = f
      <3>1. pending' # <<>> /\ pending'[Len(pending')] = f
        BY <1>1, <1>7, Hands, TopCall DEF FramesInv
      <3>2. QED  BY <3>1 DEF Top
    <2>2. Top'.at = b
      BY <1>7, <2>1
    <2>3. QED  BY <1>3, <2>1, <2>2 DEF Fits, At
  <1>15. HandsInv'
    <2>1. p \notin Receiving /\ p \notin {"allocate", "collected", "return"}
      BY <1>3 DEF Receiving
    <2>2. QED  BY <1>1, <1>2, <1>14, <2>1, HandsStep
  <1>16. QED  BY <1>5, <1>13, <1>15 DEF IInv

\* An argument or element goes to stack_.
LEMMA PushItemHolds ==
    ASSUME IInv, NEW a \in {"arguments", "elements"}, PushItem(a)
    PROVE  IInv'
  <1>1. /\ pending # <<>> /\ Top.at = a /\ point = "value"
        /\ pending' = pending /\ point' = a /\ value' = Null
        /\ stack' = Append(stack, value)
        /\ UNCHANGED <<heapVars, globals, names, active, temps, returned, made, request>>
    BY DEF PushItem, At, Goes
  <1>2. made = Null /\ request = Null /\ returned = Null /\ value \in SomeValue
    BY <1>1, EmptyHands, Hands DEF Receiving, ContentsInv
  <1>3. active' \in Seq(objects) /\ stack' \in Seq(SomeValue) /\ temps' \in Seq(SomeValue)
        /\ value' \in SomeValue
    BY <1>1, <1>2, Hands DEF ContentsInv
  <1>4. ContentsInv' /\ SomeScope' = SomeScope
    BY <1>1, <1>3, Hands, SameContents
  <1>5. Top \in FrameType /\ HasRegion(Top)
    BY <1>1, Hands, TopCall DEF HasRegion
  <1>6. /\ Len(temps) = Top.temps + Len(Top.held)
        /\ Len(active) = Top.active + ActiveRoots(Top)
        /\ Len(stack) >= Top.stack
        /\ Top.env \in SomeScope
        /\ Top.env # Null => \E j \in 1..Len(active) : active[j] = Top.env
        /\ Len(Top.held) = HeldCount(Top.at)
        /\ \A k \in 1..Len(Top.held) : Top.held[k] = temps[Top.temps + k]
    BY <1>1, Hands, TopCall
  <1>7. Len(stack') = Len(stack) + 1 /\ Len(stack) \in Nat /\ Top.stack \in Nat
    BY <1>1, <1>2, <1>5, Hands, FrameFields DEF ContentsInv
  <1>8. Top.stack <= Len(stack') /\ Len(stack') >= Top.stack
    BY <1>6, <1>7
  <1>9. Owns(Top, Now', temps', active', SomeScope')
    <2>1. Now'.temps = Len(temps) /\ Now'.active = Len(active) /\ Now'.stack = Len(stack')
      BY <1>1 DEF Now, Frame
    <2>2. temps' = temps /\ active' = active
      BY <1>1
    <2>3. QED  BY <1>4, <1>5, <1>6, <1>8, <2>1, <2>2 DEF Owns
  <1>10. FramesInv'
    <2>1. pending' = [pending EXCEPT ![Len(pending)] = Top]
      BY <1>1, Hands, TopCall DEF FramesInv
    <2>2. Agree(temps, temps', Top.temps) /\ Agree(active, active', Top.active)
      BY <1>1 DEF Agree
    <2>3. Top.at \notin {"body", "return"} /\ SomeScope \subseteq SomeScope'
      BY <1>1, <1>4
    <2>4. QED  BY <1>1, <1>4, <1>5, <1>8, <1>9, <2>1, <2>2, <2>3, Hands, BecomeFrames
  <1>11. Fits(a)'
    BY <1>1 DEF Fits, At, Top
  <1>12. HandsInv'
    <2>1. a \notin Receiving /\ a \notin {"allocate", "collected", "return"}
      BY DEF Receiving
    <2>2. QED  BY <1>1, <1>2, <1>11, <2>1, HandsStep
  <1>13. QED  BY <1>4, <1>10, <1>12 DEF IInv

\* An assignment stores in a scope, an array or the globals, and is done.
LEMMA StoreHolds ==
    ASSUME IInv, pending # <<>>, NEW v \in SomeValue, Leave, Goes("value", v),
           UNCHANGED <<objects, kind, link, names, returned, made, request>>,
           \/ globals' \in Stored(globals, v) /\ contents' = contents
           \/ \E s \in objects : \E S \in Stored(contents[s], v) :
                 contents' = [contents EXCEPT ![s] = S] /\ globals' = globals,
           made = Null, request = Null, returned = Null
    PROVE  IInv'
  <1>1. /\ contents \in [Address -> SUBSET Address] /\ globals \subseteq ValueObjects
        /\ \A o \in objects : contents[o] \subseteq ValueObjects
        /\ ValueObjects \subseteq Address /\ objects \subseteq Address
    BY Hands DEF ContentsInv, ValueObjects
  <1>2. globals' \subseteq ValueObjects
    BY <1>1, StoredKnown
  <1>3. contents' \in [Address -> SUBSET Address] /\ \A o \in objects : contents'[o] \subseteq ValueObjects
    <2>1. CASE contents' = contents
      BY <1>1, <2>1
    <2>2. CASE contents' # contents
      <3>0. PICK s \in objects : \E S \in Stored(contents[s], v) : contents' = [contents EXCEPT ![s] = S]
        BY <2>2
      <3>1. PICK S \in Stored(contents[s], v) : contents' = [contents EXCEPT ![s] = S]
        BY <3>0
      <3>2. S \subseteq ValueObjects
        BY <1>1, StoredKnown
      <3>3. contents' = [q \in Address |-> IF q = s THEN S ELSE contents[q]]
        BY <1>1, <3>1
      <3>4. \A q \in Address : contents'[q] \subseteq Address
        BY <1>1, <3>2, <3>3
      <3>5. \A o \in objects : contents'[o] \subseteq ValueObjects
        BY <1>1, <3>2, <3>3
      <3>6. QED  BY <3>3, <3>4, <3>5
    <2>3. QED  BY <2>1, <2>2
  <1>4. point' = "value" /\ value' = v /\ returned' = Null /\ made' = Null /\ request' = Null
    BY DEF Goes
  <1>5. "value" \in Anywhere
    BY DEF Anywhere
  <1>6. QED  BY <1>2, <1>3, <1>4, <1>5, LeaveHolds

\* What is on stack_ is a value and rooted.
LEMMA RegionRooted ==
    ASSUME ContentsInv, NEW b \in Nat
    PROVE  Region(b) \subseteq SomeValue /\ Region(b) \ {Null} \subseteq ValueObjects \cap Roots
  <1>1. \A i \in b + 1 .. Len(stack) : stack[i] \in SomeValue /\ stack[i] \in Range(stack)
    BY DEF ContentsInv, Range
  <1>2. Region(b) \subseteq SomeValue /\ Region(b) \subseteq Range(stack)
    BY <1>1 DEF Region
  <1>3. QED  BY <1>2 DEF Roots, SomeValue

\* The steps of expressions.
LEMMA ExpressionHolds ==
    ASSUME IInv, ExpressionStep
    PROVE  IInv'
  <1>0. /\ {"exec", "eval", "value", "done", "failed", "name", "named"} \subseteq Anywhere
        /\ Null \in SomeValue
    BY DEF Anywhere, SomeValue
  <1>1. CASE Literal
    <2>1. point = "eval"
      BY <1>1 DEF Literal
    <2>2. made = Null /\ request = Null /\ returned = Null
      BY <2>1, EmptyHands DEF Receiving
    <2>3. CASE Steps("value", Null)
      BY <1>0, <2>2, <2>3, FitsAnywhere, StepsHold
    <2>4. ASSUME NEW t \in Text, Intern(t, "string")
          PROVE  IInv'
      <3>1. Fits("string")
        BY DEF Fits
      <3>2. QED  BY <2>2, <2>4, <3>1, InternHolds
    <2>5. QED  BY <1>1, <2>3, <2>4 DEF Literal
  <1>2. CASE StringLiteral
    BY <1>2, StringLiteralHolds
  <1>3. CASE ReadVariable
    <2>1. pending # <<>> /\ point = "named"
      BY <1>3 DEF ReadVariable, At
    <2>2. made = Null /\ request = Null /\ returned = Null
      BY <2>1, EmptyHands DEF Receiving
    <2>3. ASSUME NEW v \in globals \cup {Null} \cup UNION {contents[s] : s \in Scopes(Env)},
                 Ends("value", v)
          PROVE  IInv'
      <3>1. Scopes(Env) \subseteq objects
        BY Hands, EnvRooted, ScopesKnown DEF ScopeObjects
      <3>2. globals \subseteq ValueObjects /\ \A s \in Scopes(Env) : contents[s] \subseteq ValueObjects
        BY <3>1, Hands DEF ContentsInv
      <3>3. UNION {contents[s] : s \in Scopes(Env)} \subseteq ValueObjects
        BY <3>2
      <3>4. v \in SomeValue
        BY <3>2, <3>3 DEF SomeValue
      <3>5. QED  BY <1>0, <2>1, <2>2, <2>3, <3>4, EndsHold
    <2>4. QED  BY <1>3, <2>2, <2>3, FailsHold DEF ReadVariable
  <1>4. CASE AssignVariable
    <2>1. pending # <<>> /\ point = "value"
      BY <1>4 DEF AssignVariable, At
    <2>2. made = Null /\ request = Null /\ returned = Null /\ value \in SomeValue
      BY <2>1, EmptyHands, Hands DEF Receiving, ContentsInv
    <2>3. CASE Fails
      BY <2>2, <2>3, FailsHold
    <2>4. CASE ~Fails
      <3>1. /\ \/ globals' \in Stored(globals, value) /\ UNCHANGED contents
               \/ /\ \E s \in Scopes(Env) : \E S \in Stored(contents[s], value) :
                        contents' = [contents EXCEPT ![s] = S]
                  /\ UNCHANGED globals
            /\ Leave
            /\ Goes("value", value)
            /\ UNCHANGED <<objects, kind, link, names, returned, made, request>>
        BY <1>4, <2>4 DEF AssignVariable
      <3>2. Scopes(Env) \subseteq objects
        BY Hands, EnvRooted, ScopesKnown DEF ScopeObjects
      <3>3. \/ globals' \in Stored(globals, value) /\ contents' = contents
            \/ \E s \in objects : \E S \in Stored(contents[s], value) :
                  contents' = [contents EXCEPT ![s] = S] /\ globals' = globals
        BY <3>1, <3>2
      <3>4. QED  BY <2>1, <2>2, <3>1, <3>3, StoreHolds
    <2>5. QED  BY <2>3, <2>4
  <1>5. CASE Unary
    <2>1. pending # <<>> /\ point = "value" /\ (Ends("value", Null) \/ Fails)
      BY <1>5 DEF Unary, At
    <2>2. made = Null /\ request = Null /\ returned = Null
      BY <2>1, EmptyHands DEF Receiving
    <2>3. QED  BY <1>0, <2>1, <2>2, EndsHold, FailsHold
  <1>6. CASE Logical
    <2>1. pending # <<>> /\ point = "value" /\ (Ends("value", value) \/ Ends("eval", Null))
      BY <1>6 DEF Logical, At
    <2>2. made = Null /\ request = Null /\ returned = Null /\ value \in SomeValue
      BY <2>1, EmptyHands, Hands DEF Receiving, ContentsInv
    <2>3. CASE Ends("value", value)
      BY <1>0, <2>1, <2>2, <2>3, EndsHold
    <2>4. CASE Ends("eval", Null)
      BY <1>0, <2>1, <2>2, <2>4, EndsHold
    <2>5. QED  BY <2>1, <2>3, <2>4
  <1>7. CASE Binary
    <2>1. point = "operate" /\ (Ends("value", Null) \/ Fails)
      BY <1>7 DEF Binary
    <2>2. made = Null /\ request = Null /\ returned = Null
      BY <2>1, EmptyHands DEF Receiving
    <2>3. pending # <<>>
      BY <2>1, Hands DEF HandsInv, Fits, At
    <2>4. QED  BY <1>0, <2>1, <2>2, <2>3, EndsHold, FailsHold
  <1>8. CASE NextItem
    <2>1. point \in {"arguments", "elements"} /\ Steps("eval", Null)
      BY <1>8 DEF NextItem
    <2>2. made = Null /\ request = Null /\ returned = Null
      BY <2>1, EmptyHands DEF Receiving
    <2>3. QED  BY <1>0, <2>1, <2>2, FitsAnywhere, StepsHold
  <1>9. CASE MakeArray
    <2>1. /\ point = "elements" /\ UNCHANGED <<rootVars, pending>>
          /\ Asks("array", Null, Region(Top.stack) \ {Null}, "result")
      BY <1>9 DEF MakeArray
    <2>2. made = Null /\ request = Null /\ returned = Null
      BY <2>1, EmptyHands DEF Receiving
    <2>3. pending # <<>>
      BY <2>1, Hands DEF HandsInv, Fits, At
    <2>4. Top.stack \in Nat
      BY <2>3, Hands, TopCall, FrameFields
    <2>5. Asked("array", Null, Region(Top.stack) \ {Null}, "result")
      BY <2>4, Hands, RegionRooted, ConstantsAssumption DEF Asked, Receiving, Suits
    <2>6. Fits("result")
      BY <2>3 DEF Fits
    <2>7. QED  BY <2>1, <2>2, <2>5, <2>6, AsksHold
  <1>10. CASE EndWithObject
    <2>1. /\ point = "result" /\ Leave /\ made' = Null /\ Goes("value", made)
          /\ UNCHANGED <<heapVars, globals, names, returned, request>>
      BY <1>10 DEF EndWithObject
    <2>2. /\ pending # <<>> /\ made \in objects /\ kind[made] # "environment"
          /\ request = Null /\ returned = Null
      BY <2>1, Hands DEF HandsInv, Fits, Receiving, Suits
    <2>3. made \in SomeValue
      BY <2>2 DEF SomeValue, ValueObjects
    <2>4. /\ UNCHANGED <<objects, kind, link, names>> /\ contents' = contents /\ globals' = globals
          /\ point' = "value" /\ value' = made /\ returned' = Null /\ request' = Null
      BY <2>1, <2>2 DEF Goes, heapVars
    <2>5. /\ contents \in [Address -> SUBSET Address] /\ globals \subseteq ValueObjects
          /\ \A o \in objects : contents[o] \subseteq ValueObjects
      BY Hands DEF ContentsInv
    <2>6. QED  BY <1>0, <2>1, <2>2, <2>3, <2>4, <2>5, LeaveHolds
  <1>11. CASE Index
    <2>1. pending # <<>> /\ Top.at = "index" /\ point = "value"
      BY <1>11 DEF Index, At
    <2>2. made = Null /\ request = Null /\ returned = Null
      BY <2>1, EmptyHands DEF Receiving
    <2>3. ASSUME IsArray(Top.held[1]), NEW v \in contents[Top.held[1]] \cup {Null}, Ends("value", v)
          PROVE  IInv'
      <3>1. 1 \in 1..Len(Top.held)
        BY <2>1, Hands, TopCall DEF HeldCount
      <3>2. Top.held[1] \in objects
        BY <2>1, <2>3, <3>1, Hands, HeldRooted DEF IsArray, SomeValue, ValueObjects
      <3>3. v \in SomeValue
        BY <2>3, <3>2, Hands DEF ContentsInv, SomeValue
      <3>4. QED  BY <1>0, <2>1, <2>2, <2>3, <3>3, EndsHold
    <2>4. QED  BY <1>11, <2>2, <2>3, FailsHold DEF Index
  <1>12. CASE IndexAssign
    <2>1. pending # <<>> /\ Top.at = "element" /\ point = "value"
      BY <1>12 DEF IndexAssign, At
    <2>2. made = Null /\ request = Null /\ returned = Null /\ value \in SomeValue
      BY <2>1, EmptyHands, Hands DEF Receiving, ContentsInv
    <2>3. CASE Fails
      BY <2>2, <2>3, FailsHold
    <2>4. CASE ~Fails
      <3>1. /\ IsArray(Top.held[1])
            /\ \E S \in Stored(contents[Top.held[1]], value) :
                  contents' = [contents EXCEPT ![Top.held[1]] = S]
            /\ Leave
            /\ Goes("value", value)
            /\ UNCHANGED <<objects, kind, link, globals, names, returned, made, request>>
        BY <1>12, <2>4 DEF IndexAssign
      <3>2. 1 \in 1..Len(Top.held)
        <4>1. Len(Top.held) = 2
          BY <2>1, Hands, TopCall DEF HeldCount
        <4>2. QED  BY <4>1
      <3>3. Top.held[1] \in objects
        BY <2>1, <3>1, <3>2, Hands, HeldRooted DEF IsArray, SomeValue, ValueObjects
      <3>4. \E s \in objects : \E S \in Stored(contents[s], value) :
                contents' = [contents EXCEPT ![s] = S] /\ globals' = globals
        BY <3>1, <3>3
      <3>5. QED  BY <2>1, <2>2, <3>1, <3>4, StoreHolds
    <2>5. QED  BY <2>3, <2>4
  <1>13. ASSUME NEW t \in Text, Concatenate(t)
         PROVE  IInv'
    <2>1. point = "operate" /\ Intern(t, "result")
      BY <1>13 DEF Concatenate
    <2>2. made = Null /\ request = Null /\ returned = Null
      BY <2>1, EmptyHands DEF Receiving
    <2>3. Fits("result")
      BY <2>1, Hands DEF HandsInv, Fits, At
    <2>4. QED  BY <2>1, <2>2, <2>3, InternHolds
  <1>14. QED
    BY <1>1, <1>2, <1>3, <1>4, <1>5, <1>6, <1>7, <1>8, <1>9, <1>10, <1>11, <1>12, <1>13,
       KeepOperandHolds, PushItemHolds DEF ExpressionStep

-----------------------------------------------------------------------------
(* Calls.                                                                  *)

\* call_global and the native array() begin with one value kept.
LEMMA PushHeldFrames ==
    ASSUME FramesInv, ContentsInv, ContentsInv', SomeScope' = SomeScope,
           NEW a \in {"called", "native"}, NEW v \in SomeValue,
           pending' = Append(pending, [Frame(a, Null) EXCEPT !.held = <<v>>]),
           temps' = Append(temps, v), active' = active, stack' = stack
    PROVE  FramesInv' /\ pending' # <<>> /\ Top'.at = a
  <1> DEFINE f == [Frame(a, Null) EXCEPT !.held = <<v>>]
  <1>1. /\ Len(temps) \in Nat /\ Len(active) \in Nat /\ Len(stack) \in Nat
        /\ temps \in Seq(SomeValue)
    BY DEF ContentsInv
  <1>2. /\ f.at = a /\ f.env = Null /\ f.held = <<v>>
        /\ f.temps = Len(temps) /\ f.active = Len(active) /\ f.stack = Len(stack)
    BY DEF Frame
  <1>3. f \in FrameType
    <2>1. v \in Value
      BY RootsKnown
    <2>2. <<v>> \in Seq(Value) /\ Null \in Value
      BY <2>1 DEF Value
    <2>3. QED  BY <1>1, <2>2 DEF Frame, FrameType
  <1>4. /\ Len(temps') = Len(temps) + 1 /\ temps'[Len(temps) + 1] = v
        /\ Agree(temps, temps', Len(temps))
    BY <1>1 DEF Agree
  <1>5. Owns(f, Now', temps', active', SomeScope')
    <2>1. Now'.temps = Len(temps) + 1 /\ Now'.active = Len(active) /\ Now'.stack = Len(stack)
      BY <1>4 DEF Now, Frame
    <2>2. Len(f.held) = 1 /\ HeldCount(f.at) = 1 /\ ActiveRoots(f) = 0
      BY <1>2 DEF HeldCount, ActiveRoots
    <2>3. \A k \in 1..1 : f.held[k] = temps'[f.temps + k]
      BY <1>2, <1>4
    <2>4. f.env \in SomeScope'
      BY <1>2 DEF SomeScope
    <2>5. QED  BY <1>1, <1>2, <2>1, <2>2, <2>3, <2>4 DEF Owns
  <1>6. FramesInv'
    <2>1. Agree(active, active', Len(active)) /\ SomeScope \subseteq SomeScope'
      BY DEF Agree
    <2>2. f.at # "body" /\ f.at # "return"
      BY <1>2
    <2>3. QED  BY <1>2, <1>3, <1>4, <1>5, <2>1, <2>2, PushFrames
  <1>7. pending' # <<>> /\ pending'[Len(pending')] = f
    <2>1. pending \in Seq(FrameType)
      BY DEF FramesInv
    <2>2. QED  BY <1>3, <2>1
  <1>8. QED  BY <1>2, <1>6, <1>7 DEF Top

\* The callee of call_global is a root from then on.
LEMMA CallGlobalHolds ==
    ASSUME IInv, CallGlobal
    PROVE  IInv'
  <1>1. /\ point = "key" /\ made' = Null /\ value' = Null
        /\ UNCHANGED <<heapVars, globals, names, active, stack, returned, request>>
    BY DEF CallGlobal, Goes
  <1>2. request = Null /\ returned = Null
    BY <1>1, Hands
  <1>3. value' \in SomeValue /\ active' \in Seq(objects) /\ stack' \in Seq(SomeValue)
        /\ temps \in Seq(SomeValue)
    BY <1>1, Hands DEF ContentsInv
  <1>4. ASSUME NEW callee \in globals \cup {Null},
               pending' = Append(pending, [Frame("called", Null) EXCEPT !.held = <<callee>>]),
               temps' = Append(temps, callee), point' = "call"
        PROVE  IInv'
    <2>1. callee \in SomeValue
      BY Hands DEF ContentsInv, SomeValue
    <2>2. temps' \in Seq(SomeValue)
      BY <1>3, <1>4, <2>1
    <2>3. ContentsInv' /\ SomeScope' = SomeScope
      BY <1>1, <1>3, <2>2, Hands, SameContents
    <2>4. FramesInv' /\ pending' # <<>> /\ Top'.at = "called"
      BY <1>1, <1>4, <2>1, <2>3, Hands, PushHeldFrames
    <2>5. Fits("call")'
      BY <2>4 DEF Fits, At
    <2>6. HandsInv'
      BY <1>1, <1>2, <1>4, <2>5, HandsStep DEF Receiving
    <2>7. QED  BY <2>3, <2>4, <2>6 DEF IInv
  <1>5. CASE point' = "failed" /\ UNCHANGED <<pending, temps>>
    <2>1. temps' \in Seq(SomeValue)
      BY <1>3, <1>5
    <2>2. ContentsInv' /\ SomeScope' = SomeScope
      BY <1>1, <1>3, <2>1, Hands, SameContents
    <2>3. FramesInv'
      BY <1>1, <1>5, <2>2, Hands, SameFrames
    <2>4. "failed" \in Anywhere
      BY DEF Anywhere
    <2>5. HandsInv'
      BY <1>1, <1>2, <1>5, <2>4, FitsAnywhere, HandsStep
    <2>6. QED  BY <2>2, <2>3, <2>5 DEF IInv
  <1>6. QED  BY <1>4, <1>5 DEF CallGlobal, Push, Goes

\* The callee of a call is a root; so is what its closure can be reached from.
LEMMA CalleeKnown ==
    ASSUME IInv, At("called"), Callee # Null
    PROVE  Callee \in objects \cap Roots /\ link[Callee] \in SomeScope
  <1>1. pending # <<>> /\ Top.at = "called"
    BY DEF At
  <1>2. 1 \in 1..Len(Top.held)
    <2>1. Len(Top.held) = 1
      BY <1>1, Hands, TopCall DEF HeldCount
    <2>2. QED  BY <2>1
  <1>3. Callee \in SomeValue /\ Callee \in Roots \cup {Null}
    BY <1>1, <1>2, Hands, HeldRooted DEF Callee
  <1>4. Callee \in objects
    BY <1>3 DEF SomeValue, ValueObjects
  <1>5. QED  BY <1>3, <1>4, Hands DEF ContentsInv

\* The scope of a body and its function are roots while it is executed.
LEMMA EnterFunctionHolds ==
    ASSUME IInv, EnterFunction
    PROVE  IInv'
  <1> DEFINE f == Frame("body", made)
  <1>1. /\ pending' = Append(pending, f) /\ point' = "parameters" /\ value' = Null
        /\ active' = active \o <<Callee, made>> /\ made' = Null
        /\ UNCHANGED <<heapVars, globals, names, stack, temps, returned, request>>
        /\ point = "frame"
    BY DEF EnterFunction, Push, Goes
  <1>2. made \in ScopeObjects /\ request = Null /\ returned = Null
        /\ At("called") /\ Callee # Null
    BY <1>1, Hands DEF HandsInv, Receiving, Suits, ScopeObjects, Fits
  <1>3. Callee \in objects /\ made \in objects /\ made # Null
    BY <1>2, CalleeKnown, Hands, ConstantsAssumption DEF ScopeObjects, ContentsInv
  <1>4. /\ active \in Seq(objects) /\ Len(temps) \in Nat /\ Len(active) \in Nat /\ Len(stack) \in Nat
        /\ stack' \in Seq(SomeValue) /\ temps' \in Seq(SomeValue) /\ value' \in SomeValue
    BY <1>1, Hands DEF ContentsInv
  <1>5. PICK two \in Seq(objects) : two = <<Callee, made>> /\ Len(two) = 2 /\ two[2] = made
    <2>1. <<Callee, made>> \in Seq(objects) /\ Len(<<Callee, made>>) = 2
          /\ <<Callee, made>>[2] = made
      BY <1>3
    <2>2. QED  BY <2>1
  <1>6. /\ active' \in Seq(objects) /\ Len(active') = Len(active) + 2
        /\ active'[Len(active) + 2] = made /\ Agree(active, active', Len(active))
    <2>1. active' = active \o two
      BY <1>1, <1>5
    <2>2. QED  BY <1>4, <1>5, <2>1 DEF Agree
  <1>7. ContentsInv' /\ SomeScope' = SomeScope
    BY <1>1, <1>4, <1>6, Hands, SameContents
  <1>8. made \in SomeScope /\ made \in Value
    BY <1>2, Hands, RootsKnown DEF SomeScope
  <1>9. f \in FrameType
    BY <1>4, <1>8 DEF Frame, FrameType
  <1>10. /\ f.at = "body" /\ f.env = made /\ f.held = <<>>
         /\ f.temps = Len(temps) /\ f.active = Len(active) /\ f.stack = Len(stack)
    BY DEF Frame
  <1>11. Owns(f, Now', temps', active', SomeScope')
    <2>1. Now'.temps = Len(temps) /\ Now'.active = Len(active) + 2 /\ Now'.stack = Len(stack)
      BY <1>1, <1>6 DEF Now, Frame
    <2>2. Len(f.held) = 0 /\ HeldCount(f.at) = 0 /\ ActiveRoots(f) = 2
      BY <1>10 DEF HeldCount, ActiveRoots
    <2>3. Len(active) + 2 \in 1..(Len(active) + 2)
      BY <1>4
    <2>4. temps' = temps /\ f.env \in SomeScope' /\ active'[Len(active) + 2] = f.env
      BY <1>1, <1>6, <1>7, <1>8, <1>10
    <2>5. Now'.temps = f.temps + Len(f.held)
      BY <1>4, <1>10, <2>1, <2>2
    <2>6. Now'.active = f.active + ActiveRoots(f)
      BY <1>10, <2>1, <2>2
    <2>7. Now'.stack >= f.stack /\ Now'.stack = f.stack
      BY <1>4, <1>10, <2>1
    <2>8. Len(f.held) = HeldCount(f.at)
      BY <2>2
    <2>9. \E j \in 1..Now'.active : active'[j] = f.env
      BY <2>1, <2>3, <2>4
    <2>10. \A k \in 1..Len(f.held) : f.held[k] = temps'[f.temps + k]
      BY <2>2
    <2>11. QED  BY <2>4, <2>5, <2>6, <2>7, <2>8, <2>9, <2>10 DEF Owns
  <1>12. FramesInv'
    <2>1. Agree(temps, temps', Len(temps)) /\ stack' = stack
      BY <1>1 DEF Agree
    <2>2. /\ f.at # "return" /\ SomeScope \subseteq SomeScope'
          /\ pending # <<>> /\ Top.at = "called" /\ f.env # Null
      BY <1>2, <1>3, <1>7, <1>10 DEF At
    <2>3. QED  BY <1>1, <1>6, <1>7, <1>9, <1>10, <1>11, <2>1, <2>2, Hands, PushFrames
  <1>13. HandsInv'
    <2>1. pending' # <<>> /\ pending'[Len(pending')] = f
      <3>1. pending \in Seq(FrameType) /\ pending' = Append(pending, f)
        BY <1>1, Hands DEF FramesInv
      <3>2. QED  BY <1>9, <3>1
    <2>2. Fits("parameters")'
      BY <1>10, <2>1 DEF Fits, At, Top
    <2>3. QED  BY <1>1, <1>2, <2>2, HandsStep DEF Receiving
  <1>14. QED  BY <1>7, <1>12, <1>13 DEF IInv

\* A body is executed for a call that is pending.
LEMMA BodyCalled ==
    ASSUME IInv, At("body")
    PROVE  pending[Len(pending) - 1].stack \in Nat /\ Env # Null
  <1>1. /\ pending # <<>> /\ Top.at = "body" /\ Top = pending[Len(pending)]
        /\ Len(pending) \in DOMAIN pending /\ DOMAIN pending = 1..Len(pending)
        /\ Len(pending) \in Nat
    BY Hands, TopCall DEF At, FramesInv
  <1>2. InPlace(Len(pending))
    BY <1>1, Hands DEF FramesInv
  <1>3. Len(pending) > 1 /\ Top.env # Null
    BY <1>1, <1>2 DEF InPlace
  <1>4. Len(pending) - 1 \in 1..Len(pending)
    BY <1>1, <1>3
  <1>5. pending[Len(pending) - 1] \in FrameType
    BY <1>1, <1>4, Hands DEF FramesInv
  <1>6. pending[Len(pending) - 1].stack \in Nat
    BY <1>5, FrameFields
  <1>7. QED  BY <1>1, <1>3, <1>6 DEF Env

\* The arguments are on stack_ above those of the calls outside.
LEMMA ArgumentsKnown ==
    ASSUME IInv, At("body")
    PROVE  Arguments \subseteq SomeValue /\ Env \in objects
  <1>1. Arguments \subseteq SomeValue
    BY BodyCalled, Hands, RegionRooted DEF Arguments
  <1>2. Env \in objects
    BY BodyCalled, Hands, EnvRooted DEF SomeScope, ScopeObjects
  <1>3. QED  BY <1>1, <1>2

\* An argument becomes a variable of the body's scope.
LEMMA BindParameterHolds ==
    ASSUME IInv, BindParameter
    PROVE  IInv'
  <1>1. /\ point = "named" /\ At("body") /\ point' = "parameters" /\ value' = Null
        /\ UNCHANGED <<objects, kind, link, globals, names, active, stack, temps, returned>>
        /\ UNCHANGED <<pending, made, request>>
    BY DEF BindParameter, Goes, rootVars
  <1>2. PICK v \in Arguments : contents' = [contents EXCEPT ![Env] = @ \cup ({v} \ {Null})]
    BY DEF BindParameter
  <1>3. made = Null /\ request = Null /\ returned = Null
    BY <1>1, EmptyHands DEF Receiving
  <1>4. {v} \ {Null} \subseteq ValueObjects /\ ValueObjects \subseteq Address
        /\ objects \subseteq Address
    BY <1>1, ArgumentsKnown, Hands DEF SomeValue, ValueObjects, ContentsInv
  <1>5. /\ contents \in [Address -> SUBSET Address]
        /\ \A o \in objects : contents[o] \subseteq ValueObjects
    BY Hands DEF ContentsInv
  <1>6. contents' \in [Address -> SUBSET Address] /\ \A o \in objects : contents'[o] \subseteq ValueObjects
    <2>1. contents' = [q \in Address |-> IF q = Env THEN contents[q] \cup ({v} \ {Null})
                                                    ELSE contents[q]]
      BY <1>2, <1>5
    <2>2. \A q \in Address : contents[q] \subseteq Address
      BY <1>5
    <2>3. \A q \in Address : contents'[q] \subseteq Address
      BY <1>4, <2>1, <2>2
    <2>4. \A o \in objects : contents'[o] \subseteq ValueObjects
      BY <1>4, <1>5, <2>1
    <2>5. QED  BY <2>1, <2>3, <2>4
  <1>7. /\ globals' \subseteq ValueObjects
        /\ names' \subseteq ValueObjects /\ \A o \in names' : kind[o] \in Text
        /\ active' \in Seq(objects) /\ stack' \in Seq(SomeValue) /\ temps' \in Seq(SomeValue)
        /\ returned' \in SomeValue /\ value' \in SomeValue
    BY <1>1, Hands DEF ContentsInv
  <1>8. ContentsInv' /\ SomeScope' = SomeScope
    BY <1>1, <1>6, <1>7, Hands, ContentsStep
  <1>9. FramesInv'
    BY <1>1, <1>8, Hands, SameFrames
  <1>10. Fits("parameters")'
    BY <1>1 DEF Fits, At, Top
  <1>11. HandsInv'
    BY <1>1, <1>3, <1>10, HandsStep DEF Receiving
  <1>12. QED  BY <1>8, <1>9, <1>11 DEF IInv

\* array(n, fill) asks for its array with the fill kept.
LEMMA NativeArrayHolds ==
    ASSUME IInv, NativeArray
    PROVE  IInv'
  <1> DEFINE fill == stack[Len(stack)]
  <1>1. /\ point = "call" /\ Len(stack) = Top.stack + 2
        /\ pending' = Append(pending, [Frame("native", Null) EXCEPT !.held = <<fill>>])
        /\ temps' = Append(temps, fill)
        /\ UNCHANGED <<heapVars, globals, names, active, stack, returned, made>>
        /\ point' = "allocate" /\ value' = Null
    BY DEF NativeArray, Push, Asks, Goes
  <1>2. PICK S \in {{}, {fill} \ {Null}} :
            request' = [kind |-> "array", link |-> Null, contents |-> S, next |-> "result"]
    BY DEF NativeArray, Asks
  <1>3. made = Null /\ returned = Null /\ pending # <<>>
    BY <1>1, EmptyHands, Hands DEF Receiving, HandsInv, Fits, At
  <1>4. stack \in Seq(SomeValue) /\ temps \in Seq(SomeValue)
    BY Hands DEF ContentsInv
  <1>5. fill \in SomeValue /\ fill \in Range(stack)
    <2>1. Top.stack \in Nat
      BY <1>3, Hands, TopCall, FrameFields
    <2>2. Len(stack) \in 1..Len(stack)
      BY <1>1, <2>1
    <2>3. QED  BY <1>4, <2>2 DEF Range
  <1>6. active' \in Seq(objects) /\ stack' \in Seq(SomeValue) /\ temps' \in Seq(SomeValue)
        /\ value' \in SomeValue
    BY <1>1, <1>4, <1>5, Hands DEF ContentsInv
  <1>7. ContentsInv' /\ SomeScope' = SomeScope /\ ValueObjects' = ValueObjects
    BY <1>1, <1>6, Hands, SameContents
  <1>8. FramesInv' /\ pending' # <<>>
    BY <1>1, <1>5, <1>7, Hands, PushHeldFrames
  <1>9. HandsInv'
    <2>1. S \subseteq ValueObjects /\ S \subseteq Range(stack) \ {Null}
      BY <1>2, <1>5 DEF SomeValue
    <2>2. /\ request'.next = "result" /\ request'.kind = "array" /\ request'.link = Null
          /\ request'.contents = S
      BY <1>2
    <2>3. request' \in Request
      BY <1>2, <2>1, Hands DEF Request, Receiving, Value, ValueObjects, ContentsInv
    <2>4. S \subseteq ValueObjects' \cap Roots'
      BY <1>1, <1>7, <2>1 DEF Roots
    <2>5. Fits(request.next)'
      BY <1>8, <2>2 DEF Fits
    <2>6. Suits(request'.next, request'.kind)
      BY <2>2 DEF Suits
    <2>7. Fits(point)'
      BY <1>1 DEF Fits
    <2>8. "allocate" \notin Receiving /\ Null \in SomeScope'
      BY DEF Receiving, SomeScope
    <2>9. NewString(request)'
      BY <2>2, ConstantsAssumption DEF NewString
    <2>10. QED
      BY <1>1, <1>3, <2>2, <2>3, <2>4, <2>5, <2>6, <2>7, <2>8, <2>9 DEF HandsInv
  <1>10. QED  BY <1>7, <1>8, <1>9 DEF IInv

\* The steps of calls.
LEMMA CallHolds ==
    ASSUME IInv, CallStep
    PROVE  IInv'
  <1>0. /\ {"exec", "eval", "value", "done", "failed", "name", "named"} \subseteq Anywhere
        /\ Null \in SomeValue
    BY DEF Anywhere, SomeValue
  <1>1. CASE CallValue
    <2>1. /\ point = "arguments" /\ Become([Top EXCEPT !.at = "called"]) /\ Goes("call", Null)
          /\ UNCHANGED <<heapVars, rootVars, made, request>>
      BY <1>1 DEF CallValue
    <2>2. made = Null /\ request = Null /\ returned = Null
      BY <2>1, EmptyHands DEF Receiving
    <2>3. pending # <<>> /\ Top.at = "arguments"
      BY <2>1, Hands DEF HandsInv, Fits, At
    <2>4. QED  BY <2>1, <2>2, <2>3, RestageHolds
  <1>2. ASSUME NEW t \in Text, BeginCallGlobal(t)
        PROVE  IInv'
    <2>1. point = "exec" /\ Intern(t, "key")
      BY <1>2 DEF BeginCallGlobal
    <2>2. made = Null /\ request = Null /\ returned = Null
      BY <2>1, EmptyHands DEF Receiving
    <2>3. Fits("key")
      BY DEF Fits
    <2>4. QED  BY <2>1, <2>2, <2>3, InternHolds
  <1>3. CASE CallGlobal
    BY <1>3, CallGlobalHolds
  <1>4. CASE CallFails
    <2>1. point = "call" /\ Fails
      BY <1>4 DEF CallFails
    <2>2. made = Null /\ request = Null /\ returned = Null
      BY <2>1, EmptyHands DEF Receiving
    <2>3. QED  BY <2>1, <2>2, FailsHold
  <1>5. CASE CallFunction
    <2>1. /\ point = "call" /\ Callee # Null /\ UNCHANGED <<rootVars, pending>>
          /\ Asks("environment", link[Callee], {}, "frame")
      BY <1>5 DEF CallFunction
    <2>2. made = Null /\ request = Null /\ returned = Null
      BY <2>1, EmptyHands DEF Receiving
    <2>3. At("called")
      BY <2>1, Hands DEF HandsInv, Fits
    <2>4. Callee \in objects \cap Roots /\ link[Callee] \in SomeScope
      BY <2>1, <2>3, CalleeKnown
    <2>5. Asked("environment", link[Callee], {}, "frame")
      BY <2>4, ConstantsAssumption DEF Asked, Receiving, Suits
    <2>6. Fits("frame")
      BY <2>1, <2>3 DEF Fits
    <2>7. QED  BY <2>1, <2>2, <2>5, <2>6, AsksHold
  <1>6. CASE EnterFunction
    BY <1>6, EnterFunctionHolds
  <1>7. CASE NextParameter
    <2>1. point = "parameters" /\ Steps("name", Null)
      BY <1>7 DEF NextParameter
    <2>2. made = Null /\ request = Null /\ returned = Null
      BY <2>1, EmptyHands DEF Receiving
    <2>3. QED  BY <1>0, <2>1, <2>2, FitsAnywhere, StepsHold
  <1>8. CASE BindParameter
    BY <1>8, BindParameterHolds
  <1>9. CASE StartBody
    <2>1. point = "parameters" /\ Steps("exec", Null)
      BY <1>9 DEF StartBody
    <2>2. made = Null /\ request = Null /\ returned = Null
      BY <2>1, EmptyHands DEF Receiving
    <2>3. QED  BY <1>0, <2>1, <2>2, FitsAnywhere, StepsHold
  <1>10. CASE EndBody
    <2>1. pending # <<>> /\ point = "exec" /\ Ends("value", Null)
      BY <1>10 DEF EndBody, At
    <2>2. made = Null /\ request = Null /\ returned = Null
      BY <2>1, EmptyHands DEF Receiving
    <2>3. QED  BY <1>0, <2>1, <2>2, EndsHold
  <1>11. CASE ReturnFromBody
    <2>1. /\ pending # <<>> /\ point = "return" /\ Leave /\ Goes("value", returned)
          /\ returned' = Null /\ UNCHANGED <<heapVars, globals, names, made, request>>
      BY <1>11 DEF ReturnFromBody, At
    <2>2. made = Null /\ request = Null /\ returned \in SomeValue
      BY <2>1, Hands DEF Receiving, ContentsInv
    <2>3. /\ UNCHANGED <<objects, kind, link, names>> /\ contents' = contents /\ globals' = globals
          /\ point' = "value" /\ value' = returned
      BY <2>1 DEF Goes, heapVars
    <2>4. /\ contents \in [Address -> SUBSET Address] /\ globals \subseteq ValueObjects
          /\ \A o \in objects : contents[o] \subseteq ValueObjects
      BY Hands DEF ContentsInv
    <2>5. QED  BY <1>0, <2>1, <2>2, <2>3, <2>4, LeaveHolds
  <1>12. CASE EndCall
    <2>1. pending # <<>> /\ point = "value" /\ Ends("value", value)
      BY <1>12 DEF EndCall, At
    <2>2. made = Null /\ request = Null /\ returned = Null /\ value \in SomeValue
      BY <2>1, EmptyHands, Hands DEF Receiving, ContentsInv
    <2>3. QED  BY <1>0, <2>1, <2>2, EndsHold
  <1>13. CASE EndCallGlobal
    <2>1. point = "value" /\ Steps("exec", Null)
      BY <1>13 DEF EndCallGlobal
    <2>2. made = Null /\ request = Null /\ returned = Null
      BY <2>1, EmptyHands DEF Receiving
    <2>3. QED  BY <1>0, <2>1, <2>2, FitsAnywhere, StepsHold
  <1>14. CASE CallNative
    <2>1. point = "call" /\ Ends("value", Null)
      BY <1>14 DEF CallNative
    <2>2. made = Null /\ request = Null /\ returned = Null
      BY <2>1, EmptyHands DEF Receiving
    <2>3. pending # <<>>
      BY <2>1, Hands DEF HandsInv, Fits, At
    <2>4. QED  BY <1>0, <2>1, <2>2, <2>3, EndsHold
  <1>15. CASE NativeArray
    BY <1>15, NativeArrayHolds
  <1>16. QED
    BY <1>1, <1>2, <1>3, <1>4, <1>5, <1>6, <1>7, <1>8, <1>9, <1>10, <1>11, <1>12, <1>13,
       <1>14, <1>15 DEF CallStep

-----------------------------------------------------------------------------
(* The invariant holds, and what follows from it.                          *)

\* A run begins with nothing.
LEMMA InitHolds == Init => IInv
  <1> SUFFICES ASSUME Init PROVE IInv
    OBVIOUS
  <1>1. ContentsInv
    BY DEF Init, ContentsInv, SomeValue, Value
  <1>2. FramesInv
    <2>1. pending = <<>> /\ DOMAIN pending = {} /\ pending \in Seq(FrameType)
      BY DEF Init
    <2>2. Above(0) = Now /\ Now.temps = 0 /\ Now.active = 0 /\ Now.stack = 0
      BY DEF Init, Above, Now, Frame
    <2>3. QED  BY <2>1, <2>2 DEF FramesInv
  <1>3. HandsInv
    BY DEF Init, HandsInv, Fits, Receiving
  <1>4. QED  BY <1>1, <1>2, <1>3 DEF IInv

\* Nothing happens.
LEMMA Unchanged ==
    ASSUME IInv, UNCHANGED vars
    PROVE  IInv'
  <1>1. /\ UNCHANGED <<heapVars, globals, names, active, stack, temps, returned>>
        /\ UNCHANGED <<pending, point, value, made, request>>
        /\ objects' = objects /\ kind' = kind /\ link' = link
    BY DEF vars, rootVars, heapVars
  <1>2. active' \in Seq(objects) /\ stack' \in Seq(SomeValue) /\ temps' \in Seq(SomeValue)
        /\ value' \in SomeValue
    BY <1>1, Hands DEF ContentsInv
  <1>3. ContentsInv' /\ SomeScope' = SomeScope /\ ValueObjects' = ValueObjects
    BY <1>1, <1>2, Hands, SameContents
  <1>4. FramesInv'
    BY <1>1, <1>3, Hands, SameFrames
  <1>5. HandsInv'
    <2>1. Roots' = Roots
      BY <1>1 DEF Roots
    <2>2. HandsInv
      BY Hands
    <2>3. Fits(point)' /\ (Fits(request.next) => Fits(request.next)')
      BY <1>1, <2>2 DEF HandsInv, Fits, At, Top, Callee
    <2>4. NewString(request) => NewString(request)'
      BY <1>1 DEF NewString, Strings
    <2>5. QED  BY <1>1, <1>3, <2>1, <2>2, <2>3, <2>4 DEF HandsInv
  <1>6. QED  BY <1>3, <1>4, <1>5 DEF IInv

\* Every step preserves it.
LEMMA NextHolds == IInv /\ [Next]_vars => IInv'
  <1> SUFFICES ASSUME IInv, [Next]_vars PROVE IInv'
    OBVIOUS
  <1>1. ASSUME NEW a \in Statements \cup Expressions, Begin(a) PROVE IInv'
    BY <1>1, BeginHolds
  <1>2. CASE HeapStep
    <2>1. CASE OutOfMemory
      BY <2>1, Unchanged DEF OutOfMemory
    <2>2. QED  BY <1>2, <2>1, CollectHolds, InternedHolds, AllocateHolds, NameHolds DEF HeapStep
  <1>3. CASE UNCHANGED vars
    BY <1>3, Unchanged
  <1>4. QED
    BY <1>1, <1>2, <1>3, StatementHolds, ExpressionHolds, CallHolds DEF Next

\* The invariant of the engine's roots.
THEOREM Invariant == Spec => []IInv
  BY InitHolds, NextHolds, PTL DEF Spec

\* Every variable has its type; a scope is in a scope, a value is never one,
\* and names are strings.
THEOREM TypeCorrect == Spec => []TypeOK
  <1>1. IInv => TypeOK
    <2> SUFFICES ASSUME IInv PROVE TypeOK
      OBVIOUS
    <2>1. /\ objects \in SUBSET Address
          /\ kind \in [Address -> Text \cup {"free", "environment", "function", "array"}]
          /\ link \in [Address -> Value]
          /\ contents \in [Address -> SUBSET Address]
      BY Hands DEF ContentsInv
    <2>2. globals \in SUBSET Address /\ names \in SUBSET Address
      BY Hands DEF ContentsInv, ValueObjects
    <2>3. active \in Seq(Address) /\ stack \in Seq(Value) /\ temps \in Seq(Value)
      <3>1. objects \subseteq Address /\ SomeValue \subseteq Value
        BY Hands, RootsKnown
      <3>2. active \in Seq(objects) /\ stack \in Seq(SomeValue) /\ temps \in Seq(SomeValue)
        BY Hands DEF ContentsInv
      <3>3. QED  BY <3>1, <3>2
    <2>4. {returned, value, made} \subseteq Value
      <3>1. returned \in Value /\ value \in Value /\ objects \subseteq Address
        BY Hands, RootsKnown DEF ContentsInv
      <3>2. made \in objects \cup {Null}
        BY Hands DEF HandsInv
      <3>3. QED  BY <3>1, <3>2 DEF Value
    <2>5. pending \in Seq(FrameType)
      BY Hands DEF FramesInv
    <2>6. request \in Request \cup {Null}
      BY Hands DEF HandsInv
    <2>7. \A o \in objects : link[o] # Null => kind[link[o]] = "environment"
      BY Hands DEF ContentsInv, SomeScope, ScopeObjects
    <2>8. \A o \in objects : \A v \in contents[o] : kind[v] # "environment"
      BY Hands DEF ContentsInv, ValueObjects
    <2>9. \A o \in names : kind[o] \in Text
      BY Hands DEF ContentsInv
    <2>10. QED  BY <2>1, <2>2, <2>3, <2>4, <2>5, <2>6, <2>7, <2>8, <2>9 DEF TypeOK
  <1>2. QED  BY <1>1, Invariant, PTL

\* The operands of every pending call are roots.
LEMMA OperandsRooted ==
    ASSUME FramesInv, ContentsInv, NEW i \in DOMAIN pending
    PROVE  Range(pending[i].held) \subseteq SomeValue
  <1>1. i \in 0..Len(pending) /\ Len(pending) \in Nat /\ i \in 1..Len(pending)
        /\ pending[i] \in FrameType
    BY DEF FramesInv
  <1>2. Above(i).temps \in Nat /\ Above(i).temps <= Len(temps)
    BY <1>1, AboveNat, NowFrame DEF FramesInv, BelowAll, Below, Now
  <1>3. /\ Above(i).temps = pending[i].temps + Len(pending[i].held)
        /\ \A k \in 1..Len(pending[i].held) : pending[i].held[k] = temps[pending[i].temps + k]
    BY DEF FramesInv, Owns
  <1>4. pending[i].temps \in Nat /\ Len(pending[i].held) \in Nat
        /\ pending[i].held \in Seq(Value)
    BY <1>1, FrameFields
  <1>5. temps \in Seq(SomeValue) /\ Len(temps) \in Nat
    BY DEF ContentsInv
  <1>6. ASSUME NEW k \in 1..Len(pending[i].held)
        PROVE  pending[i].held[k] \in SomeValue
    <2>1. pending[i].temps + k \in 1..Len(temps)
      BY <1>2, <1>3, <1>4, <1>5
    <2>2. temps[pending[i].temps + k] \in SomeValue
      BY <1>5, <2>1
    <2>3. QED  BY <1>3, <2>2
  <1>7. QED  BY <1>4, <1>6 DEF Range

\* Whatever the engine still needs is allocated, whenever collections ran and
\* however deep it is in expressions, blocks and calls.
THEOREM NeverLost == Spec => []NothingLost
  <1>1. IInv => NothingLost
    <2> SUFFICES ASSUME IInv PROVE NothingLost
      OBVIOUS
    <2>1. SomeValue \subseteq objects \cup {Null} /\ SomeScope \subseteq objects \cup {Null}
      BY DEF SomeValue, SomeScope, ValueObjects, ScopeObjects
    <2>2. {pending[i].env : i \in DOMAIN pending} \subseteq objects \cup {Null}
      BY <2>1, Hands, EnvsRooted
    <2>3. \A i \in DOMAIN pending : Range(pending[i].held) \subseteq objects \cup {Null}
      BY <2>1, Hands, OperandsRooted
    <2>4. /\ Range(stack) \subseteq objects \cup {Null}
          /\ Range(active) \subseteq objects \cup {Null}
      <3>1. stack \in Seq(SomeValue) /\ active \in Seq(objects)
        BY Hands DEF ContentsInv
      <3>2. QED  BY <2>1, <3>1, RangeType
    <2>5. globals \cup names \subseteq objects \cup {Null}
      BY Hands DEF ContentsInv, ValueObjects
    <2>6. {returned, value, made} \subseteq objects \cup {Null}
      <3>1. returned \in SomeValue /\ value \in SomeValue
        BY Hands DEF ContentsInv
      <3>2. made \in objects \cup {Null}
        BY Hands DEF HandsInv
      <3>3. QED  BY <2>1, <3>1, <3>2
    <2>7. request # Null => request.contents \cup {request.link} \subseteq objects \cup {Null}
      <3>1. SUFFICES ASSUME request # Null
                     PROVE  request.contents \cup {request.link} \subseteq objects \cup {Null}
        OBVIOUS
      <3>2. request.link \in SomeScope /\ request.contents \subseteq ValueObjects
        BY <3>1, Hands DEF HandsInv
      <3>3. QED  BY <2>1, <3>2 DEF ValueObjects
    <2>8. Needed \ {Null} \subseteq objects
      BY <2>2, <2>3, <2>4, <2>5, <2>6, <2>7 DEF Needed
    <2>9. QED  BY <2>8, Hands, RootsKnown DEF NothingLost
  <1>2. QED  BY <1>1, Invariant, PTL

\* The roots are those of the pending calls and no more, on every way out of
\* a call, and none is left when nothing runs.
THEOREM AlwaysReleased == Spec => []RootsReleased
  <1>1. IInv => RootsReleased
    <2> SUFFICES ASSUME IInv PROVE RootsReleased
      OBVIOUS
    <2>1. \A i \in DOMAIN pending :
              /\ Above(i).temps = pending[i].temps + Len(pending[i].held)
              /\ Above(i).active = pending[i].active + ActiveRoots(pending[i])
              /\ Above(i).stack >= pending[i].stack
              /\ ~HasRegion(pending[i]) => Above(i).stack = pending[i].stack
      BY Hands DEF FramesInv, Owns
    <2>2. pending \in Seq(FrameType) /\ Len(pending) \in Nat
          /\ Above(0).temps = 0 /\ Above(0).active = 0 /\ Above(0).stack = 0
      BY Hands DEF FramesInv
    <2>3. CASE pending = <<>>
      <3>1. Above(0).temps = Len(temps) /\ Above(0).active = Len(active)
            /\ Above(0).stack = Len(stack)
        BY <2>3, NowFrame DEF Above
      <3>2. temps \in Seq(SomeValue) /\ active \in Seq(objects) /\ stack \in Seq(SomeValue)
        BY Hands DEF ContentsInv
      <3>3. temps = <<>> /\ active = <<>> /\ stack = <<>>
        BY <2>2, <3>1, <3>2
      <3>4. point # "return"
        BY <2>3, Hands DEF HandsInv, Fits
      <3>5. returned = Null
        BY <3>4, Hands
      <3>6. QED  BY <2>1, <2>3, <3>3, <3>5 DEF RootsReleased
    <2>4. CASE pending # <<>>
      <3>1. Above(0) = pending[1]
        BY <2>2, <2>4 DEF Above
      <3>2. QED  BY <2>1, <2>2, <2>4, <3>1 DEF RootsReleased
    <2>5. QED  BY <2>3, <2>4
  <1>2. QED  BY <1>1, Invariant, PTL

-----------------------------------------------------------------------------
(* The engine as a client of the heap.                                     *)

\* The values of the abstract variables.
refsMap == [o \in objects |-> Refs(o)]
textMap == [o \in objects |-> IF kind[o] \in Text THEN kind[o] ELSE NoText]
Held == Roots \cup ({value} \ {Null})

\* What the engine can get at.
Got == Reach(Held \cup ({made} \ {Null}))

PromiseStep == [Promise!Next]_Promise!vars

-----------------------------------------------------------------------------
(* What can be got at.                                                     *)

\* The contract's reachability is the engine's.
LEMMA SameReach ==
    /\ \A S : Promise!Reach(S) = Reach(S)
    /\ Promise!Accessible = Got
  <1>1. ASSUME NEW S
        PROVE  Promise!Reach(S) = Reach(S)
    BY DEF Promise!Reach, Reach
  <1>2. QED  BY <1>1 DEF Promise!Accessible, Got, Held

\* What is in a variable can be got at, and so is what that refers to.
LEMMA GotClosed ==
    ASSUME IInv
    PROVE  /\ Held \subseteq Got /\ made \in Got \cup {Null}
           /\ Roots \subseteq Got /\ value \in Got \cup {Null}
           /\ Got \subseteq objects /\ objects \subseteq Address
           /\ \A o \in Got : Refs(o) \subseteq Got
           /\ Null \notin objects
  <1>1. /\ Roots \subseteq objects /\ \A o \in objects : Refs(o) \subseteq objects
        /\ objects \subseteq Address
    BY Hands, RootsKnown
  <1>2. value \in objects \cup {Null} /\ made \in objects \cup {Null}
    <2>1. value \in SomeValue
      BY Hands DEF ContentsInv
    <2>2. made \in objects \cup {Null}
      BY Hands DEF HandsInv
    <2>3. QED  BY <2>1, <2>2 DEF SomeValue, ValueObjects
  <1>3. PICK S \in SUBSET objects : S = Held \cup ({made} \ {Null})
    BY <1>1, <1>2 DEF Held
  <1>4. S \in SUBSET Address /\ \A o \in objects : Refs(o) \subseteq Address
    BY <1>1
  <1>5. S \subseteq Reach(S) /\ \A o \in Reach(S) \cap objects : Refs(o) \subseteq Reach(S)
    BY <1>4, ReachClosed
  <1>6. Reach(S) \subseteq objects
    <2>1. objects \in SUBSET Address /\ \A o \in objects \cap objects : Refs(o) \subseteq objects
      BY <1>1
    <2>2. QED  BY <2>1, ReachLeast
  <1>7. Got = Reach(S)
    BY <1>3 DEF Got
  <1>8. QED  BY <1>1, <1>2, <1>3, <1>5, <1>6, <1>7, ConstantsAssumption DEF Held

\* Every variable of the engine is about something it can get at.
LEMMA HeldKnown ==
    ASSUME IInv
    PROVE  /\ globals \subseteq Got /\ names \subseteq Got
           /\ Range(active) \subseteq Got \cup {Null} /\ Range(stack) \subseteq Got \cup {Null}
           /\ Range(temps) \subseteq Got \cup {Null} /\ returned \in Got \cup {Null}
  <1>1. Roots \subseteq Got /\ Null \notin objects
    BY GotClosed
  <1>2. globals \subseteq objects /\ names \subseteq objects
    BY Hands DEF ContentsInv, ValueObjects
  <1>3. QED  BY <1>1, <1>2 DEF Roots

\* The roots come from the variables.
LEMMA HeldWithin ==
    ASSUME NEW G, globals' \subseteq G, names' \subseteq G,
           Range(active') \subseteq G \cup {Null}, Range(stack') \subseteq G \cup {Null},
           Range(temps') \subseteq G \cup {Null},
           returned' \in G \cup {Null}, value' \in G \cup {Null}
    PROVE  Held' \subseteq G
  BY DEF Held, Roots

\* The scopes around one that can be got at.
LEMMA ScopesGot ==
    ASSUME IInv, NEW e \in Got \cup {Null}
    PROVE  Scopes(e) \subseteq Got
  <1> SUFFICES ASSUME NEW s \in Scopes(e), s \notin Got
               PROVE  FALSE
    OBVIOUS
  <1>1. Got \in SUBSET (Address \ {s}) /\ {e} \ {Null} \subseteq Got
    BY GotClosed
  <1>2. \A p \in Got \cap objects : link[p] \in Got \cup {Null}
    BY GotClosed DEF Refs
  <1>3. QED  BY <1>1, <1>2 DEF Scopes

\* The contents of an object that can be got at.
LEMMA ContentsGot ==
    ASSUME IInv, NEW o \in Got
    PROVE  contents[o] \subseteq Got /\ o \in objects
  BY GotClosed DEF Refs

\* A longer sequence has one value more.
LEMMA AppendRange ==
    ASSUME NEW S, NEW s \in Seq(S), NEW v \in S
    PROVE  Range(Append(s, v)) \subseteq Range(s) \cup {v}
  BY DEF Range

\* The beginning of a sequence has nothing new.
LEMMA AgreeRange ==
    ASSUME NEW S, NEW s \in Seq(S), NEW t \in Seq(S), Agree(s, t, Len(t)), Len(t) <= Len(s)
    PROVE  Range(t) \subseteq Range(s)
  <1>1. \A k \in 1..Len(t) : t[k] = s[k] /\ k \in 1..Len(s)
    BY DEF Agree
  <1>2. QED  BY <1>1 DEF Range

\* A call that returns adds no root.
LEMMA LeaveRanges ==
    ASSUME IInv, pending # <<>>, Leave
    PROVE  /\ Range(active') \subseteq Got \cup {Null} /\ Range(stack') \subseteq Got \cup {Null}
           /\ Range(temps') \subseteq Got \cup {Null}
  <1>1. /\ temps' \in Seq(SomeValue) /\ stack' \in Seq(SomeValue) /\ active' \in Seq(objects)
        /\ Len(temps') = Top.temps /\ Len(active') = Top.active /\ Len(stack') = Top.stack
        /\ Agree(temps, temps', Top.temps) /\ Agree(active, active', Top.active)
        /\ Agree(stack, stack', Top.stack)
        /\ Top.temps <= Len(temps) /\ Top.active <= Len(active) /\ Top.stack <= Len(stack)
    BY Hands, LeaveStacks
  <1>2. temps \in Seq(SomeValue) /\ stack \in Seq(SomeValue) /\ active \in Seq(objects)
    BY Hands DEF ContentsInv
  <1>3. Range(temps') \subseteq Range(temps)
    BY <1>1, <1>2, AgreeRange
  <1>4. Range(active') \subseteq Range(active)
    BY <1>1, <1>2, AgreeRange
  <1>5. Range(stack') \subseteq Range(stack)
    BY <1>1, <1>2, AgreeRange
  <1>6. QED  BY <1>3, <1>4, <1>5, HeldKnown

-----------------------------------------------------------------------------
(* The contract's steps.                                                   *)

\* The engine holds other things than before.
LEMMA HoldRefines ==
    ASSUME IInv, UNCHANGED heapVars, Held' \subseteq Got, made' \in {made, Null}
    PROVE  PromiseStep
  <1>1. UNCHANGED <<objects, refsMap, textMap>>
    BY DEF heapVars, refsMap, textMap, Refs
  <1>2. Promise!Regroup
    BY SameReach DEF Promise!Regroup, Held
  <1>3. Promise!Hold
    BY <1>1, <1>2 DEF Promise!Hold, refsMap, textMap
  <1>4. QED  BY <1>3 DEF PromiseStep, Promise!Next

\* The engine changes what a scope or an array contains.
LEMMA StoreRefines ==
    ASSUME IInv, NEW s \in Got, kind[s] \notin Text, NEW S, S \subseteq Got,
           UNCHANGED <<objects, kind, link>>, contents' = [contents EXCEPT ![s] = S],
           Held' \subseteq Got, made' \in {made, Null}
    PROVE  PromiseStep
  <1> DEFINE children == S \cup ({link[s]} \ {Null})
  <1>1. s \in objects /\ objects \subseteq Address /\ Got \subseteq objects
    BY GotClosed
  <1>2. children \subseteq Got
    BY GotClosed DEF Refs
  <1>3. contents \in [Address -> SUBSET Address]
    BY Hands DEF ContentsInv
  <1>4. \A o \in objects : contents'[o] = IF o = s THEN S ELSE contents[o]
    BY <1>1, <1>3
  <1>5. refsMap' = [refsMap EXCEPT ![s] = children]
    <2>1. \A o \in objects : Refs(o)' = IF o = s THEN children ELSE Refs(o)
      BY <1>4 DEF Refs
    <2>2. refsMap' = [o \in objects |-> IF o = s THEN children ELSE Refs(o)]
      BY <2>1 DEF refsMap
    <2>3. QED  BY <1>1, <2>2 DEF refsMap
  <1>6. textMap' = textMap /\ textMap[s] = NoText
    BY <1>1 DEF textMap
  <1>7. Promise!Regroup
    BY SameReach DEF Promise!Regroup, Held
  <1>8. Promise!Mutate(s, children)
    BY <1>1, <1>2, <1>5, <1>6, <1>7, SameReach DEF Promise!Mutate, refsMap, textMap
  <1>9. children \in SUBSET Promise!Accessible
    BY <1>2, SameReach
  <1>10. QED  BY <1>1, <1>8, <1>9 DEF PromiseStep, Promise!Next

\* The engine goes on with the same roots.
LEMMA SameRootsRefine ==
    ASSUME IInv, UNCHANGED <<heapVars, globals, names, active, stack, temps, returned>>,
           value' \in Got \cup {Null}, made' \in {made, Null}
    PROVE  PromiseStep
  <1>1. /\ globals' \subseteq Got /\ names' \subseteq Got
        /\ Range(active') \subseteq Got \cup {Null} /\ Range(stack') \subseteq Got \cup {Null}
        /\ Range(temps') \subseteq Got \cup {Null} /\ returned' \in Got \cup {Null}
    BY HeldKnown
  <1>2. Held' \subseteq Got
    BY <1>1, HeldWithin
  <1>3. QED  BY <1>2, HoldRefines

\* The same, with nothing in hand.
LEMMA StepsRefine ==
    ASSUME IInv, NEW p, Steps(p, Null)
    PROVE  PromiseStep
  BY SameRootsRefine DEF Steps, Goes, rootVars

\* A call returns.
LEMMA LeaveRefines ==
    ASSUME IInv, pending # <<>>, Leave, UNCHANGED <<heapVars, names>>,
           globals' \subseteq Got, returned' \in Got \cup {Null}, value' \in Got \cup {Null},
           made' \in {made, Null}
    PROVE  PromiseStep
  <1>1. names' \subseteq Got
    BY HeldKnown
  <1>2. Held' \subseteq Got
    BY <1>1, LeaveRanges, HeldWithin
  <1>3. QED  BY <1>2, HoldRefines

\* The same, with the value it was called for.
LEMMA EndsRefine ==
    ASSUME IInv, pending # <<>>, NEW p, NEW v \in Got \cup {Null}, Ends(p, v)
    PROVE  PromiseStep
  <1>1. /\ Leave /\ value' = v /\ UNCHANGED <<heapVars, globals, names, returned, made>>
    BY DEF Ends, Goes
  <1>2. globals' \subseteq Got /\ returned' \in Got \cup {Null}
    BY <1>1, HeldKnown
  <1>3. QED  BY <1>1, <1>2, LeaveRefines

\* A call returns that has stored a value.
LEMMA LeaveStoreRefines ==
    ASSUME IInv, pending # <<>>, Leave, UNCHANGED <<objects, kind, link, names, returned>>,
           NEW v \in Got \cup {Null}, value' \in Got \cup {Null}, made' \in {made, Null},
           \/ /\ globals' \subseteq globals \cup ({v} \ {Null})
              /\ contents' = contents
           \/ /\ globals' = globals
              /\ \E s \in Got : kind[s] \notin Text /\ \E S \in SUBSET Got :
                    contents' = [contents EXCEPT ![s] = S]
    PROVE  PromiseStep
  <1>1. names' \subseteq Got /\ returned' \in Got \cup {Null} /\ globals' \subseteq Got
    BY HeldKnown
  <1>2. CASE contents' = contents
    BY <1>1, <1>2, LeaveRefines DEF heapVars
  <1>3. CASE \E s \in Got : kind[s] \notin Text /\ \E S \in SUBSET Got :
                contents' = [contents EXCEPT ![s] = S]
    <2>1. PICK s \in Got : kind[s] \notin Text /\ \E S \in SUBSET Got :
                contents' = [contents EXCEPT ![s] = S]
      BY <1>3
    <2>2. PICK S \in SUBSET Got : contents' = [contents EXCEPT ![s] = S]
      BY <2>1
    <2>3. Held' \subseteq Got
      BY <1>1, LeaveRanges, HeldWithin
    <2>4. QED  BY <2>1, <2>2, <2>3, StoreRefines
  <1>4. QED  BY <1>2, <1>3

\* Asking for an object changes no root.
LEMMA AsksRefine ==
    ASSUME IInv, NEW k, NEW l, NEW c, NEW p, Asks(k, l, c, p), UNCHANGED rootVars
    PROVE  PromiseStep
  BY SameRootsRefine DEF Asks, Goes, rootVars

\* The string there is is the one the contract gives.
LEMMA InternRefines ==
    ASSUME IInv, NEW t \in Text, NEW p, Intern(t, p), value = Null
    PROVE  PromiseStep
  <1>1. CASE Asks(t, Null, {}, p) /\ UNCHANGED rootVars
    BY <1>1, AsksRefine
  <1>2. CASE made' \in Strings(t) /\ Goes(p, Null) /\ UNCHANGED <<heapVars, rootVars>>
    <2>1. /\ made' \in objects /\ kind[made'] = t /\ value' = Null
          /\ UNCHANGED <<objects, refsMap, textMap, Held>>
      BY <1>2 DEF Strings, Goes, heapVars, rootVars, refsMap, textMap, Refs, Held, Roots
    <2>2. PICK o \in Address : o = made' /\ o \in objects /\ kind[o] = t
      BY <2>1, GotClosed
    <2>3. textMap[o] = t
      BY <2>2 DEF textMap
    <2>4. o \in Promise!WithText(t)
      BY <2>2, <2>3 DEF Promise!WithText, textMap
    <2>5. Promise!Intern(t, o)
      BY <2>1, <2>2, <2>4 DEF Promise!Intern, refsMap, textMap, Held
    <2>6. QED  BY <2>5 DEF PromiseStep, Promise!Next
  <1>3. QED  BY <1>1, <1>2 DEF Intern

-----------------------------------------------------------------------------
(* The heap's steps.                                                       *)

\* A collection frees what no root leads to, with no value in hand.
LEMMA CollectRefines ==
    ASSUME IInv, Collect
    PROVE  PromiseStep
  <1>1. /\ point = "allocate" /\ objects' = objects \cap Reach(Roots) /\ value' = value
        /\ UNCHANGED <<Roots, made>>
        /\ \A o \in objects' \cap Address :
              kind'[o] = kind[o] /\ link'[o] = link[o] /\ contents'[o] = contents[o]
    BY DEF Collect, Goes, rootVars, Roots
  <1>2. made = Null /\ value = Null
    BY <1>1, Hands DEF Receiving
  <1>3. Held = Roots /\ Held' = Roots /\ objects' \subseteq objects /\ objects' \subseteq Address
    BY <1>1, <1>2, GotClosed DEF Held
  <1>4. \A o \in objects' : Refs(o)' = Refs(o) /\ kind'[o] = kind[o]
    BY <1>1, <1>3 DEF Refs
  <1>5. refsMap' = [o \in objects' |-> refsMap[o]] /\ textMap' = [o \in objects' |-> textMap[o]]
    BY <1>3, <1>4 DEF refsMap, textMap
  <1>6. objects' = objects \cap Promise!Reach(Held)
    BY <1>1, <1>3, SameReach
  <1>7. Promise!Collect
    BY <1>1, <1>2, <1>3, <1>5, <1>6 DEF Promise!Collect, refsMap, textMap, Held
  <1>8. QED  BY <1>7 DEF PromiseStep, Promise!Next

\* An allocation gets a new string or an object that refers to what a root
\* leads to.
LEMMA AllocateRefines ==
    ASSUME IInv, NEW o \in Address, Allocate(o)
    PROVE  PromiseStep
  <1>1. /\ point \in {"allocate", "collected"} /\ o \notin objects
        /\ objects' = objects \cup {o} /\ made' = o /\ value' = value
        /\ kind' = [kind EXCEPT ![o] = request.kind]
        /\ link' = [link EXCEPT ![o] = request.link]
        /\ contents' = [contents EXCEPT ![o] = request.contents]
        /\ UNCHANGED Roots
    BY DEF Allocate, MayAllocate, Goes, rootVars, Roots
  <1>2. /\ NewString(request) /\ request.kind \in Text \cup {"environment", "function", "array"}
        /\ request.link \in Roots \cup {Null} \cup {link[q] : q \in Roots \cap objects}
        /\ request.contents \subseteq Roots
        /\ value = Null
    BY <1>1, Hands DEF HandsInv, Request
  <1>3. Held = Roots /\ Held' = Roots
    BY <1>1, <1>2 DEF Held
  <1>4. /\ kind'[o] = request.kind /\ link'[o] = request.link /\ contents'[o] = request.contents
        /\ \A q \in objects : kind'[q] = kind[q] /\ link'[q] = link[q] /\ contents'[q] = contents[q]
    BY <1>1, GotClosed, Hands DEF ContentsInv
  <1>5. ASSUME NEW children, children = request.contents \cup ({request.link} \ {Null}),
               NEW t, t = IF request.kind \in Text THEN request.kind ELSE NoText
        PROVE  Promise!Make(o, t, children)
    <2>1. \A q \in objects' : Refs(q)' = IF q = o THEN children ELSE Refs(q)
      BY <1>1, <1>4, <1>5 DEF Refs
    <2>2. refsMap' = [q \in objects' |-> IF q = o THEN children ELSE refsMap[q]]
      BY <1>1, <2>1 DEF refsMap
    <2>3. textMap' = [q \in objects' |-> IF q = o THEN t ELSE textMap[q]]
      BY <1>1, <1>4, <1>5 DEF textMap
    <2>4. QED  BY <1>1, <2>2, <2>3 DEF Promise!Make, refsMap, textMap
  <1>6. CASE request.kind \in Text
    <2>1. PICK t \in Text : t = request.kind
      BY <1>6
    <2>2. Strings(t) = {} /\ {} = request.contents \cup ({request.link} \ {Null})
      BY <1>2, <1>6, <2>1 DEF NewString
    <2>3. t = IF request.kind \in Text THEN request.kind ELSE NoText
      BY <2>1
    <2>4. Promise!Make(o, t, {})
      BY <1>5, <2>2, <2>3
    <2>5. \A q \in objects : textMap[q] # t
      BY <2>2, ConstantsAssumption DEF Strings, textMap
    <2>6. Promise!WithText(t) = {}
      BY <2>5 DEF Promise!WithText, textMap
    <2>7. Promise!Intern(t, o)
      BY <1>3, <2>4, <2>6 DEF Promise!Intern, Held
    <2>8. QED  BY <2>7 DEF PromiseStep, Promise!Next
  <1>7. CASE request.kind \notin Text
    <2>1. PICK children : children = request.contents \cup ({request.link} \ {Null})
      OBVIOUS
    <2>2. children \subseteq Reach(Held)
      <3>1. Roots \in SUBSET Address /\ \A p \in objects : Refs(p) \subseteq Address
        BY Hands, RootsKnown
      <3>2. Roots \subseteq Reach(Roots) /\ \A p \in Reach(Roots) \cap objects : Refs(p) \subseteq Reach(Roots)
        BY <3>1, ReachClosed
      <3>3. request.link \in Reach(Roots) \cup {Null}
        BY <1>2, <3>2 DEF Refs
      <3>4. QED  BY <1>2, <1>3, <2>1, <3>2, <3>3
    <2>3. children \in SUBSET Promise!Reach(Held)
      BY <2>2, SameReach
    <2>4. Promise!Make(o, NoText, children)
      BY <1>5, <1>7, <2>1
    <2>5. Promise!NewObject(o, children)
      BY <1>3, <2>3, <2>4 DEF Promise!NewObject, Held
    <2>6. QED  BY <1>1, <2>3, <2>5 DEF PromiseStep, Promise!Next, Held
  <1>8. QED  BY <1>6, <1>7

\* The heap's steps keep to the contract.
LEMMA HeapRefines ==
    ASSUME IInv, HeapStep
    PROVE  PromiseStep
  <1>1. CASE OutOfMemory
    BY <1>1, SameRootsRefine, GotClosed DEF OutOfMemory, vars, rootVars
  <1>2. CASE Interned
    <2>1. /\ names' = names \cup {made} /\ made' = Null /\ value' = Null /\ point = "interned"
          /\ UNCHANGED <<heapVars, globals, active, stack, temps, returned>>
      BY <1>2 DEF Interned, Goes
    <2>2. made \in Got
      BY <2>1, GotClosed, Hands DEF HandsInv, Receiving
    <2>3. Held' \subseteq Got
      BY <2>1, <2>2, HeldKnown, HeldWithin
    <2>4. QED  BY <2>1, <2>3, HoldRefines
  <1>3. ASSUME NEW t \in Text, NameOf(t)
        PROVE  PromiseStep
    <2>1. point = "name" /\ value = Null
      BY <1>3, Hands DEF NameOf
    <2>2. QED  BY <1>3, <2>1, StepsRefine, InternRefines DEF NameOf
  <1>4. QED  BY <1>1, <1>2, <1>3, CollectRefines, AllocateRefines DEF HeapStep

-----------------------------------------------------------------------------
(* Nodes and statements.                                                   *)

\* The scope, the operands and the arguments of the innermost call.
LEMMA CallGot ==
    ASSUME IInv
    PROVE  /\ Env \in Got \cup {Null} /\ (Env # Null => kind[Env] \notin Text)
           /\ pending # <<>> => \A k \in 1..Len(Top.held) : Top.held[k] \in Got \cup {Null}
  <1>1. Env \in SomeScope /\ Env \in Roots \cup {Null}
    BY Hands, EnvRooted
  <1>2. Roots \subseteq Got
    BY GotClosed
  <1>3. QED
    BY <1>1, <1>2, Hands, HeldRooted, ConstantsAssumption DEF SomeScope, ScopeObjects

\* What is stored to has at most what it had and the new value.
LEMMA StoredGot ==
    ASSUME NEW G, NEW S, S \subseteq G, NEW v \in G \cup {Null}, NEW T \in Stored(S, v)
    PROVE  T \subseteq G
  BY DEF Stored

\* A declaration stores in the globals or in the innermost scope.
LEMMA DefineRefines ==
    ASSUME IInv, pending # <<>>, NEW v \in Got \cup {Null}, Define(v), made' \in {made, Null}
    PROVE  PromiseStep
  <1>1. /\ Leave /\ value' = Null /\ UNCHANGED <<objects, kind, link, names, returned>>
    BY DEF Define, Goes
  <1>2. CASE Env = Null
    <2>1. globals' \in Stored(globals, v) /\ contents' = contents
      BY <1>2 DEF Define
    <2>2. globals' \subseteq globals \cup ({v} \ {Null})
      BY <2>1 DEF Stored
    <2>3. QED  BY <1>1, <2>1, <2>2, LeaveStoreRefines
  <1>3. CASE Env # Null
    <2>1. globals' = globals /\ contents' = [contents EXCEPT ![Env] = contents[Env] \cup ({v} \ {Null})]
      BY <1>3 DEF Define
    <2>2. Env \in Got /\ kind[Env] \notin Text
      BY <1>3, CallGot
    <2>3. contents[Env] \cup ({v} \ {Null}) \in SUBSET Got
      BY <2>2, ContentsGot
    <2>4. QED  BY <1>1, <2>1, <2>2, <2>3, LeaveStoreRefines
  <1>4. QED  BY <1>2, <1>3

\* The steps of statements keep to the contract.
LEMMA StatementRefines ==
    ASSUME IInv, StatementStep
    PROVE  PromiseStep
  <1>1. CASE EndStatement
    BY <1>1, EndsRefine DEF EndStatement, At
  <1>2. CASE Branch
    BY <1>2, EndsRefine DEF Branch, At
  <1>3. CASE LoopBody \/ LoopAgain
    BY <1>3, SameRootsRefine DEF LoopBody, LoopAgain, Goes, rootVars
  <1>4. CASE Initializer \/ NextStatement
    BY <1>4, StepsRefine DEF Initializer, NextStatement
  <1>5. CASE EndLet
    <2>1. pending # <<>> /\ Define(value) /\ made' = made
      BY <1>5 DEF EndLet, At
    <2>2. QED  BY <2>1, GotClosed, DefineRefines
  <1>6. CASE MakeFunction \/ Block
    BY <1>6, AsksRefine DEF MakeFunction, Block
  <1>7. CASE EndFunction
    <2>1. Define(made) /\ made' = Null /\ point = "declared"
      BY <1>7 DEF EndFunction
    <2>2. pending # <<>>
      BY <2>1, Hands DEF HandsInv, Fits, At
    <2>3. QED  BY <2>1, <2>2, GotClosed, DefineRefines
  <1>8. CASE EnterBlock
    <2>1. /\ active' = Append(active, made) /\ made' = Null /\ value' = Null /\ point = "scope"
          /\ UNCHANGED <<heapVars, globals, names, stack, temps, returned>>
      BY <1>8 DEF EnterBlock, Goes
    <2>2. active \in Seq(objects) /\ made \in objects
      BY <2>1, Hands DEF HandsInv, ContentsInv, Receiving
    <2>3. Range(active') \subseteq Got \cup {Null}
      BY <2>1, <2>2, AppendRange, HeldKnown, GotClosed
    <2>4. Held' \subseteq Got
      BY <2>1, <2>3, HeldKnown, HeldWithin
    <2>5. QED  BY <2>1, <2>4, HoldRefines
  <1>9. CASE EndBlock
    BY <1>9, EndsRefine DEF EndBlock, At
  <1>10. CASE Return
    <2>1. /\ pending # <<>> /\ Leave /\ returned' = value /\ value' = Null
          /\ UNCHANGED <<heapVars, globals, names, made>>
      BY <1>10 DEF Return, At, Goes
    <2>2. globals' \subseteq Got /\ returned' \in Got \cup {Null}
      BY <2>1, HeldKnown, GotClosed
    <2>3. QED  BY <2>1, <2>2, LeaveRefines
  <1>11. CASE ReturnThrough
    <2>1. point = "return" /\ Ends("return", Null)
      BY <1>11 DEF ReturnThrough
    <2>2. pending # <<>>
      BY <2>1, Hands DEF HandsInv, Fits
    <2>3. QED  BY <2>1, <2>2, EndsRefine
  <1>12. CASE FailThrough
    BY <1>12, StepsRefine, EndsRefine DEF FailThrough
  <1>13. QED
    BY <1>1, <1>2, <1>3, <1>4, <1>5, <1>6, <1>7, <1>8, <1>9, <1>10, <1>11, <1>12
       DEF StatementStep

-----------------------------------------------------------------------------
(* Expressions.                                                            *)

\* The steps of expressions keep to the contract.
LEMMA ExpressionRefines ==
    ASSUME IInv, ExpressionStep
    PROVE  PromiseStep
  <1>1. CASE Literal
    <2>1. value = Null
      BY <1>1, Hands DEF Literal
    <2>2. QED  BY <1>1, <2>1, StepsRefine, InternRefines DEF Literal
  <1>2. CASE StringLiteral
    <2>1. /\ value' = made /\ made' = Null
          /\ UNCHANGED <<heapVars, globals, names, active, stack, temps, returned>>
      BY <1>2 DEF StringLiteral, Goes, rootVars
    <2>2. QED  BY <2>1, GotClosed, SameRootsRefine
  <1>3. CASE ReadVariable
    <2>1. pending # <<>>
      BY <1>3 DEF ReadVariable, At
    <2>2. ASSUME NEW v \in globals \cup {Null} \cup UNION {contents[s] : s \in Scopes(Env)},
                 Ends("value", v)
          PROVE  PromiseStep
      <3>1. Scopes(Env) \subseteq Got
        BY CallGot, ScopesGot
      <3>2. UNION {contents[s] : s \in Scopes(Env)} \subseteq Got
        BY <3>1, ContentsGot
      <3>3. QED  BY <2>1, <2>2, <3>2, HeldKnown, EndsRefine
    <2>3. QED  BY <1>3, <2>2, StepsRefine DEF ReadVariable, Fails
  <1>4. CASE AssignVariable
    <2>1. CASE Fails
      BY <2>1, StepsRefine DEF Fails
    <2>2. CASE ~Fails
      <3>1. /\ pending # <<>> /\ Leave /\ value' = value
            /\ UNCHANGED <<objects, kind, link, names, returned, made>>
            /\ \/ globals' \in Stored(globals, value) /\ contents' = contents
               \/ /\ \E s \in Scopes(Env) : \E S \in Stored(contents[s], value) :
                        contents' = [contents EXCEPT ![s] = S]
                  /\ globals' = globals
        BY <1>4, <2>2 DEF AssignVariable, At, Goes
      <3>2. value \in Got \cup {Null}
        BY GotClosed
      <3>3. CASE globals' \in Stored(globals, value) /\ contents' = contents
        <4>1. globals' \subseteq globals \cup ({value} \ {Null})
          BY <3>3 DEF Stored
        <4>2. QED  BY <3>1, <3>2, <3>3, <4>1, LeaveStoreRefines
      <3>4. CASE /\ \E s \in Scopes(Env) : \E S \in Stored(contents[s], value) :
                       contents' = [contents EXCEPT ![s] = S]
                 /\ globals' = globals
        <4>1. PICK s \in Scopes(Env) : \E S \in Stored(contents[s], value) :
                       contents' = [contents EXCEPT ![s] = S]
          BY <3>4
        <4>2. PICK S \in Stored(contents[s], value) : contents' = [contents EXCEPT ![s] = S]
          BY <4>1
        <4>3. s \in Got /\ kind[s] \notin Text
          BY CallGot, ScopesGot, Hands, EnvRooted, ScopesKnown, ConstantsAssumption
             DEF ScopeObjects
        <4>4. S \in SUBSET Got
          <5>1. contents[s] \subseteq Got
            BY <4>3, ContentsGot
          <5>2. S \subseteq Got
            BY <3>2, <4>2, <5>1 DEF Stored
          <5>3. QED  BY <5>2
        <4>5. QED  BY <3>1, <3>2, <3>4, <4>2, <4>3, <4>4, LeaveStoreRefines
      <3>5. QED  BY <3>1, <3>3, <3>4
    <2>3. QED  BY <2>1, <2>2
  <1>5. CASE Unary
    BY <1>5, EndsRefine, StepsRefine DEF Unary, At, Fails
  <1>6. CASE Logical
    BY <1>6, GotClosed, EndsRefine DEF Logical, At
  <1>7. CASE Binary
    <2>1. pending # <<>>
      BY <1>7, Hands DEF Binary, HandsInv, Fits, At
    <2>2. QED  BY <1>7, <2>1, EndsRefine, StepsRefine DEF Binary, Fails
  <1>8. CASE NextItem
    BY <1>8, StepsRefine DEF NextItem
  <1>9. CASE MakeArray
    BY <1>9, AsksRefine DEF MakeArray
  <1>10. CASE EndWithObject
    <2>1. /\ point = "result" /\ Leave /\ made' = Null /\ value' = made
          /\ UNCHANGED <<heapVars, globals, names, returned>>
      BY <1>10 DEF EndWithObject, Goes
    <2>2. pending # <<>>
      BY <2>1, Hands DEF HandsInv, Fits
    <2>3. globals' \subseteq Got /\ returned' \in Got \cup {Null} /\ value' \in Got \cup {Null}
      BY <2>1, HeldKnown, GotClosed
    <2>4. QED  BY <2>1, <2>2, <2>3, LeaveRefines
  <1>11. CASE Index
    <2>1. pending # <<>> /\ Top.at = "index"
      BY <1>11 DEF Index, At
    <2>2. ASSUME IsArray(Top.held[1]), NEW v \in contents[Top.held[1]] \cup {Null}, Ends("value", v)
          PROVE  PromiseStep
      <3>1. 1 \in 1..Len(Top.held)
        BY <2>1, Hands, TopCall DEF HeldCount
      <3>2. Top.held[1] \in Got
        BY <2>1, <2>2, <3>1, CallGot DEF IsArray
      <3>3. v \in Got \cup {Null}
        BY <2>2, <3>2, ContentsGot
      <3>4. QED  BY <2>1, <2>2, <3>3, EndsRefine
    <2>3. QED  BY <1>11, <2>2, StepsRefine DEF Index, Fails
  <1>12. CASE IndexAssign
    <2>1. CASE Fails
      BY <2>1, StepsRefine DEF Fails
    <2>2. CASE ~Fails
      <3>1. /\ pending # <<>> /\ Top.at = "element" /\ IsArray(Top.held[1])
            /\ Leave /\ value' = value
            /\ UNCHANGED <<objects, kind, link, globals, names, returned, made>>
            /\ \E S \in Stored(contents[Top.held[1]], value) :
                  contents' = [contents EXCEPT ![Top.held[1]] = S]
        BY <1>12, <2>2 DEF IndexAssign, At, Goes
      <3>2. 1 \in 1..Len(Top.held)
        <4>1. Len(Top.held) = 2
          BY <3>1, Hands, TopCall DEF HeldCount
        <4>2. QED  BY <4>1
      <3>3. PICK s \in Got : s = Top.held[1] /\ kind[s] \notin Text
        BY <3>1, <3>2, CallGot, ConstantsAssumption DEF IsArray
      <3>4. PICK S \in Stored(contents[s], value) : contents' = [contents EXCEPT ![s] = S]
        BY <3>1, <3>3
      <3>5. value \in Got \cup {Null}
        BY GotClosed
      <3>6. S \in SUBSET Got
        <4>1. contents[s] \subseteq Got
          BY <3>3, ContentsGot
        <4>2. QED  BY <3>4, <3>5, <4>1, StoredGot
      <3>7. QED  BY <3>1, <3>3, <3>4, <3>5, <3>6, LeaveStoreRefines
    <2>3. QED  BY <2>1, <2>2
  <1>13. ASSUME NEW a \in DOMAIN NextOperand, KeepOperand(a)
         PROVE  PromiseStep
    <2>1. /\ temps' = Append(temps, value) /\ value' = Null
          /\ UNCHANGED <<heapVars, globals, names, active, stack, returned, made>>
      BY <1>13 DEF KeepOperand, Goes
    <2>2. temps \in Seq(SomeValue) /\ value \in SomeValue
      BY Hands DEF ContentsInv
    <2>3. Range(temps') \subseteq Got \cup {Null}
      BY <2>1, <2>2, AppendRange, HeldKnown, GotClosed
    <2>4. Held' \subseteq Got
      BY <2>1, <2>3, HeldKnown, HeldWithin
    <2>5. QED  BY <2>1, <2>4, HoldRefines
  <1>14. ASSUME NEW a \in {"arguments", "elements"}, PushItem(a)
         PROVE  PromiseStep
    <2>1. /\ stack' = Append(stack, value) /\ value' = Null
          /\ UNCHANGED <<heapVars, globals, names, active, temps, returned, made>>
      BY <1>14 DEF PushItem, Goes
    <2>2. stack \in Seq(SomeValue) /\ value \in SomeValue
      BY Hands DEF ContentsInv
    <2>3. Range(stack') \subseteq Got \cup {Null}
      BY <2>1, <2>2, AppendRange, HeldKnown, GotClosed
    <2>4. Held' \subseteq Got
      BY <2>1, <2>3, HeldKnown, HeldWithin
    <2>5. QED  BY <2>1, <2>4, HoldRefines
  <1>15. ASSUME NEW t \in Text, Concatenate(t)
         PROVE  PromiseStep
    <2>1. value = Null
      BY <1>15, Hands DEF Concatenate
    <2>2. QED  BY <1>15, <2>1, InternRefines DEF Concatenate
  <1>16. QED
    BY <1>1, <1>2, <1>3, <1>4, <1>5, <1>6, <1>7, <1>8, <1>9, <1>10, <1>11, <1>12, <1>13,
       <1>14, <1>15 DEF ExpressionStep

-----------------------------------------------------------------------------
(* Calls.                                                                  *)

\* The arguments of a call are roots.
LEMMA ArgumentsRooted ==
    ASSUME IInv, At("body")
    PROVE  \A v \in Arguments : v \in Got \cup {Null}
  <1>1. pending[Len(pending) - 1].stack \in Nat
    BY BodyCalled
  <1>2. Arguments \ {Null} \subseteq Roots
    BY <1>1, Hands, RegionRooted DEF Arguments
  <1>3. QED  BY <1>2, GotClosed

\* The steps of calls keep to the contract.
LEMMA CallRefines ==
    ASSUME IInv, CallStep
    PROVE  PromiseStep
  <1>1. CASE CallValue
    BY <1>1, SameRootsRefine DEF CallValue, Goes, rootVars
  <1>2. ASSUME NEW t \in Text, BeginCallGlobal(t)
        PROVE  PromiseStep
    <2>1. value = Null
      BY <1>2, Hands DEF BeginCallGlobal
    <2>2. QED  BY <1>2, <2>1, InternRefines DEF BeginCallGlobal
  <1>3. CASE CallGlobal
    <2>1. /\ value' = Null /\ made' = Null
          /\ UNCHANGED <<heapVars, globals, names, active, stack, returned>>
          /\ \/ \E callee \in globals \cup {Null} : temps' = Append(temps, callee)
             \/ temps' = temps
      BY <1>3 DEF CallGlobal, Goes
    <2>2. CASE temps' = temps
      BY <2>1, <2>2, SameRootsRefine
    <2>3. ASSUME NEW callee \in globals \cup {Null}, temps' = Append(temps, callee)
          PROVE  PromiseStep
      <3>1. temps \in Seq(SomeValue) /\ callee \in SomeValue
        BY Hands DEF ContentsInv, SomeValue
      <3>2. Range(temps') \subseteq Got \cup {Null}
        BY <2>3, <3>1, AppendRange, HeldKnown
      <3>3. Held' \subseteq Got
        BY <2>1, <3>2, HeldKnown, HeldWithin
      <3>4. QED  BY <2>1, <3>3, HoldRefines
    <2>4. QED  BY <2>1, <2>2, <2>3
  <1>4. CASE CallFails
    BY <1>4, StepsRefine DEF CallFails, Fails
  <1>5. CASE CallFunction
    BY <1>5, AsksRefine DEF CallFunction
  <1>6. CASE EnterFunction
    <2>1. /\ active' = active \o <<Callee, made>> /\ value' = Null /\ made' = Null
          /\ point = "frame"
          /\ UNCHANGED <<heapVars, globals, names, stack, temps, returned>>
      BY <1>6 DEF EnterFunction, Goes
    <2>2. At("called") /\ Callee # Null /\ made \in objects
      BY <2>1, Hands DEF HandsInv, Fits, Receiving
    <2>3. Callee \in objects \cap Roots
      BY <2>2, CalleeKnown
    <2>4. PICK c \in objects : c = Callee
      BY <2>3
    <2>5. active \in Seq(objects)
      BY Hands DEF ContentsInv
    <2>6. active' = Append(Append(active, c), made)
      BY <2>1, <2>2, <2>4, <2>5
    <2>7. Append(active, c) \in Seq(objects)
      BY <2>5
    <2>8. Range(active') \subseteq Range(active) \cup {c} \cup {made}
      BY <2>2, <2>5, <2>6, <2>7, AppendRange
    <2>9. Range(active') \subseteq Got \cup {Null}
      BY <2>3, <2>4, <2>8, HeldKnown, GotClosed
    <2>10. Held' \subseteq Got
      BY <2>1, <2>9, HeldKnown, HeldWithin
    <2>11. QED  BY <2>1, <2>10, HoldRefines
  <1>7. CASE NextParameter \/ StartBody \/ EndCallGlobal
    BY <1>7, StepsRefine DEF NextParameter, StartBody, EndCallGlobal
  <1>8. CASE BindParameter
    <2>1. /\ At("body") /\ value' = Null
          /\ UNCHANGED <<objects, kind, link, globals, names, active, stack, temps, returned, made>>
      BY <1>8 DEF BindParameter, Goes, rootVars
    <2>2. PICK v \in Arguments : contents' = [contents EXCEPT ![Env] = contents[Env] \cup ({v} \ {Null})]
      BY <1>8 DEF BindParameter
    <2>3. Env \in Got /\ kind[Env] \notin Text
      BY <2>1, ArgumentsKnown, CallGot, GotClosed
    <2>4. v \in Got \cup {Null}
      BY <2>1, ArgumentsRooted
    <2>5. contents[Env] \cup ({v} \ {Null}) \in SUBSET Got
      BY <2>3, <2>4, ContentsGot
    <2>6. Held' \subseteq Got
      BY <2>1, HeldKnown, HeldWithin
    <2>7. QED  BY <2>1, <2>2, <2>3, <2>5, <2>6, StoreRefines
  <1>9. CASE EndBody
    BY <1>9, EndsRefine DEF EndBody, At
  <1>10. CASE ReturnFromBody
    <2>1. /\ pending # <<>> /\ Leave /\ value' = returned /\ returned' = Null
          /\ UNCHANGED <<heapVars, globals, names, made>>
      BY <1>10 DEF ReturnFromBody, At, Goes
    <2>2. globals' \subseteq Got /\ returned' \in Got \cup {Null} /\ value' \in Got \cup {Null}
      BY <2>1, HeldKnown
    <2>3. QED  BY <2>1, <2>2, LeaveRefines
  <1>11. CASE EndCall
    BY <1>11, GotClosed, EndsRefine DEF EndCall, At
  <1>12. CASE CallNative
    <2>1. pending # <<>>
      BY <1>12, Hands DEF CallNative, HandsInv, Fits, At
    <2>2. QED  BY <1>12, <2>1, EndsRefine DEF CallNative
  <1>13. CASE NativeArray
    <2>1. /\ point = "call" /\ Len(stack) = Top.stack + 2
          /\ temps' = Append(temps, stack[Len(stack)]) /\ value' = Null
          /\ UNCHANGED <<heapVars, globals, names, active, stack, returned, made>>
      BY <1>13 DEF NativeArray, Asks, Goes
    <2>2. Top.stack \in Nat
      BY <2>1, Hands, TopCall, FrameFields DEF HandsInv, Fits, At
    <2>3. stack \in Seq(SomeValue) /\ temps \in Seq(SomeValue)
      BY Hands DEF ContentsInv
    <2>4. PICK fill \in SomeValue : fill = stack[Len(stack)] /\ fill \in Range(stack)
      <3>1. Len(stack) \in 1..Len(stack)
        BY <2>1, <2>2
      <3>2. stack[Len(stack)] \in SomeValue /\ stack[Len(stack)] \in Range(stack)
        BY <2>3, <3>1 DEF Range
      <3>3. QED  BY <3>2
    <2>5. Range(temps') \subseteq Got \cup {Null}
      BY <2>1, <2>3, <2>4, AppendRange, HeldKnown
    <2>6. Held' \subseteq Got
      BY <2>1, <2>5, HeldKnown, HeldWithin
    <2>7. QED  BY <2>1, <2>6, HoldRefines
  <1>14. QED
    BY <1>1, <1>2, <1>3, <1>4, <1>5, <1>6, <1>7, <1>8, <1>9, <1>10, <1>11, <1>12, <1>13
       DEF CallStep

-----------------------------------------------------------------------------

\* The tree-walking engine keeps to the heap's contract: what it hands to an
\* allocation, stores or roots is something it can get at, equal strings are
\* one object to it, and no collection finds it with a value in its hands.
THEOREM Refines == Spec => KeepsContract
  <1>1. Init => Promise!Init
    <2> SUFFICES ASSUME Init
                 PROVE  Promise!Init
      OBVIOUS
    <2>1. Range(active) = {} /\ Range(stack) = {} /\ Range(temps) = {}
      BY RangeEmpty DEF Init
    <2>2. Roots = {}
      BY <2>1 DEF Init, Roots
    <2>3. QED  BY <2>2 DEF Init, Promise!Init
  <1>2. ASSUME IInv, [Next]_vars
        PROVE  PromiseStep
    <2>1. CASE UNCHANGED vars
      <3>1. /\ UNCHANGED <<heapVars, globals, names, active, stack, temps, returned>>
            /\ value' = value /\ made' = made
        BY <2>1 DEF vars, rootVars
      <3>2. QED  BY <1>2, <3>1, SameRootsRefine, GotClosed
    <2>2. ASSUME NEW a \in Statements \cup Expressions, Begin(a)
          PROVE  PromiseStep
      <3>1. /\ UNCHANGED <<heapVars, globals, names, active, stack, temps, returned>>
            /\ value' = Null /\ made' = made
        BY <2>2 DEF Begin, Goes, rootVars
      <3>2. QED  BY <1>2, <3>1, SameRootsRefine
    <2>3. QED
      BY <1>2, <2>1, <2>2, HeapRefines, StatementRefines, ExpressionRefines, CallRefines
         DEF Next
  <1>3. QED
    BY <1>1, <1>2, Invariant, PTL DEF Spec, KeepsContract, Promise!Spec, PromiseStep

=============================================================================
