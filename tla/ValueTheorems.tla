---------------------------- MODULE ValueTheorems ----------------------------
(***************************************************************************)
(* What the proofs about the machines share: facts about sequences,        *)
(* numbers, the values of the language, arrays, and the list of open       *)
(* upvalues.                                                               *)
(***************************************************************************)
EXTENDS Operations, OpenUpvalues, QueueTheorems, FiniteSetTheorems, WellFoundedInduction, TLAPS

-----------------------------------------------------------------------------
(* Sequences of anything.                                                  *)

IsSequence(s) == s \in Seq(Range(s))

Pushed(s, e) == Append(s, e)
Replaced(s, v) == [s EXCEPT ![Len(s)] = v]

\* One element more.
LEMMA Appended ==
    ASSUME NEW s, IsSequence(s), NEW e, NEW t, t = Pushed(s, e)
    PROVE  /\ IsSequence(t) /\ Len(t) = Len(s) + 1 /\ Len(s) \in Nat
           /\ DOMAIN s = 1 .. Len(s) /\ DOMAIN t = 1 .. Len(s) + 1
           /\ t[Len(t)] = e
           /\ \A i \in 1 .. Len(s) : t[i] = s[i]
  <1> DEFINE S == Range(s) \cup {e}
  <1>1. s \in Seq(S) /\ e \in S
    BY DEF IsSequence
  <1>2. Append(s, e) \in Seq(S)
    BY <1>1
  <1>3. Range(t) = S
    BY <1>1, RangeAppend DEF Pushed
  <1>4. QED  BY <1>1, <1>2, <1>3 DEF IsSequence, Pushed

\* Another newest element.
LEMMA AtTop ==
    ASSUME NEW s, IsSequence(s), s # <<>>, NEW v, NEW t, t = Replaced(s, v)
    PROVE  /\ IsSequence(t) /\ t # <<>> /\ Len(t) = Len(s) /\ Len(s) \in Nat \ {0}
           /\ DOMAIN s = 1 .. Len(s) /\ DOMAIN t = 1 .. Len(s)
           /\ t[Len(s)] = v
           /\ \A i \in 1 .. Len(s) - 1 : t[i] = s[i]
  <1>1. Len(s) \in Nat \ {0} /\ DOMAIN s = 1 .. Len(s)
    BY DEF IsSequence
  <1>2. DOMAIN t = 1 .. Len(s) /\ t = [i \in 1 .. Len(s) |-> t[i]]
    BY <1>1 DEF Replaced
  <1>3. t \in [1 .. Len(s) -> Range(t)]
    BY <1>2 DEF Range
  <1>4. IsSequence(t) /\ Len(t) = Len(s)
    BY <1>1, <1>3, FunctionIsSeq DEF IsSequence
  <1>5. t # <<>>
    BY <1>1, <1>4
  <1>6. QED  BY <1>1, <1>2, <1>4, <1>5 DEF Replaced

\* All but the newest element.
LEMMA Popped ==
    ASSUME NEW s, IsSequence(s), s # <<>>, NEW t, t = Front(s)
    PROVE  /\ IsSequence(t) /\ Len(t) = Len(s) - 1 /\ Len(s) \in Nat \ {0}
           /\ DOMAIN s = 1 .. Len(s) /\ DOMAIN t = 1 .. Len(s) - 1
           /\ \A i \in 1 .. Len(s) - 1 : t[i] = s[i]
  <1>1. Len(s) \in Nat \ {0} /\ DOMAIN s = 1 .. Len(s) /\ s \in Seq(Range(s))
    BY DEF IsSequence
  <1>2. t = SubSeq(s, 1, Len(s) - 1)
    BY DEF Front
  <1>3. /\ t \in Seq(Range(s)) /\ Len(t) = Len(s) - 1 /\ DOMAIN t = 1 .. Len(s) - 1
        /\ \A i \in 1 .. Len(s) - 1 : t[i] = s[i]
    BY <1>1, <1>2, Prefix
  <1>4. t \in [1 .. Len(t) -> Range(t)] /\ Len(t) \in Nat
    BY <1>1, <1>3 DEF Range
  <1>5. t \in Seq(Range(t))
    BY <1>4, FunctionIsSeq
  <1>6. QED  BY <1>1, <1>3, <1>5 DEF IsSequence

\* A sequence of one.
LEMMA Single ==
    ASSUME NEW e
    PROVE  /\ IsSequence(<<e>>) /\ <<e>> # <<>> /\ Len(<<e>>) = 1
           /\ DOMAIN <<e>> = {1} /\ <<e>>[1] = e
  BY DEF IsSequence, Range

\* None.
LEMMA Empty == IsSequence(<<>>) /\ Len(<<>>) = 0 /\ DOMAIN <<>> = {}
  BY DEF IsSequence, Range

\* Of the first n - 1 places all but the last are the first n - 2.
LEMMA Below ==
    ASSUME NEW n \in Nat, NEW i \in 1 .. n - 1, i # n - 1
    PROVE  i \in 1 .. n - 2 /\ i \in 1 .. n
  OBVIOUS

\* A function on 1 .. n is a sequence.
LEMMA RowIsSequence ==
    ASSUME NEW n \in Nat, NEW t, t = [i \in 1 .. n |-> t[i]]
    PROVE  IsSequence(t) /\ Len(t) = n /\ DOMAIN t = 1 .. n
  <1>1. DOMAIN t = 1 .. n
    OBVIOUS
  <1>2. t \in [1 .. n -> Range(t)]
    BY <1>1 DEF Range
  <1>3. QED  BY <1>1, <1>2, FunctionIsSeq DEF IsSequence

\* A sequence is a function on 1 .. n.
LEMMA SequenceIsRow ==
    ASSUME NEW s, IsSequence(s)
    PROVE  /\ Len(s) \in Nat /\ DOMAIN s = 1 .. Len(s) /\ s = [i \in 1 .. Len(s) |-> s[i]]
           /\ \A i \in DOMAIN s : i \in Nat \ {0}
  BY DEF IsSequence

\* One element exchanged.
Put(s, k, v) == [s EXCEPT ![k] = v]

\* One element of a sequence replaced.
LEMMA Exchanged ==
    ASSUME NEW s, IsSequence(s), NEW k \in DOMAIN s, NEW v
    PROVE  /\ IsSequence(Put(s, k, v)) /\ Len(Put(s, k, v)) = Len(s)
           /\ DOMAIN Put(s, k, v) = DOMAIN s
           /\ Put(s, k, v)[k] = v
           /\ \A i \in DOMAIN s : i # k => Put(s, k, v)[i] = s[i]
  <1> DEFINE t == Put(s, k, v)
  <1>1. Len(s) \in Nat /\ DOMAIN s = 1 .. Len(s)
    BY SequenceIsRow
  <1>2. t = [i \in 1 .. Len(s) |-> t[i]]
    BY <1>1 DEF Put
  <1>3. QED  BY <1>1, <1>2, RowIsSequence DEF Put

\* What is left of a sequence without its first elements.
LEMMA Rest ==
    ASSUME NEW S, NEW s \in Seq(S), NEW n \in Nat, n = Len(s), NEW k \in 0 .. n,
           NEW t, t = SubSeq(s, k + 1, n)
    PROVE  t \in Seq(S) /\ Len(t) = n - k /\ \A i \in 1 .. n - k : t[i] = s[i + k]
  OBVIOUS

\* The same for a sequence of anything.
LEMMA RestOf ==
    ASSUME NEW open, IsSequence(open), NEW k \in 0 .. Len(open),
           NEW rest, rest = SubSeq(open, k + 1, Len(open))
    PROVE  /\ IsSequence(rest) /\ Len(rest) = Len(open) - k
           /\ \A i \in DOMAIN rest : i + k \in DOMAIN open /\ rest[i] = open[i + k]
  <1>1. Len(open) \in Nat /\ DOMAIN open = 1 .. Len(open) /\ open \in Seq(Range(open))
    BY DEF IsSequence
  <1>2. /\ rest \in Seq(Range(open)) /\ Len(rest) = Len(open) - k
        /\ \A i \in 1 .. Len(open) - k : rest[i] = open[i + k]
    <2>1. PICK S, n : S = Range(open) /\ n = Len(open)
      OBVIOUS
    <2>2. open \in Seq(S) /\ n \in Nat /\ k \in 0 .. n /\ rest = SubSeq(open, k + 1, n)
      BY <1>1, <2>1
    <2>3. rest \in Seq(S) /\ Len(rest) = n - k /\ \A i \in 1 .. n - k : rest[i] = open[i + k]
      BY ONLY <2>1, <2>2, Rest
    <2>4. QED  BY <2>1, <2>3
  <1>3. DOMAIN rest = 1 .. Len(open) - k
    BY <1>2
  <1>4. rest = [i \in 1 .. Len(open) - k |-> rest[i]]
    BY <1>2, <1>3
  <1>5. Len(open) - k \in Nat
    BY <1>1
  <1>6. IsSequence(rest)
    BY ONLY <1>4, <1>5, RowIsSequence
  <1>7. \A i \in 1 .. Len(open) - k : i + k \in 1 .. Len(open)
    BY <1>1
  <1>8. QED  BY ONLY <1>1, <1>2, <1>3, <1>6, <1>7

\* The elements of a sequence over a set.
LEMMA ElementsOf ==
    ASSUME NEW S, NEW t \in Seq(S) PROVE IsSequence(t) /\ \A i \in DOMAIN t : t[i] \in S
  <1>1. Len(t) \in Nat /\ DOMAIN t = 1 .. Len(t) /\ t = [i \in 1 .. Len(t) |-> t[i]]
    OBVIOUS
  <1>2. IsSequence(t)
    BY ONLY <1>1, RowIsSequence
  <1>3. QED  BY <1>1, <1>2

\* The first elements of a sequence.
LEMMA FirstOf ==
    ASSUME NEW s, IsSequence(s), NEW k \in 0 .. Len(s), NEW t, t = SubSeq(s, 1, k)
    PROVE  /\ IsSequence(t) /\ Len(t) = k /\ DOMAIN t = 1 .. k
           /\ \A i \in 1 .. k : i \in DOMAIN s /\ t[i] = s[i]
  <1>1. Len(s) \in Nat /\ DOMAIN s = 1 .. Len(s) /\ s \in Seq(Range(s))
    BY DEF IsSequence
  <1>2. /\ Len(t) = k /\ DOMAIN t = 1 .. k /\ \A i \in 1 .. k : t[i] = s[i]
        /\ t \in Seq(Range(s))
    <2>1. PICK S : S = Range(s)
      OBVIOUS
    <2>2. s \in Seq(S)
      BY <1>1, <2>1
    <2>3. QED  BY <2>1, <2>2, Prefix
  <1>3. IsSequence(t)
    BY <1>2, ElementsOf
  <1>4. \A i \in 1 .. k : i \in 1 .. Len(s)
    BY <1>1
  <1>5. QED  BY <1>1, <1>2, <1>3, <1>4

\* Part of a sequence.
LEMMA SliceOf ==
    ASSUME NEW S, NEW s \in Seq(S), NEW lo \in Nat \ {0}, NEW hi \in Int, NEW n \in Nat,
           n = hi - lo + 1, n # 0 => hi <= Len(s), NEW t, t = SubSeq(s, lo, hi)
    PROVE  Len(t) = n /\ \A i \in 1 .. n : t[i] = s[lo + i - 1]
  <1>1. CASE n = 0
    <2>1. hi < lo
      BY <1>1
    <2>2. QED  BY <1>1, <2>1
  <1>2. CASE n # 0
    <2>1. lo <= hi /\ hi <= Len(s)
      BY <1>2
    <2>2. QED  BY <2>1
  <1>3. QED  BY <1>1, <1>2

\* Two ways to say where an element is inserted.
LEMMA InsertedAfter ==
    ASSUME NEW s, NEW e, NEW a, NEW k, k - 1 = a, k = a + 1
    PROVE  InsertAt(s, k, e) = Inserted(s, a, e)
  BY DEF InsertAt, Inserted

-----------------------------------------------------------------------------
(* Numbers.                                                                *)

\* Half the range of ints is a positive number.
LEMMA HalfType == Half \in Nat \ {0}
  BY HalfAssumption DEF Half

\* A remainder.
LEMMA Modulo == ASSUME NEW n \in Int, NEW m \in Nat \ {0} PROVE n % m \in 0 .. m - 1
  OBVIOUS

\* A result that wraps around is an int.
LEMMA WrapInts == ASSUME NEW n \in Int PROVE Wrap(n) \in Ints
  <1>1. (n + Half) % (2 * Half) \in 0 .. 2 * Half - 1
    BY HalfType, Modulo
  <1>2. QED  BY <1>1, HalfType DEF Wrap, Ints

\* Division of natural numbers.
LEMMA Quotient ==
    ASSUME NEW a \in Nat, NEW b \in Nat \ {0}
    PROVE  /\ a \div b \in Nat /\ a \div b <= a
           /\ a - b * (a \div b) \in 0 .. b - 1 /\ a - b * (a \div b) <= a
           /\ b # 1 /\ a # 0 => a \div b < a
           /\ b = 1 => a \div b = a
  <1> DEFINE q == a \div b
  <1>0. a = b * q + (a % b) /\ a % b \in 0 .. b - 1
    OBVIOUS
  <1>1. q \in Nat /\ q <= a /\ a = b * q + (a % b) /\ a % b \in 0 .. b - 1
    <2>1. q \in 0 .. a
      OBVIOUS
    <2>2. QED  BY ONLY <1>0, <2>1
  <1>2. b * q \in Nat /\ a - b * q = a % b
    BY <1>1
  <1>3. ASSUME b # 1, a # 0 PROVE q < a
    <2>1. b * q >= 2 * q
      BY <1>1, <1>3
    <2>2. QED  BY <1>1, <1>2, <1>3, <2>1
  <1>4. b = 1 => q = a
    BY <1>1
  <1>5. QED  BY <1>1, <1>2, <1>3, <1>4

\* Products of negated numbers.
LEMMA Signs ==
    ASSUME NEW b \in Nat, NEW q \in Nat
    PROVE  (-b) * (-q) = b * q /\ (-b) * q = -(b * q) /\ b * (-q) = -(b * q) /\ b * q \in Nat
  OBVIOUS

\* A quotient and a remainder of ints are ints, unless the divisor is -1.
LEMMA TruncatedInts ==
    ASSUME NEW x \in Ints, NEW y \in Ints, y # 0
    PROVE  /\ Truncated(x, y) \in Int
           /\ y # -1 => Truncated(x, y) \in Ints
           /\ y # -1 => x - y * Truncated(x, y) \in Ints
  <1> DEFINE a == Magnitude(x)
             b == Magnitude(y)
             q == a \div b
  <1>1. x \in Int /\ y \in Int /\ -Half <= x /\ x < Half /\ -Half <= y /\ y < Half
    BY HalfType DEF Ints
  <1>2. a \in Nat /\ b \in Nat \ {0} /\ (a = x \/ a = -x) /\ a <= Half
    BY <1>1, HalfType DEF Magnitude
  <1>3. /\ q \in Nat /\ q <= a
        /\ a - b * q \in 0 .. b - 1 /\ a - b * q <= a
        /\ b # 1 /\ a # 0 => q < a
    BY <1>2, Quotient
  <1>4. Truncated(x, y) = q \/ Truncated(x, y) = -q
    BY DEF Truncated
  <1>5. Truncated(x, y) \in Int
    BY <1>3, <1>4
  <1>6. ASSUME y # -1 PROVE Truncated(x, y) \in Ints
    <2>1. CASE b = 1
      <3>1. y = 1
        BY <1>1, <1>6, <2>1 DEF Magnitude
      <3>2. (x < 0 => Truncated(x, y) = -q) /\ (~(x < 0) => Truncated(x, y) = q)
        BY <1>1, <3>1 DEF Truncated
      <3>3. (x < 0 => a = -x) /\ (~(x < 0) => a = x)
        BY <1>1 DEF Magnitude
      <3>4. QED  BY ONLY <3>2, <3>3, <1>1, <1>3, HalfType DEF Ints
    <2>2. CASE b # 1
      <3>1. q < Half
        BY <2>2, <1>2, <1>3, HalfType
      <3>2. QED  BY ONLY <3>1, <1>3, <1>4, HalfType DEF Ints
    <2>3. QED  BY <2>1, <2>2
  <1>7. ASSUME y # -1 PROVE x - y * Truncated(x, y) \in Ints
    <2>1. y * Truncated(x, y) = IF x < 0 THEN -(b * q) ELSE b * q
      <3>1. y = IF y < 0 THEN -b ELSE b
        BY <1>1 DEF Magnitude
      <3>2. Truncated(x, y) = IF (x < 0) # (y < 0) THEN -q ELSE q
        BY DEF Truncated
      <3>3. /\ (-b) * (-q) = b * q /\ (-b) * q = -(b * q)
            /\ b * (-q) = -(b * q)
        BY ONLY Signs, <1>2, <1>3
      <3>4. QED  BY ONLY <3>1, <3>2, <3>3, <1>1
    <2>2. b * q \in Nat
      BY <1>2, <1>3
    <2>3. (x < 0 => a = -x) /\ (~(x < 0) => a = x)
      BY <1>1 DEF Magnitude
    <2>4. x - y * Truncated(x, y) = IF x < 0 THEN -(a - b * q) ELSE a - b * q
      BY ONLY <2>1, <2>2, <2>3, <1>1, <1>2
    <2>5. x < 0 => a - b * q \in 0 .. Half
      BY ONLY <1>2, <1>3, <2>2, HalfType
    <2>6. ~(x < 0) => a - b * q \in 0 .. Half - 1
      BY ONLY <1>1, <1>2, <1>3, <2>2, <2>3, HalfType
    <2>7. QED  BY ONLY <2>4, <2>5, <2>6, HalfType DEF Ints
  <1>8. QED  BY <1>5, <1>6, <1>7

\* The numbers up to n are finitely many.
LEMMA UpTo == ASSUME NEW n \in Nat PROVE IsFiniteSet(1 .. n) /\ Cardinality(1 .. n) = n
  BY FS_Interval

\* Numbers up to N that 0 is one of, and with each the next.
LEMMA CountUp ==
    ASSUME NEW N \in Nat, NEW T, 0 \in T, \A n \in 0 .. N - 1 : n \in T => n + 1 \in T
    PROVE  \A n \in 0 .. N : n \in T
  <1> DEFINE Bad == (0 .. N) \ T
             Less == {pair \in Nat \X Nat : pair[1] < pair[2]}
  <1>1. SUFFICES ASSUME Bad # {} PROVE FALSE
    OBVIOUS
  <1>2. Bad \subseteq Nat
    OBVIOUS
  <1>3. \E x \in Bad : \A y \in Bad : <<y, x>> \notin Less
    <2>1. IsWellFoundedOn(Less, Nat)
      BY NatLessThanWellFounded DEF OpToRel
    <2> HIDE DEF Bad, Less
    <2>2. QED  BY ONLY <1>1, <1>2, <2>1, WFMin
  <1> HIDE DEF Less
  <1>4. PICK x \in Bad : \A y \in Bad : <<y, x>> \notin Less
    BY <1>3
  <1>5. x \in 1 .. N
    BY <1>4
  <1>6. x - 1 \in 0 .. N - 1 /\ x - 1 + 1 = x
    BY <1>5
  <1>7. x - 1 \in Bad
    BY <1>4, <1>6
  <1>8. <<x - 1, x>> \in Less
    <2>1. \A y \in Nat, z \in Nat : y < z => <<y, z>> \in Less
      BY DEF Less
    <2>2. QED  BY <1>5, <1>6, <2>1
  <1>9. QED  BY <1>4, <1>7, <1>8

-----------------------------------------------------------------------------
(* Values. An array or a function is one that there is.                    *)

IsValue(v, arrs, clos) ==
    \/ IsScalar(v)
    \/ v = ArrayRef(v[2]) /\ v[2] \in DOMAIN arrs
    \/ v = FunctionRef(v[2]) /\ v[2] \in DOMAIN clos
    \/ v = NativeRef(v[2]) /\ v[2] \in DOMAIN Natives

\* What is inside a value of each kind.
LEMMA Contents ==
    ASSUME NEW arrs, NEW clos, NEW v, IsValue(v, arrs, clos)
    PROVE  /\ Is("int", v) => v[2] \in Ints /\ v = make_int(v[2])
           /\ Is("array", v) => v[2] \in DOMAIN arrs
           /\ Is("function", v) => v[2] \in DOMAIN clos
           /\ Is("native", v) => v[2] \in DOMAIN Natives
  BY DEF IsValue, IsScalar, Is, Nil, True, False, make_bool, make_int, Str, ArrayRef, FunctionRef,
         NativeRef

\* Values that are neither arrays nor functions.
LEMMA Scalars ==
    /\ IsScalar(Nil) /\ IsScalar(True) /\ IsScalar(False)
    /\ \A n \in Ints : IsScalar(make_int(n))
    /\ \A b : IsScalar(make_bool(b))
    /\ \A s : IsScalar(Str(s))
  BY DEF IsScalar, Nil, True, False, make_bool, make_int, Str

\* They are values whatever arrays and functions there are.
LEMMA ScalarIsValue == ASSUME NEW v, IsScalar(v), NEW arrs, NEW clos PROVE IsValue(v, arrs, clos)
  BY DEF IsValue

\* A value stays one when there are more arrays and functions.
LEMMA StillValue ==
    ASSUME NEW arrs, NEW clos, NEW arrs2, NEW clos2,
           DOMAIN arrs \subseteq DOMAIN arrs2, DOMAIN clos \subseteq DOMAIN clos2,
           NEW v, IsValue(v, arrs, clos)
    PROVE  IsValue(v, arrs2, clos2)
  BY DEF IsValue

\* An int is an integer.
LEMMA IntIsInt == ASSUME NEW n \in Ints PROVE n \in Int
  BY HalfType DEF Ints

\* An int that wraps around is such a value.
LEMMA WrappedScalar == ASSUME NEW n \in Int PROVE IsScalar(make_int(Wrap(n)))
  BY WrapInts, Scalars

\* So are the results of division and remainder, or of their failure.
LEMMA DivScalar ==
    ASSUME NEW arrs, NEW clos, NEW x, IsValue(x, arrs, clos), NEW y, IsValue(y, arrs, clos)
    PROVE  IsScalar(op_div(x, y).value) /\ IsScalar(op_mod(x, y).value)
  <1>1. CASE ~(Is("int", x) /\ Is("int", y))
    BY <1>1, Scalars DEF op_div, op_mod, NumericBinary, Error
  <1>2. CASE Is("int", x) /\ Is("int", y)
    <2>1. x[2] \in Ints /\ y[2] \in Ints /\ x[2] \in Int /\ y[2] \in Int
      BY <1>2, Contents, IntIsInt
    <2>2. CASE y[2] = 0
      BY <1>2, <2>2, Scalars DEF op_div, op_mod, NumericBinary, Error
    <2>3. ASSUME y[2] # 0
          PROVE  /\ op_div(x, y) = Ok(make_int(IF y[2] = -1 THEN Wrap(-x[2])
                                               ELSE Truncated(x[2], y[2])))
                 /\ op_mod(x, y) = Ok(make_int(IF y[2] = -1 THEN 0
                                               ELSE x[2] - y[2] * Truncated(x[2], y[2])))
      BY <1>2, <2>3 DEF op_div, op_mod, NumericBinary
    <2>4. ASSUME y[2] # 0
          PROVE  /\ (IF y[2] = -1 THEN Wrap(-x[2]) ELSE Truncated(x[2], y[2])) \in Ints
                 /\ (IF y[2] = -1 THEN 0 ELSE x[2] - y[2] * Truncated(x[2], y[2])) \in Ints
      <3>1. Wrap(-x[2]) \in Ints /\ 0 \in Ints
        BY <2>1, WrapInts, HalfType DEF Ints
      <3>2. QED  BY <2>1, <2>4, <3>1, TruncatedInts
    <2>5. QED  BY <2>2, <2>3, <2>4, Scalars DEF Ok
  <1>3. QED  BY <1>1, <1>2

\* So is the result of every operation on two values.
LEMMA BinaryScalar ==
    ASSUME NEW arrs, NEW clos, NEW x, IsValue(x, arrs, clos), NEW y, IsValue(y, arrs, clos),
           NEW op \in Arithmetic
    PROVE  IsScalar(BinaryOperation(op, x, y).value)
  <1> DEFINE ints == Is("int", x) /\ Is("int", y)
  <1>1. ints => x[2] \in Int /\ y[2] \in Int
    BY Contents, IntIsInt
  <1>2. CASE op \in {"Add", "Sub", "Mul"}
    <2>1. ints => /\ IsScalar(make_int(Wrap(x[2] + y[2])))
                  /\ IsScalar(make_int(Wrap(x[2] - y[2])))
                  /\ IsScalar(make_int(Wrap(x[2] * y[2])))
      BY <1>1, WrappedScalar
    <2>2. IsScalar(op_add(x, y).value) /\ IsScalar(op_sub(x, y).value)
          /\ IsScalar(op_mul(x, y).value)
      BY <2>1, Scalars DEF op_add, op_sub, op_mul, NumericBinary, Ok, Error
    <2>3. QED  BY <1>2, <2>2 DEF BinaryOperation
  <1>3. CASE op \in {"Div", "Mod"}
    BY <1>3, DivScalar DEF BinaryOperation
  <1>4. CASE op \in {"Eq", "Ne"}
    BY <1>4, Scalars DEF BinaryOperation, Ok
  <1>5. CASE op \in {"Lt", "Le", "Gt", "Ge"}
    BY <1>5, Scalars DEF BinaryOperation, NumericCompare, NumericBinary, Ok, Error
  <1>6. QED  BY <1>2, <1>3, <1>4, <1>5 DEF Arithmetic

\* So is the result of an operation on one.
LEMMA UnaryScalar ==
    ASSUME NEW arrs, NEW clos, NEW x, IsValue(x, arrs, clos), NEW op
    PROVE  IsScalar(UnaryOperation(op, x).value)
  <1>1. Is("int", x) => IsScalar(make_int(Wrap(-x[2])))
    BY Contents, IntIsInt, WrappedScalar
  <1>2. QED  BY <1>1, Scalars DEF UnaryOperation, op_not, op_negate, Ok, Error

-----------------------------------------------------------------------------
(* Arrays.                                                                 *)

\* Arrays of values.
ArraysFit(arrs, clos) ==
    /\ IsSequence(arrs)
    /\ \A id \in DOMAIN arrs : /\ IsSequence(arrs[id])
                               /\ \A i \in DOMAIN arrs[id] : IsValue(arrs[id][i], arrs, clos)

\* Element i + 1 of an array: indices count from 0.
Stored(arrs, id, i, v) == [arrs EXCEPT ![id][i + 1] = v]

\* One element of an array replaced.
LEMMA StoredFits ==
    ASSUME NEW arrs, NEW clos, ArraysFit(arrs, clos),
           NEW id \in DOMAIN arrs, NEW i \in 0 .. Len(arrs[id]) - 1,
           NEW v, IsValue(v, arrs, clos)
    PROVE  /\ ArraysFit(Stored(arrs, id, i, v), clos)
           /\ DOMAIN Stored(arrs, id, i, v) = DOMAIN arrs
           /\ \A x \in DOMAIN arrs : Len(Stored(arrs, id, i, v)[x]) = Len(arrs[x])
  <1> DEFINE row == Put(arrs[id], i + 1, v)
             t == Put(arrs, id, row)
  <1>1. IsSequence(arrs) /\ IsSequence(arrs[id])
    BY DEF ArraysFit
  <1>2. i + 1 \in DOMAIN arrs[id]
    BY <1>1, SequenceIsRow
  <1>3. /\ IsSequence(row) /\ DOMAIN row = DOMAIN arrs[id] /\ Len(row) = Len(arrs[id])
        /\ row[i + 1] = v
        /\ \A j \in DOMAIN arrs[id] : j # i + 1 => row[j] = arrs[id][j]
    BY <1>1, <1>2, Exchanged
  <1>4. /\ IsSequence(t) /\ DOMAIN t = DOMAIN arrs /\ t[id] = row
        /\ \A x \in DOMAIN arrs : x # id => t[x] = arrs[x]
    BY <1>1, Exchanged
  <1>5. Stored(arrs, id, i, v) = t
    BY DEF Stored, Put
  <1> HIDE DEF t, row
  <1>6. ASSUME NEW x \in DOMAIN t
        PROVE  /\ IsSequence(t[x]) /\ Len(t[x]) = Len(arrs[x])
               /\ \A j \in DOMAIN t[x] : IsValue(t[x][j], arrs, clos)
    <2>1. CASE x = id
      <3>1. ASSUME NEW j \in DOMAIN row PROVE IsValue(row[j], arrs, clos)
        <4>1. CASE j = i + 1
          BY <4>1, <1>3
        <4>2. CASE j # i + 1
          BY <4>2, <1>3 DEF ArraysFit
        <4>3. QED  BY <4>1, <4>2
      <3>2. QED  BY <2>1, <3>1, <1>3, <1>4
    <2>2. CASE x # id
      BY <2>2, <1>4 DEF ArraysFit
    <2>3. QED  BY <2>1, <2>2
  <1>7. \A w : IsValue(w, arrs, clos) => IsValue(w, t, clos)
    BY <1>4, StillValue
  <1>8. ArraysFit(t, clos)
    BY <1>4, <1>6, <1>7 DEF ArraysFit
  <1>9. QED  BY <1>4, <1>5, <1>6, <1>8

\* Where an index is found to be right, it is that of an element.
LEMMA Resolved ==
    ASSUME NEW arrs, NEW clos, ArraysFit(arrs, clos),
           NEW array, IsValue(array, arrs, clos), NEW index,
           resolve_index(arrs, array, index) = NoError
    PROVE  /\ array[2] \in DOMAIN arrs
           /\ index[2] \in 0 .. Len(arrs[array[2]]) - 1
           /\ index[2] + 1 \in DOMAIN arrs[array[2]]
  <1>1. Is("array", array) /\ index[2] \in 0 .. Len(arrs[array[2]]) - 1
    BY DEF resolve_index, NoError
  <1>2. array[2] \in DOMAIN arrs
    BY <1>1, Contents
  <1>3. QED  BY <1>1, <1>2, SequenceIsRow DEF ArraysFit

\* What is read from an array is a value.
LEMMA ElementIsValue ==
    ASSUME NEW arrs, NEW clos, ArraysFit(arrs, clos),
           NEW array, IsValue(array, arrs, clos), NEW index
    PROVE  IsValue(array_get(arrs, array, index).value, arrs, clos)
  <1>1. CASE resolve_index(arrs, array, index) = NoError
    <2>1. IsValue(arrs[array[2]][index[2] + 1], arrs, clos)
      BY <1>1, Resolved DEF ArraysFit
    <2>2. QED  BY <1>1, <2>1 DEF array_get, Ok
  <1>2. CASE resolve_index(arrs, array, index) # NoError
    BY <1>2, Scalars, ScalarIsValue DEF array_get, Error
  <1>3. QED  BY <1>1, <1>2

\* A row of equal values.
LEMMA FilledFits ==
    ASSUME NEW n \in Nat, NEW v, NEW arrs, NEW clos, IsValue(v, arrs, clos),
           NEW row, row = Filled(n, v)
    PROVE  IsSequence(row) /\ \A i \in DOMAIN row : IsValue(row[i], arrs, clos)
  <1>1. row = [i \in 1 .. n |-> row[i]] /\ \A i \in 1 .. n : row[i] = v
    BY DEF Filled
  <1>2. QED  BY <1>1, RowIsSequence

\* An array more.
LEMMA ArrayMade ==
    ASSUME NEW arrs, NEW clos, ArraysFit(arrs, clos),
           NEW row, IsSequence(row), \A i \in DOMAIN row : IsValue(row[i], arrs, clos),
           NEW t, t = Append(arrs, row)
    PROVE  /\ ArraysFit(t, clos) /\ DOMAIN arrs \subseteq DOMAIN t
           /\ IsValue(ArrayRef(Len(arrs) + 1), t, clos)
  <1>1. /\ IsSequence(t) /\ Len(t) = Len(arrs) + 1 /\ Len(arrs) \in Nat
        /\ DOMAIN arrs = 1 .. Len(arrs) /\ DOMAIN t = 1 .. Len(arrs) + 1
        /\ t[Len(t)] = row
        /\ \A i \in 1 .. Len(arrs) : t[i] = arrs[i]
    <2>1. IsSequence(arrs) /\ t = Pushed(arrs, row)
      BY DEF ArraysFit, Pushed
    <2>2. QED  BY ONLY <2>1, Appended
  <1>2. DOMAIN arrs \subseteq DOMAIN t /\ Len(arrs) + 1 \in DOMAIN t
    BY <1>1
  <1>3. \A v : IsValue(v, arrs, clos) => IsValue(v, t, clos)
    BY <1>2, StillValue
  <1>4. ASSUME NEW id \in DOMAIN t
        PROVE  IsSequence(t[id]) /\ \A i \in DOMAIN t[id] : IsValue(t[id][i], t, clos)
    <2>1. CASE id \in DOMAIN arrs
      BY <1>1, <1>3, <2>1 DEF ArraysFit
    <2>2. CASE id = Len(arrs) + 1
      BY <1>1, <1>3, <2>2
    <2>3. QED  BY <1>1, <2>1, <2>2
  <1>5. IsValue(ArrayRef(Len(arrs) + 1), t, clos)
    BY <1>2 DEF IsValue, ArrayRef
  <1>6. QED  BY <1>1, <1>2, <1>4, <1>5 DEF ArraysFit

\* Values after values.
LEMMA ConcatenatedValues ==
    ASSUME NEW s, IsSequence(s), NEW row, IsSequence(row), NEW t, t = s \o row,
           NEW arrs, NEW clos, \A i \in DOMAIN s : IsValue(s[i], arrs, clos),
           \A i \in DOMAIN row : IsValue(row[i], arrs, clos)
    PROVE  IsSequence(t) /\ \A i \in DOMAIN t : IsValue(t[i], arrs, clos)
  <1>1. PICK S, m, n : S = Range(s) \cup Range(row) /\ m = Len(s) /\ n = Len(row)
    OBVIOUS
  <1>2. /\ s \in Seq(S) /\ row \in Seq(S) /\ m \in Nat /\ n \in Nat
        /\ DOMAIN s = 1 .. m /\ DOMAIN row = 1 .. n
    BY <1>1 DEF IsSequence
  <1>3. /\ t \in Seq(S) /\ Len(t) = m + n
        /\ \A i \in 1 .. m + n : t[i] = IF i <= m THEN s[i] ELSE row[i - m]
    BY <1>1, <1>2
  <1>4. DOMAIN t = 1 .. m + n
    BY <1>3
  <1>5. IsSequence(t)
    <2>1. PICK k : k = m + n
      OBVIOUS
    <2>2. t = [i \in 1 .. k |-> t[i]] /\ k \in Nat
      BY ONLY <1>2, <1>3, <1>4, <2>1
    <2>3. QED  BY ONLY <2>2, RowIsSequence
  <1>6. ASSUME NEW i \in 1 .. m + n PROVE IsValue(t[i], arrs, clos)
    <2>1. CASE i <= m
      <3>1. i \in 1 .. m
        BY ONLY <1>2, <2>1, i \in 1 .. m + n
      <3>2. QED  BY <1>2, <1>3, <2>1, <3>1
    <2>2. CASE ~(i <= m)
      <3>1. i - m \in 1 .. n
        BY <1>2, <2>2
      <3>2. QED  BY <1>2, <1>3, <2>2, <3>1
    <2>3. QED  BY <2>1, <2>2
  <1>7. QED  BY <1>4, <1>5, <1>6

\* What a native function returns with the right number of arguments, if it does.
LEMMA NativeValue ==
    ASSUME NEW arrs, NEW clos, ArraysFit(arrs, clos), NEW x \in DOMAIN Natives, NEW args,
           \A i \in 1 .. Natives[x] : IsValue(args[i], arrs, clos),
           Is("str", args[1]) => Len(args[1][2]) \in Nat,
           NEW called, called = CallNative(x, args, arrs), called.result.error = NoError
    PROVE  /\ ArraysFit(called.arrays, clos) /\ DOMAIN arrs \subseteq DOMAIN called.arrays
           /\ IsValue(called.result.value, called.arrays, clos)
  <1>1. x \in {"len", "array"} /\ Natives["len"] = 1 /\ Natives["array"] = 2
    BY DEF Natives
  <1>2. IsValue(args[1], arrs, clos)
    BY <1>1
  <1>3. CASE x = "len"
    <2>1. called.result = native_len(args[1], arrs) /\ called.arrays = arrs
      BY <1>3 DEF CallNative
    <2>2. Is("array", args[1]) => Len(arrs[args[1][2]]) \in Nat
      BY <1>2, Contents, SequenceIsRow DEF ArraysFit
    <2>3. \A n \in Nat : IsScalar(make_int(Wrap(n)))
      BY WrappedScalar
    <2>4. IsScalar(native_len(args[1], arrs).value)
      BY <2>2, <2>3, Scalars DEF native_len, Ok, Error
    <2>5. QED  BY <2>1, <2>4, ScalarIsValue
  <1>4. CASE x = "array"
    <2>1. \/ ~(Is("int", args[1]) /\ args[1][2] >= 0) /\ \E m : called.result = Error(<<m>>)
          \/ /\ Is("int", args[1]) /\ args[1][2] >= 0
             /\ called.result = Ok(ArrayRef(Len(arrs) + 1))
             /\ called.arrays = Append(arrs, Filled(args[1][2], args[2]))
      BY <1>4, Zenon DEF CallNative
    <2>2. Is("int", args[1]) /\ args[1][2] >= 0
      <3>1. \A m : Error(<<m>>).error # NoError
        BY DEF Error, NoError
      <3>2. QED  BY <2>1, <3>1
    <2>3. PICK row : row = Filled(args[1][2], args[2])
      OBVIOUS
    <2>4. called.result.value = ArrayRef(Len(arrs) + 1) /\ called.arrays = Append(arrs, row)
      BY <2>1, <2>2, <2>3 DEF Ok
    <2>5. IsValue(args[2], arrs, clos)
      BY <1>1, <1>4
    <2>6. args[1][2] \in Nat
      BY <1>2, <2>2, Contents, IntIsInt
    <2>7. IsSequence(row) /\ \A i \in DOMAIN row : IsValue(row[i], arrs, clos)
      BY <2>3, <2>5, <2>6, FilledFits
    <2>8. QED  BY <2>4, <2>7, ArrayMade
  <1>5. QED  BY <1>1, <1>3, <1>4

-----------------------------------------------------------------------------
(* The list of open upvalues, in both machines.                            *)

\* A walk down a list ends somewhere in it.
LEMMA WalkEnds ==
    ASSUME NEW open, IsSequence(open), NEW ups, NEW low
    PROVE  Walked(open, ups, low) \in 0 .. Len(open)
  <1>1. Len(open) \in Nat /\ DOMAIN open = 1 .. Len(open)
    BY SequenceIsRow
  <1>2. IsFiniteSet(1 .. Len(open)) /\ Cardinality(1 .. Len(open)) = Len(open)
    BY <1>1, UpTo
  <1>3. Leading(open, ups, low) \in SUBSET (1 .. Len(open))
    BY <1>1 DEF Leading
  <1>4. /\ IsFiniteSet(Leading(open, ups, low))
        /\ Cardinality(Leading(open, ups, low)) <= Len(open)
    BY <1>2, <1>3, FS_Subset
  <1>5. Cardinality(Leading(open, ups, low)) \in Nat
    BY <1>4, FS_CardinalityType
  <1>6. QED  BY <1>1, <1>4, <1>5 DEF Walked

\* Where the open upvalues are, by their order in the list.
OpenAt(ups, open) == [i \in DOMAIN open |-> ups[open[i]].location]

\* The list of the open upvalues is by falling register.
Falling(ups, open) == Descending(OpenAt(ups, open), Len(open))

\* Every open upvalue is below a register.
OpenBelow(ups, open, low) == \A i \in DOMAIN open : ups[open[i]].location < low

\* A walk down the list passes the upvalues at or above a register up to the first
\* that is below it.
LEMMA WalkStops ==
    ASSUME NEW open, IsSequence(open), NEW ups, NEW low, NEW n, n = Len(open)
    PROVE  \E k \in 0 .. n :
               /\ Walked(open, ups, low) = k /\ Leading(open, ups, low) = 1 .. k
               /\ \A i \in 1 .. k : ups[open[i]].location >= low
               /\ k < n => ~(ups[open[k + 1]].location >= low)
  <1>1. n \in Nat /\ DOMAIN open = 1 .. n
    BY SequenceIsRow
  <1>2. PICK T : T = {m \in 0 .. n : \A j \in 1 .. m : ups[open[j]].location >= low}
    OBVIOUS
  <1>3. \E k \in T : k + 1 \notin T
    <2> SUFFICES ASSUME \A k \in T : k + 1 \in T PROVE FALSE
      OBVIOUS
    <2>1. 0 \in T
      BY <1>1, <1>2
    <2>2. \A m \in 0 .. n : m \in T
      <3>1. \A m \in 0 .. n - 1 : m \in T => m + 1 \in T
        OBVIOUS
      <3>2. QED  BY ONLY <1>1, <2>1, <3>1, CountUp
    <2>3. n \in T
      BY <1>1, <2>2
    <2>4. n + 1 \in T
      BY <2>3
    <2>5. QED  BY <1>1, <1>2, <2>4
  <1>4. PICK k \in T : k + 1 \notin T
    BY <1>3
  <1>5. k \in 0 .. n /\ \A j \in 1 .. k : ups[open[j]].location >= low
    BY <1>2
  <1>6. k < n => ~(ups[open[k + 1]].location >= low)
    <2> SUFFICES ASSUME k < n, ups[open[k + 1]].location >= low PROVE FALSE
      OBVIOUS
    <2>1. k + 1 \in 0 .. n /\ \A j \in 1 .. k + 1 : j \in 1 .. k \/ j = k + 1
      BY <1>1, <1>5
    <2>2. \A j \in 1 .. k + 1 : ups[open[j]].location >= low
      BY <1>5, <2>1
    <2>3. QED  BY <1>2, <1>4, <2>1, <2>2
  <1>7. Leading(open, ups, low) = 1 .. k
    <2>1. \A i \in 1 .. k : i \in DOMAIN open /\ \A j \in 1 .. i : j \in 1 .. k
      BY <1>1, <1>5
    <2>2. ASSUME NEW i \in DOMAIN open, \A j \in 1 .. i : ups[open[j]].location >= low
          PROVE  i \in 1 .. k
      <3>1. i \in Nat \ {0} /\ i <= n
        BY <1>1
      <3>2. k < i => k + 1 \in 1 .. i /\ k < n
        BY <1>1, <1>5, <3>1
      <3>3. ~(k < i)
        BY <1>6, <2>2, <3>2
      <3>4. QED  BY <1>1, <1>5, <3>1, <3>3
    <2>3. QED  BY <1>5, <2>1, <2>2 DEF Leading
  <1>8. Walked(open, ups, low) = k
    <2>1. k \in Nat
      BY <1>1, <1>5
    <2>2. QED  BY <1>7, <2>1, UpTo DEF Walked
  <1>9. QED  BY <1>5, <1>6, <1>7, <1>8

\* What the order of the list says of two of its elements.
LEMMA FallingOf ==
    ASSUME NEW ups, NEW open, IsSequence(open), Falling(ups, open), NEW n, n = Len(open)
    PROVE  /\ n \in Nat /\ DOMAIN open = 1 .. n
           /\ \A i \in 1 .. n : ups[open[i]].location \in Int
           /\ \A i, j \in 1 .. n : i < j => ups[open[i]].location > ups[open[j]].location
  <1>1. n \in Nat /\ DOMAIN open = 1 .. n
    BY SequenceIsRow
  <1>2. \A i \in 1 .. n : OpenAt(ups, open)[i] = ups[open[i]].location
    BY <1>1 DEF OpenAt
  <1>3. QED  BY <1>1, <1>2 DEF Falling, Descending

\* And what it takes to be in order.
LEMMA FallingBy ==
    ASSUME NEW ups, NEW open, NEW n, n = Len(open), DOMAIN open = 1 .. n,
           \A i \in 1 .. n : ups[open[i]].location \in Int,
           \A i, j \in 1 .. n : i < j => ups[open[i]].location > ups[open[j]].location
    PROVE  Falling(ups, open)
  <1>1. \A i \in 1 .. n : OpenAt(ups, open)[i] = ups[open[i]].location
    BY DEF OpenAt
  <1>2. QED  BY <1>1 DEF Falling, Descending

\* The list without the upvalues that a walk passes.
LeftBelow(open, ups, low) == SubSeq(open, Walked(open, ups, low) + 1, Len(open))

\* Cutting the list where a walk ends: those passed are at `low` or above, and what
\* is left is in order and below it.
LEMMA ListCut ==
    ASSUME NEW ups, NEW open, IsSequence(open), Falling(ups, open), NEW low \in Int,
           NEW rest, rest = LeftBelow(open, ups, low)
    PROVE  /\ IsSequence(rest) /\ Falling(ups, rest) /\ OpenBelow(ups, rest, low)
           /\ \A i \in Leading(open, ups, low) : i \in DOMAIN open /\ ups[open[i]].location >= low
           /\ \A j \in DOMAIN rest : \E i \in DOMAIN open : rest[j] = open[i]
           /\ \A i \in DOMAIN open : \/ i \in Leading(open, ups, low)
                                     \/ \E j \in DOMAIN rest : rest[j] = open[i]
  <1>1. PICK n : n = Len(open)
    OBVIOUS
  <1>2. /\ n \in Nat /\ DOMAIN open = 1 .. n
        /\ \A i \in 1 .. n : ups[open[i]].location \in Int
        /\ \A i, j \in 1 .. n : i < j => ups[open[i]].location > ups[open[j]].location
    BY ONLY <1>1, IsSequence(open), Falling(ups, open), FallingOf
  <1>3. PICK k \in 0 .. n :
               /\ Walked(open, ups, low) = k /\ Leading(open, ups, low) = 1 .. k
               /\ \A i \in 1 .. k : ups[open[i]].location >= low
               /\ k < n => ~(ups[open[k + 1]].location >= low)
    BY ONLY <1>1, IsSequence(open), WalkStops
  <1>4. /\ IsSequence(rest) /\ Len(rest) = n - k
        /\ \A i \in DOMAIN rest : i + k \in DOMAIN open /\ rest[i] = open[i + k]
    <2>1. k \in 0 .. Len(open) /\ rest = SubSeq(open, k + 1, Len(open))
      BY <1>1, <1>3 DEF LeftBelow
    <2>2. IsSequence(rest) /\ Len(rest) = Len(open) - k
          /\ \A i \in DOMAIN rest : i + k \in DOMAIN open /\ rest[i] = open[i + k]
      BY ONLY <2>1, IsSequence(open), RestOf
    <2>3. QED  BY <1>1, <2>2
  <1>5. DOMAIN rest = 1 .. n - k
    BY <1>4, SequenceIsRow
  <1>6. ASSUME NEW i \in 1 .. n - k
        PROVE  /\ i + k \in 1 .. n /\ rest[i] = open[i + k]
               /\ ups[open[i + k]].location \in Int /\ ups[open[i + k]].location < low
    <2>0. k \in Nat /\ n \in Nat /\ k <= n
      BY ONLY <1>2, k \in 0 .. n
    <2>1. i + k \in 1 .. n /\ rest[i] = open[i + k] /\ k + 1 \in 1 .. n /\ k < n
      <3>1. i \in Nat /\ 1 <= i /\ i <= n - k
        BY ONLY <2>0, i \in 1 .. n - k
      <3>2. i + k \in 1 .. n /\ k + 1 \in 1 .. n /\ k < n
        BY ONLY <2>0, <3>1
      <3>3. QED  BY <1>4, <1>5, <3>2
    <2>2. ups[open[k + 1]].location < low /\ ups[open[k + 1]].location \in Int
      BY <1>2, <1>3, <2>1
    <2>3. ups[open[i + k]].location \in Int
          /\ (i + k = k + 1 \/ ups[open[k + 1]].location > ups[open[i + k]].location)
      <3>1. i + k = k + 1 \/ k + 1 < i + k
        BY <2>0
      <3>2. QED  BY <1>2, <2>1, <3>1
    <2>4. PICK p, q : p = ups[open[i + k]].location /\ q = ups[open[k + 1]].location
      OBVIOUS
    <2>5. p \in Int /\ q \in Int /\ q < low /\ (p = q \/ q > p)
      <3>1. i + k = k + 1 => p = q
        BY ONLY <2>4
      <3>2. QED  BY ONLY <2>2, <2>3, <2>4, <3>1
    <2>6. p < low
      BY ONLY <2>5, low \in Int
    <2>7. QED  BY ONLY <2>1, <2>4, <2>5, <2>6
  <1>7. Falling(ups, rest)
    <2>1. \A i \in 1 .. n - k : ups[rest[i]].location \in Int
      BY <1>6
    <2>2. ASSUME NEW i \in 1 .. n - k, NEW j \in 1 .. n - k, i < j
          PROVE  ups[rest[i]].location > ups[rest[j]].location
      <3>1. i + k < j + k
        BY <1>2, <2>2
      <3>2. ups[open[i + k]].location > ups[open[j + k]].location
        BY <1>2, <1>6, <3>1
      <3>3. QED  BY <1>6, <3>2
    <2>3. QED  BY ONLY <1>4, <1>5, <2>1, <2>2, FallingBy
  <1>8. OpenBelow(ups, rest, low)
    BY <1>5, <1>6 DEF OpenBelow
  <1>9. \A i \in Leading(open, ups, low) : i \in DOMAIN open /\ ups[open[i]].location >= low
    BY <1>2, <1>3
  <1>10. ASSUME NEW i \in DOMAIN open, i \notin Leading(open, ups, low)
         PROVE  \E j \in DOMAIN rest : rest[j] = open[i]
    <2>1. i \in 1 .. n /\ i \notin 1 .. k
      BY <1>2, <1>3, <1>10
    <2>2. i - k \in 1 .. n - k /\ i - k + k = i
      BY <1>2, <2>1
    <2>3. rest[i - k] = open[i]
      BY <1>6, <2>2
    <2>4. QED  BY <1>5, <2>2, <2>3
  <1>11. QED  BY <1>2, <1>4, <1>5, <1>6, <1>7, <1>8, <1>9, <1>10

\* The list of other upvalues that are where these are.
LEMMA FallingStill ==
    ASSUME NEW ups, NEW open, Falling(ups, open), NEW after,
           \A i \in DOMAIN open : after[open[i]].location = ups[open[i]].location
    PROVE  Falling(after, open)
  <1>1. OpenAt(after, open) = OpenAt(ups, open)
    BY DEF OpenAt
  <1>2. QED  BY <1>1 DEF Falling

\* No upvalue of the list is open on the slot.
NoneOn(open, ups, slot) ==
    LET next == Walked(open, ups, slot + 1) + 1
    IN ~(next <= Len(open) /\ ups[open[next]].location = slot)

\* The list with an upvalue more, in the place of the slot.
ListWith(open, ups, slot, created) ==
    InsertAt(open, Walked(open, ups, slot + 1) + 1, created)

\* What the upvalues and their list are then.
ListHas(ups, open, u, created, ups2, open2) ==
    /\ IsSequence(ups2) /\ IsSequence(open2) /\ Falling(ups2, open2)
    /\ DOMAIN ups2 = DOMAIN ups \cup {created} /\ created \notin DOMAIN ups
    /\ ups2[created] = u /\ \A x \in DOMAIN ups : ups2[x] = ups[x]
    /\ \A i \in DOMAIN open2 : open2[i] = created \/ \E j \in DOMAIN open : open2[i] = open[j]
    /\ \A j \in DOMAIN open : \E i \in DOMAIN open2 : open2[i] = open[j]
    /\ \E i \in DOMAIN open2 : open2[i] = created

\* A sequence with an element put in after its first a.
WithOneMore(S, s, n, a, e, t) ==
    /\ t \in Seq(S) /\ DOMAIN t = 1 .. n + 1
    /\ t[a + 1] = e /\ MovesUp(s, t, a)
    /\ Range(t) = Range(s) \cup {e}

LEMMA OneInserted ==
    ASSUME NEW S, NEW s \in Seq(S), NEW e \in S,
           NEW n \in Nat, n = Len(s), NEW a \in 0 .. n,
           NEW t, t = Inserted(s, a, e)
    PROVE  WithOneMore(S, s, n, a, e, t)
  <1>1. t \in Seq(S)
    BY InsertedAt
  <1>2. DOMAIN t = 1 .. n + 1
    BY InsertedAt
  <1>3. t[a + 1] = e
    BY InsertedAt
  <1>4. MovesUp(s, t, a)
    BY InsertedAt
  <1>5. Range(t) = Range(s) \cup {e}
    BY InsertedAt
  <1>6. QED  BY <1>1, <1>2, <1>3, <1>4, <1>5 DEF WithOneMore

\* A new upvalue in its place in the list, where none is open on the same slot.
LEMMA ListGrown ==
    ASSUME NEW ups, NEW open, IsSequence(ups), IsSequence(open), Falling(ups, open),
           \A i \in DOMAIN open : open[i] \in DOMAIN ups,
           NEW slot \in Int, NEW u, u.location = slot, NoneOn(open, ups, slot),
           NEW created, created = Len(ups) + 1, NEW ups2, ups2 = Pushed(ups, u),
           NEW open2, open2 = ListWith(open, ups, slot, created)
    PROVE  ListHas(ups, open, u, created, ups2, open2)
  <1>0. PICK above : /\ above = Walked(open, ups, slot + 1)
                     /\ ~(above + 1 <= Len(open) /\ ups[open[above + 1]].location = slot)
                     /\ open2 = InsertAt(open, above + 1, created)
    BY ONLY NoneOn(open, ups, slot), open2 = ListWith(open, ups, slot, created), Zenon
       DEF NoneOn, ListWith
  <1>1. PICK m : m = Len(open)
    OBVIOUS
  <1>2. /\ m \in Nat /\ DOMAIN open = 1 .. m
        /\ \A i \in 1 .. m : ups[open[i]].location \in Int
    <2>1. /\ m \in Nat /\ DOMAIN open = 1 .. m
          /\ \A i \in 1 .. m : ups[open[i]].location \in Int
          /\ \A i, j \in 1 .. m : i < j => ups[open[i]].location > ups[open[j]].location
      BY ONLY <1>1, IsSequence(open), Falling(ups, open), FallingOf
    <2>2. QED  BY <2>1
  <1>3. /\ above \in 0 .. m
        /\ \A i \in 1 .. above : ups[open[i]].location >= slot + 1
        /\ above < m => ~(ups[open[above + 1]].location >= slot + 1)
    <2>1. PICK low : low = slot + 1
      OBVIOUS
    <2>2. \E k \in 0 .. m :
               /\ Walked(open, ups, low) = k /\ Leading(open, ups, low) = 1 .. k
               /\ \A i \in 1 .. k : ups[open[i]].location >= low
               /\ k < m => ~(ups[open[k + 1]].location >= low)
      BY ONLY <1>1, IsSequence(open), WalkStops
    <2>3. QED  BY <1>0, <2>1, <2>2
  <1>4. open2 = Inserted(open, above, created)
    <2>1. PICK k : k = above + 1
      OBVIOUS
    <2>2. k - 1 = above /\ k = above + 1
      BY ONLY <1>2, <1>3, <2>1
    <2>3. InsertAt(open, k, created) = Inserted(open, above, created)
      BY ONLY <2>2, InsertedAfter
    <2>4. QED  BY <1>0, <2>1, <2>3
  <1>5. /\ IsSequence(ups2) /\ DOMAIN ups = 1 .. Len(ups)
        /\ DOMAIN ups2 = 1 .. Len(ups) + 1 /\ Len(ups) \in Nat
        /\ Len(ups2) = Len(ups) + 1 /\ ups2[Len(ups2)] = u
        /\ \A i \in 1 .. Len(ups) : ups2[i] = ups[i]
    BY ONLY IsSequence(ups), ups2 = Pushed(ups, u), Appended
  <1>6. /\ DOMAIN ups2 = DOMAIN ups \cup {created} /\ created \notin DOMAIN ups
        /\ ups2[created] = u /\ \A x \in DOMAIN ups : ups2[x] = ups[x]
    <2>1. created = Len(ups) + 1 /\ created \notin 1 .. Len(ups)
          /\ 1 .. Len(ups) + 1 = 1 .. Len(ups) \cup {created}
      BY <1>5
    <2>2. QED  BY <1>5, <2>1
  <1>7. PICK S : S = DOMAIN ups2
    OBVIOUS
  <1>8. /\ open2 \in Seq(S) /\ DOMAIN open2 = 1 .. m + 1
        /\ open2[above + 1] = created /\ MovesUp(open, open2, above)
        /\ Range(open2) = Range(open) \cup {created}
    <2>1. open \in Seq(S)
      <3>1. \A i \in 1 .. m : open[i] \in S
        BY <1>2, <1>6, <1>7
      <3>2. open = [i \in 1 .. m |-> open[i]]
        BY ONLY <1>1, IsSequence(open), SequenceIsRow
      <3>3. open \in [1 .. m -> S]
        BY ONLY <3>1, <3>2
      <3>4. QED  BY ONLY <1>2, <3>3, FunctionIsSeq
    <2>2. created \in S
      BY <1>6, <1>7
    <2>3. /\ open2 \in Seq(S) /\ DOMAIN open2 = 1 .. m + 1
          /\ open2[above + 1] = created /\ MovesUp(open, open2, above)
          /\ Range(open2) = Range(open) \cup {created}
      <3>1. m \in Nat /\ above \in 0 .. m
        BY <1>2, <1>3
      <3>2. WithOneMore(S, open, m, above, created, open2)
        BY ONLY <1>1, <1>4, <2>1, <2>2, <3>1, OneInserted
      <3>3. QED  BY ONLY <3>2 DEF WithOneMore
    <2>4. QED  BY <2>3
  <1>9. IsSequence(open2)
    BY ONLY <1>8, ElementsOf
  <1>10. PICK f, g : f = OpenAt(ups, open) /\ g = OpenAt(ups2, open2)
    OBVIOUS
  <1>11. /\ \A i \in 1 .. m : f[i] = ups[open[i]].location
         /\ \A i \in 1 .. m + 1 : g[i] = ups2[open2[i]].location
    BY <1>2, <1>8, <1>10 DEF OpenAt
  <1>12. /\ \A i \in 1 .. above : i \in 1 .. m /\ i \in 1 .. m + 1 /\ i <= above
         /\ \A i \in above + 1 .. m : i \in 1 .. m /\ i + 1 \in 1 .. m + 1 /\ i > above
         /\ above + 1 \in 1 .. m + 1
         /\ above < m => above + 1 \in 1 .. m /\ above + 1 <= m
    BY <1>2, <1>3
  <1>13. ASSUME NEW i \in 1 .. above PROVE f[i] > slot /\ g[i] = f[i]
    <2>1. open2[i] = open[i] /\ open[i] \in DOMAIN ups
      BY <1>2, <1>8, <1>12 DEF MovesUp
    <2>2. f[i] \in Int /\ f[i] >= slot + 1
      BY <1>2, <1>3, <1>11, <1>12
    <2>3. QED  BY <1>6, <1>11, <1>12, <2>1, <2>2
  <1>14. ASSUME above < m PROVE f[above + 1] < slot
    <2>1. /\ f[above + 1] \in Int /\ f[above + 1] # slot /\ ~(f[above + 1] >= slot + 1)
      BY <1>0, <1>1, <1>2, <1>3, <1>11, <1>12, <1>14
    <2>2. QED  BY <2>1
  <1>15. g[above + 1] = slot
    BY <1>6, <1>8, <1>11, <1>12
  <1>16. ASSUME NEW i \in above + 1 .. m PROVE g[i + 1] = f[i]
    <2>1. open2[i + 1] = open[i] /\ open[i] \in DOMAIN ups
      BY <1>2, <1>8, <1>12 DEF MovesUp
    <2>2. QED  BY <1>6, <1>11, <1>12, <2>1
  <1>17. Descending(f, m)
    BY <1>1, <1>10 DEF Falling
  <1>18. Descending(g, m + 1)
    BY ONLY <1>2, <1>3, <1>13, <1>14, <1>15, <1>16, <1>17, slot \in Int, InsertedInOrder
  <1>19. Len(open2) = m + 1
    <2>1. Len(open2) \in Nat /\ DOMAIN open2 = 1 .. Len(open2)
      BY <1>9, SequenceIsRow
    <2>2. PICK l \in Nat : l = Len(open2) /\ 1 .. l = 1 .. m + 1
      BY <1>8, <2>1
    <2>3. m + 1 \in 1 .. l /\ (l # 0 => l \in 1 .. m + 1)
      BY <1>2, <2>2
    <2>4. QED  BY <1>2, <2>2, <2>3
  <1>20. Falling(ups2, open2)
    BY <1>10, <1>18, <1>19 DEF Falling
  <1>21. /\ \A i \in DOMAIN open2 : open2[i] \in Range(open) \cup {created}
         /\ \A x \in Range(open) \cup {created} : \E i \in DOMAIN open2 : open2[i] = x
    BY <1>8 DEF Range
  <1>22. /\ \A i \in DOMAIN open2 : open2[i] = created \/ \E j \in DOMAIN open : open2[i] = open[j]
         /\ \A j \in DOMAIN open : \E i \in DOMAIN open2 : open2[i] = open[j]
         /\ \E i \in DOMAIN open2 : open2[i] = created
    <2>1. \A x : x \in Range(open) <=> \E j \in DOMAIN open : x = open[j]
      BY Zenon DEF Range
    <2>2. QED  BY ONLY <1>21, <2>1
  <1>23. QED  BY <1>5, <1>6, <1>9, <1>20, <1>22 DEF ListHas

\* A state of the capture put together.
CaptureState(ups, open, captured) == [upvalues |-> ups, open |-> open, captured |-> captured]
=============================================================================
