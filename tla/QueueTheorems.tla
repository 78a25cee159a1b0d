--------------------------- MODULE QueueTheorems ---------------------------
(***************************************************************************)
(* Facts about the elements of a sequence as it is used as a queue and as  *)
(* a stack, for the proofs of the modules that keep one.                   *)
(***************************************************************************)
EXTENDS Naturals, Sequences, Functions, TLAPS

\* Appending adds exactly the new element.
LEMMA RangeAppend ==
    ASSUME NEW S, NEW s \in Seq(S), NEW e \in S
    PROVE  /\ Append(s, e) \in Seq(S)
           /\ Range(Append(s, e)) = Range(s) \cup {e}
  BY SMTT(30) DEF Range

\* A queue is its head and its tail.
LEMMA RangeTail ==
    ASSUME NEW S, NEW s \in Seq(S), s # <<>>
    PROVE  /\ Head(s) \in S
           /\ Tail(s) \in Seq(S)
           /\ Range(s) = {Head(s)} \cup Range(Tail(s))
  <1>1. Len(s) \in Nat \ {0} /\ DOMAIN s = 1..Len(s) /\ Head(s) = s[1]
    OBVIOUS
  <1>2. Tail(s) \in Seq(S) /\ DOMAIN Tail(s) = 1..(Len(s) - 1)
    OBVIOUS
  <1>3. \A i \in 1..(Len(s) - 1) : Tail(s)[i] = s[i + 1]
    OBVIOUS
  <1>4. \A i \in 2..Len(s) : i - 1 \in 1..(Len(s) - 1) /\ Tail(s)[i - 1] = s[i]
    BY <1>1, <1>3
  <1>5. Range(Tail(s)) \subseteq Range(s)
    BY <1>1, <1>2, <1>3 DEF Range
  <1>6. ASSUME NEW x \in Range(s), x # Head(s)
        PROVE  x \in Range(Tail(s))
    <2>1. PICK i \in 1..Len(s) : x = s[i]
      BY <1>1 DEF Range
    <2>2. i - 1 \in DOMAIN Tail(s) /\ Tail(s)[i - 1] = x
      BY <1>1, <1>2, <1>4, <1>6, <2>1
    <2>3. QED  BY <2>2 DEF Range
  <1>7. Head(s) \in Range(s) /\ Head(s) \in S
    BY <1>1 DEF Range
  <1>8. QED  BY <1>2, <1>5, <1>6, <1>7

\* A queue without duplicates keeps none when its head leaves.
LEMMA HeadLeaves ==
    ASSUME NEW S, NEW s \in Seq(S), s # <<>>,
           \A i, j \in DOMAIN s : s[i] = s[j] => i = j
    PROVE  /\ Head(s) \notin Range(Tail(s))
           /\ \A i, j \in DOMAIN Tail(s) : Tail(s)[i] = Tail(s)[j] => i = j
  <1>1. Len(s) \in Nat \ {0} /\ DOMAIN s = 1..Len(s) /\ Head(s) = s[1]
    OBVIOUS
  <1>2. DOMAIN Tail(s) = 1..(Len(s) - 1)
    OBVIOUS
  <1>3. \A i \in 1..(Len(s) - 1) : Tail(s)[i] = s[i + 1] /\ i + 1 \in DOMAIN s
    BY <1>1
  <1>4. QED  BY <1>1, <1>2, <1>3 DEF Range

\* Appending a new element makes no duplicate.
LEMMA AppendNew ==
    ASSUME NEW S, NEW s \in Seq(S), NEW e \in S, e \notin Range(s),
           \A i, j \in DOMAIN s : s[i] = s[j] => i = j
    PROVE  \A i, j \in DOMAIN Append(s, e) :
               Append(s, e)[i] = Append(s, e)[j] => i = j
  <1>1. DOMAIN s = 1..Len(s) /\ DOMAIN Append(s, e) = 1..(Len(s) + 1) /\ Len(s) \in Nat
    OBVIOUS
  <1>2. \A i \in 1..Len(s) : Append(s, e)[i] = s[i] /\ Append(s, e)[i] # e
    BY <1>1 DEF Range
  <1>3. Append(s, e)[Len(s) + 1] = e
    OBVIOUS
  <1>4. QED  BY <1>1, <1>2, <1>3

\* Dropping the last element leaves a subset; the last element is a member.
LEMMA RangeFront ==
    ASSUME NEW S, NEW s \in Seq(S), s # <<>>
    PROVE  /\ s[Len(s)] \in S /\ s[Len(s)] \in Range(s)
           /\ SubSeq(s, 1, Len(s) - 1) \in Seq(S)
           /\ Range(SubSeq(s, 1, Len(s) - 1)) \subseteq Range(s)
  <1>1. Len(s) \in Nat \ {0} /\ DOMAIN s = 1..Len(s)
    OBVIOUS
  <1>2. /\ SubSeq(s, 1, Len(s) - 1) \in Seq(S)
        /\ DOMAIN SubSeq(s, 1, Len(s) - 1) = 1..(Len(s) - 1)
        /\ \A i \in 1..(Len(s) - 1) : SubSeq(s, 1, Len(s) - 1)[i] = s[i]
    BY <1>1
  <1>3. QED  BY <1>1, <1>2 DEF Range

\* The elements of a sequence over S are in S.
LEMMA RangeType ==
    ASSUME NEW S, NEW s \in Seq(S)
    PROVE  Range(s) \subseteq S
  BY DEF Range

\* The empty sequence has no elements.
LEMMA RangeEmpty == Range(<<>>) = {}
  BY DEF Range

\* One sequence after another.
LEMMA Concatenated ==
    ASSUME NEW S, NEW p \in Seq(S), NEW q \in Seq(S)
    PROVE  /\ p \o q \in Seq(S) /\ Len(p \o q) = Len(p) + Len(q)
           /\ \A i \in 1..(Len(p) + Len(q)) :
                 (p \o q)[i] = IF i <= Len(p) THEN p[i] ELSE q[i - Len(p)]
  OBVIOUS

\* A function on 1..n is a sequence of length n.
LEMMA FunctionIsSeq ==
    ASSUME NEW S, NEW n \in Nat, NEW f \in [1..n -> S]
    PROVE  f \in Seq(S) /\ Len(f) = n
  OBVIOUS

\* The first k elements of a sequence.
LEMMA Prefix ==
    ASSUME NEW S, NEW s \in Seq(S), NEW k \in 0..Len(s)
    PROVE  /\ SubSeq(s, 1, k) \in Seq(S) /\ Len(SubSeq(s, 1, k)) = k
           /\ DOMAIN SubSeq(s, 1, k) = 1..k
           /\ \A i \in 1..k : SubSeq(s, 1, k)[i] = s[i]
  OBVIOUS

\* A new element in a place between two others moves the later ones up.
Inserted(s, a, e) == SubSeq(s, 1, a) \o <<e>> \o SubSeq(s, a + 1, Len(s))

\* The elements of s are those of t, but for the one after the first a.
MovesUp(s, t, a) ==
    \A i \in DOMAIN s : (i <= a => t[i] = s[i]) /\ (i > a => t[i + 1] = s[i])

LEMMA InsertedAt ==
    ASSUME NEW S, NEW s \in Seq(S), NEW e \in S,
           NEW n \in Nat, n = Len(s), NEW a \in 0..n,
           NEW t, t = Inserted(s, a, e)
    PROVE  /\ t \in Seq(S) /\ DOMAIN t = 1..(n + 1)
           /\ t[a + 1] = e
           /\ MovesUp(s, t, a)
           /\ Range(t) = Range(s) \cup {e}
  <1> DEFINE u == SubSeq(s, 1, a)
             v == SubSeq(s, a + 1, n)
  <1>1. u \in Seq(S) /\ Len(u) = a /\ \A i \in 1..a : u[i] = s[i]
    OBVIOUS
  <1>2. v \in Seq(S) /\ Len(v) = n - a /\ \A i \in 1..(n - a) : v[i] = s[i + a]
    OBVIOUS
  <1> HIDE DEF u, v
  <1>3. /\ u \o <<e>> \in Seq(S) /\ Len(u \o <<e>>) = a + 1
        /\ (u \o <<e>>)[a + 1] = e /\ \A i \in 1..a : (u \o <<e>>)[i] = u[i]
    BY <1>1
  <1> DEFINE w == u \o <<e>>
  <1>4. w \in Seq(S) /\ Len(w) = a + 1 /\ w[a + 1] = e /\ \A i \in 1..a : w[i] = s[i]
    BY <1>1, <1>3
  <1> HIDE DEF w
  <1>5. t = w \o v
    BY DEF Inserted, w, u, v
  <1>6. /\ t \in Seq(S) /\ Len(t) = n + 1
        /\ \A i \in 1..(a + 1) : t[i] = w[i]
        /\ \A i \in (a + 2)..(n + 1) : t[i] = v[i - (a + 1)]
    <2>0. w \in Seq(S) /\ v \in Seq(S)
      BY <1>2, <1>4
    <2>. PICK p \in Seq(S), q \in Seq(S) : p = w /\ q = v
      BY <2>0
    <2>1. t \in Seq(S) /\ Len(t) = Len(w) + Len(v) /\ Len(w) + Len(v) = n + 1
      <3>1. p \o q \in Seq(S) /\ Len(p \o q) = Len(p) + Len(q)
        BY Concatenated
      <3>2. t = p \o q
        BY <1>5
      <3>3. Len(w) = a + 1 /\ Len(v) = n - a
        BY <1>2, <1>4
      <3>4. Len(w) + Len(v) = n + 1
        <4>1. \A k, m \in Int : (k + 1) + (m - k) = m + 1
          OBVIOUS
        <4>2. a \in Int /\ n \in Int
          OBVIOUS
        <4>3. QED  BY ONLY <3>3, <4>1, <4>2
      <3>5. QED  BY ONLY <3>1, <3>2, <3>4, p = w, q = v
    <2>2. \A i \in 1..(Len(w) + Len(v)) :
             t[i] = IF i <= Len(w) THEN w[i] ELSE v[i - Len(w)]
      <3>1. \A i \in 1..(Len(p) + Len(q)) :
               (p \o q)[i] = IF i <= Len(p) THEN p[i] ELSE q[i - Len(p)]
        BY Concatenated
      <3>2. t = p \o q
        BY <1>5
      <3>3. QED  BY ONLY <3>1, <3>2, p = w, q = v
    <2>3. \A i \in 1..(n + 1) : t[i] = IF i <= a + 1 THEN w[i] ELSE v[i - (a + 1)]
      BY <1>4, <2>1, <2>2
    <2>4. /\ \A i \in 1..(a + 1) : i \in 1..(n + 1) /\ i <= a + 1
          /\ \A i \in (a + 2)..(n + 1) : i \in 1..(n + 1) /\ ~(i <= a + 1)
      OBVIOUS
    <2>5. QED  BY <2>1, <2>3, <2>4
  <1>7. DOMAIN t = 1..(n + 1) /\ t[a + 1] = e /\ \A i \in 1..a : t[i] = s[i]
    <2>1. a + 1 \in 1..(a + 1) /\ \A i \in 1..a : i \in 1..(a + 1)
      OBVIOUS
    <2>2. DOMAIN t = 1..(n + 1)
      BY <1>6
    <2>3. QED  BY <1>4, <1>6, <2>1, <2>2
  <1>8. \A i \in (a + 2)..(n + 1) : t[i] = s[i - 1]
    <2>1. ASSUME NEW i \in (a + 2)..(n + 1)
          PROVE  t[i] = s[i - 1]
      <3>1. i - (a + 1) \in 1..(n - a) /\ (i - (a + 1)) + a = i - 1
        OBVIOUS
      <3>2. QED  BY <1>2, <1>6, <3>1
    <2>2. QED  BY <2>1
  <1>9. ASSUME NEW x \in Range(t)
        PROVE  x \in Range(s) \cup {e}
    <2>1. PICK i \in 1..(n + 1) : x = t[i]
      BY <1>7 DEF Range
    <2>2. i \in 1..a \/ i = a + 1 \/ (i \in (a + 2)..(n + 1) /\ i - 1 \in 1..n)
      OBVIOUS
    <2>3. DOMAIN s = 1..n /\ \A j \in 1..a : j \in 1..n
      OBVIOUS
    <2>4. t[i] \in {e} \/ (i \in 1..a /\ t[i] = s[i])
          \/ (i - 1 \in 1..n /\ t[i] = s[i - 1])
      BY <1>7, <1>8, <2>2
    <2>5. QED  BY <2>1, <2>3, <2>4 DEF Range
  <1>10. ASSUME NEW x \in Range(s)
         PROVE  x \in Range(t)
    <2>1. PICK i \in 1..n : x = s[i]
      BY DEF Range
    <2>2. CASE i \in 1..a
      <3>0. \A k \in Nat : \A j \in 1..k : j \in 1..(k + 1)
        OBVIOUS
      <3>1. i \in 1..(n + 1) /\ t[i] = x
        BY <1>7, <2>1, <2>2, <3>0
      <3>2. QED  BY <1>7, <3>1 DEF Range
    <2>3. CASE i \notin 1..a
      <3>1. i + 1 \in (a + 2)..(n + 1) /\ i + 1 \in 1..(n + 1) /\ (i + 1) - 1 = i
        BY <2>3
      <3>2. t[i + 1] = x
        BY <1>8, <2>1, <3>1
      <3>3. QED  BY <1>7, <3>1, <3>2 DEF Range
    <2>4. QED  BY <2>2, <2>3
  <1>11. e \in Range(t)
    <2>1. a + 1 \in 1..(n + 1)
      OBVIOUS
    <2>2. QED  BY <1>7, <2>1 DEF Range
  <1>12. ASSUME NEW i \in DOMAIN s
         PROVE  (i <= a => t[i] = s[i]) /\ (i > a => t[i + 1] = s[i])
    <2>1. i \in 1..n
      OBVIOUS
    <2>2. ASSUME i <= a
          PROVE  t[i] = s[i]
      <3>1. i \in 1..a
        BY <2>1, <2>2
      <3>2. QED  BY <1>7, <3>1
    <2>3. ASSUME i > a
          PROVE  t[i + 1] = s[i]
      <3>1. i + 1 \in (a + 2)..(n + 1) /\ (i + 1) - 1 = i
        BY <2>1, <2>3
      <3>2. QED  BY <1>8, <3>1
    <2>4. QED  BY <2>2, <2>3
  <1>13. MovesUp(s, t, a)
    BY <1>12 DEF MovesUp
  <1>14. QED  BY <1>6, <1>7, <1>9, <1>10, <1>11, <1>13

\* A descending row of numbers stays descending if a new one goes between
\* those above it and those below.
Descending(f, n) ==
    \A i \in 1..n : f[i] \in Int /\ \A j \in 1..n : i < j => f[i] > f[j]

LEMMA InsertedInOrder ==
    ASSUME NEW n \in Nat, NEW a \in 0..n, NEW m \in Int, NEW f, NEW g,
           Descending(f, n),
           \A i \in 1..a : f[i] > m /\ g[i] = f[i],
           a < n => f[a + 1] < m,
           g[a + 1] = m,
           \A i \in (a + 1)..n : g[i + 1] = f[i]
    PROVE  Descending(g, n + 1)
  <1>0. /\ \A i \in 1..n : f[i] \in Int
        /\ \A i, j \in 1..n : i < j => f[i] > f[j]
    BY DEF Descending
  <1>1. ASSUME NEW i \in (a + 1)..n
        PROVE  f[i] < m
    <2>1. a + 1 \in 1..n /\ i \in 1..n /\ a < n /\ (i = a + 1 \/ a + 1 < i)
      OBVIOUS
    <2>2. f[i] \in Int /\ f[a + 1] \in Int /\ f[a + 1] < m
      BY <1>0, <2>1
    <2>3. i = a + 1 \/ f[a + 1] > f[i]
      BY <1>0, <2>1
    <2>4. QED  BY <2>2, <2>3
  <1>2. ASSUME NEW i \in 1..(n + 1), NEW j \in 1..(n + 1), i < j
        PROVE  g[i] > g[j]
    <2>1. CASE j \in 1..a
      <3>1. i \in 1..a /\ i \in 1..n /\ j \in 1..n
        BY <1>2, <2>1
      <3>2. QED  BY <1>0, <1>2, <2>1, <3>1
    <2>2. CASE j = a + 1
      <3>1. i \in 1..a
        BY <1>2, <2>2
      <3>2. QED  BY <2>2, <3>1
    <2>3. CASE j \in (a + 2)..(n + 1)
      <3>1. j - 1 \in (a + 1)..n /\ j - 1 \in 1..n
        BY <2>3
      <3>1a. (j - 1) + 1 = j
        BY <2>3
      <3>2. g[j] = f[j - 1] /\ f[j - 1] < m /\ f[j - 1] \in Int
        BY <1>0, <1>1, <3>1, <3>1a
      <3>3. CASE i \in 1..a
        <4>1. f[i] > m /\ g[i] = f[i] /\ f[i] \in Int
          BY <1>0, <3>3
        <4>2. QED  BY <3>2, <4>1
      <3>4. CASE i = a + 1
        BY <3>2, <3>4
      <3>5. CASE i \in (a + 2)..(n + 1)
        <4>1. /\ i - 1 \in 1..n /\ i - 1 < j - 1
              /\ i - 1 \in (a + 1)..n /\ (i - 1) + 1 = i
          BY <1>2, <3>5
        <4>2. g[i] = f[i - 1]
          BY <4>1
        <4>3. QED  BY <1>0, <3>1, <3>2, <4>1, <4>2
      <3>6. QED  BY <3>3, <3>4, <3>5
    <2>4. QED  BY <2>1, <2>2, <2>3
  <1>3. ASSUME NEW i \in 1..(n + 1)
        PROVE  g[i] \in Int
    <2>1. CASE i \in 1..a
      <3>1. i \in 1..n /\ g[i] = f[i]
        BY <2>1
      <3>2. QED  BY <1>0, <3>1
    <2>2. CASE i = a + 1
      BY <2>2
    <2>3. CASE i \in (a + 2)..(n + 1)
      <3>1. i - 1 \in (a + 1)..n /\ i - 1 \in 1..n /\ (i - 1) + 1 = i
        BY <2>3
      <3>2. g[i] = f[i - 1]
        BY <3>1
      <3>3. QED  BY <1>0, <3>1, <3>2
    <2>4. QED  BY <2>1, <2>2, <2>3
  <1>4. QED  BY <1>2, <1>3 DEF Descending

=============================================================================
