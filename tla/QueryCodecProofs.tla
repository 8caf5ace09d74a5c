-------------------------- MODULE QueryCodecProofs --------------------------
(***************************************************************************)
(* Proofs about QueryCodec: a query that an export encodes reaches         *)
(* PostgreSQL as it was in the editor, whatever its length and characters; *)
(* one that Explain sends is not decoded.                                  *)
(***************************************************************************)
EXTENDS QueryCodec, SequenceTheorems, FiniteSetTheorems, TLAPS

-----------------------------------------------------------------------------
(***************************************************************************)
(* Induction over a bounded range, with a set for its hypothesis.          *)
(***************************************************************************)

\* From counting: the numbers below all of T are 0 .. c - 1, c their number.
LEMMA LeastElement ==
  ASSUME NEW T \in SUBSET Nat, NEW n \in T
  PROVE  \E m \in T : \A k \in T : m <= k
<1> DEFINE below == {k \in 0 .. n : \A j \in T : j > k}
           c == Cardinality(below)
<1>1. n \in Nat /\ IsFiniteSet(0 .. n) /\ Cardinality(0 .. n) = n + 1
  BY FS_Interval
<1>2. below \in SUBSET (0 .. n) /\ n \notin below
  OBVIOUS
<1>3. IsFiniteSet(below) /\ c \in Nat /\ c <= n + 1
  BY <1>1, <1>2, FS_Subset, FS_CardinalityType
<1> HIDE DEF c
<1>4. c \notin below
  <2>1. SUFFICES ASSUME c \in below PROVE FALSE
    OBVIOUS
  <2>2. 0 .. c \in SUBSET below
    BY <1>3, <2>1
  <2>3. Cardinality(0 .. c) = c + 1
    BY <1>3, FS_Interval
  <2>4. Cardinality(0 .. c) <= c
    BY <1>3, <2>2, FS_Subset DEF c
  <2> QED
    BY <1>3, <2>3, <2>4
<1>5. below \in SUBSET (0 .. c - 1)
  BY <1>3, <1>4
<1>6. IsFiniteSet(0 .. c - 1) /\ Cardinality(0 .. c - 1) = c
  BY <1>3, FS_Interval
<1>7. below = 0 .. c - 1
  BY <1>5, <1>6, FS_Subset DEF c
<1>8. c <= n
  BY <1>2, <1>3, <1>7
<1>9. PICK j \in T : j <= c
  BY <1>3, <1>4, <1>8
<1>10. \A k \in T : k > c - 1
  <2>1. CASE c = 0
    BY <2>1
  <2>2. CASE c > 0
    BY <1>3, <1>7, <2>2
  <2> QED
    BY <1>3, <2>1, <2>2
<1> QED
  BY <1>3, <1>9, <1>10

LEMMA Induction ==
  ASSUME NEW S, NEW m \in Nat, 0 \in S, \A n \in 0 .. m - 1 : n \in S => n + 1 \in S
  PROVE  m \in S
<1> DEFINE T == {n \in 0 .. m : n \notin S}
<1>1. SUFFICES ASSUME T # {} PROVE FALSE
  OBVIOUS
<1>2. PICK k \in T : \A n \in T : k <= n
  <2>1. T \in SUBSET Nat /\ \E n \in T : TRUE
    BY <1>1
  <2> HIDE DEF T
  <2> QED
    BY <2>1, LeastElement
<1>3. k \in 1 .. m /\ k - 1 \notin T
  BY <1>2
<1> QED
  BY <1>3

\* A function defined by recursion exists.
StepsIn(step, m, X) == \A x \in X : \A i \in 1 .. m : step[<<x, i>>] \in X

IsRecursive(f, base, step, m, X) ==
    /\ f \in [0 .. m -> X]
    /\ f[0] = base
    /\ \A i \in 1 .. m : f[i] = step[<<f[i - 1], i>>]

LEMMA Recursion ==
  ASSUME NEW X, NEW base, NEW m, NEW step, base \in X, m \in Nat, StepsIn(step, m, X)
  PROVE  \E f : IsRecursive(f, base, step, m, X)
<1> DEFINE S == {n \in 0 .. m : \E f : IsRecursive(f, base, step, n, X)}
<1>1. 0 \in S
  <2> DEFINE f == [i \in 0 .. 0 |-> base]
  <2>1. IsRecursive(f, base, step, 0, X)
    BY DEF IsRecursive
  <2> HIDE DEF f
  <2> QED
    BY <2>1
<1>2. ASSUME NEW n \in 0 .. m - 1, n \in S PROVE n + 1 \in S
  <2>1. PICK f : IsRecursive(f, base, step, n, X)
    BY <1>2
  <2> DEFINE g == [i \in 0 .. n + 1 |-> IF i <= n THEN f[i] ELSE step[<<f[n], n + 1>>]]
  <2>2. f[n] \in X /\ n + 1 \in 1 .. m
    BY <1>2, <2>1 DEF IsRecursive
  <2>3. step[<<f[n], n + 1>>] \in X
    BY <2>2 DEF StepsIn
  <2>4. g \in [0 .. n + 1 -> X] /\ g[0] = base
    BY <2>1, <2>3 DEF IsRecursive
  <2>5. ASSUME NEW i \in 1 .. n + 1 PROVE g[i] = step[<<g[i - 1], i>>]
    <3>1. CASE i <= n
      BY <2>1, <3>1 DEF IsRecursive
    <3>2. CASE i = n + 1
      <4>1. g[n + 1] = step[<<f[n], n + 1>>] /\ g[n] = f[n] /\ i - 1 = n
        BY <3>2
      <4> HIDE DEF g
      <4> QED
        BY <3>2, <4>1
    <3> QED
      BY <3>1, <3>2
  <2> HIDE DEF g
  <2>6. IsRecursive(g, base, step, n + 1, X)
    BY <2>4, <2>5 DEF IsRecursive
  <2> QED
    BY <1>2, <2>6
<1> HIDE DEF S
<1>3. m \in S
  BY <1>1, <1>2, Induction
<1> QED
  BY <1>3 DEF S

-----------------------------------------------------------------------------
(***************************************************************************)
(* FlattenSeq and Without.                                                 *)
(***************************************************************************)

LEMMA IsSequence ==
  ASSUME NEW S, NEW n \in Nat, NEW f \in [1 .. n -> S]
  PROVE  f \in Seq(S) /\ Len(f) = n
<1>1. f \in Seq(S)
  BY SeqDef
<1>2. 1 .. Len(f) = 1 .. n /\ Len(f) \in Nat
  BY <1>1, LenProperties
<1> QED
  BY <1>1, <1>2

\* Sequences of numbers, by a name that keeps their set opaque.
Strings == Seq(Int)

LEMMA StringFacts ==
  /\ <<>> \in Strings
  /\ \A s \in Strings : Len(s) \in Nat /\ DOMAIN s = 1 .. Len(s) /\ s = SubSeq(s, 1, Len(s))
  /\ \A s \in Strings : \A i \in 1 .. Len(s) : s[i] \in Int
  /\ \A s \in Strings : Len(s) = 0 => s = <<>>
BY EmptySeq, LenProperties, ElementOfSeq, SubSeqFull DEF Strings

LEMMA Concatenated ==
  ASSUME NEW s \in Strings, NEW t \in Strings
  PROVE  /\ s \o t \in Strings
         /\ Len(s \o t) = Len(s) + Len(t)
         /\ \A i \in 1 .. Len(s) + Len(t) :
              (s \o t)[i] = IF i <= Len(s) THEN s[i] ELSE t[i - Len(s)]
         /\ <<>> \o s = s
BY ConcatProperties, ConcatEmptySeq DEF Strings

LEMMA SameString ==
  ASSUME NEW s \in Strings, NEW t \in Strings, Len(s) = Len(t),
         \A i \in 1 .. Len(s) : s[i] = t[i]
  PROVE  s = t
BY SeqEqual DEF Strings

IsFlatten(g, ss) ==
    g = [i \in 1 .. Len(ss) |-> IF i = 1 THEN ss[i] ELSE g[i - 1] \o ss[i]]

LEMMA Flattened ==
  ASSUME NEW n \in Nat, NEW ss \in [1 .. n -> Strings]
  PROVE  \E f \in [0 .. n -> Strings] :
           /\ f[0] = <<>>
           /\ \A i \in 1 .. n : f[i] = f[i - 1] \o ss[i]
           /\ FlattenSeq(ss) = f[n]
<1> DEFINE step == [x \in Strings \X (1 .. n) |-> x[1] \o ss[x[2]]]
<1>0. Len(ss) = n
  BY IsSequence
<1>1. \A i \in 1 .. n : ss[i] \in Strings
  OBVIOUS
<1>2. \A x \in Strings : \A i \in 1 .. n : step[<<x, i>>] = x \o ss[i]
  OBVIOUS
<1>3. <<>> \in Strings
  BY StringFacts
<1>4. PICK f \in [0 .. n -> Strings] :
        f[0] = <<>> /\ \A i \in 1 .. n : f[i] = step[<<f[i - 1], i>>]
  <2>1. StepsIn(step, n, Strings)
    BY <1>1, <1>2, Concatenated DEF StepsIn
  <2> HIDE DEF step
  <2>2. \E f : IsRecursive(f, <<>>, step, n, Strings)
    BY <1>3, <2>1, Recursion, Zenon
  <2> QED
    BY <2>2 DEF IsRecursive
<1>5. ASSUME NEW i \in 1 .. n PROVE f[i] = f[i - 1] \o ss[i]
  <2>1. f[i - 1] \in Strings
    OBVIOUS
  <2> HIDE DEF step
  <2> QED
    BY <1>2, <1>4, <2>1
<1> HIDE DEF step
<1>6. CASE n = 0
  <2>1. FlattenSeq(ss) = ss /\ ss = <<>>
    <3>1. ss \in Seq(Strings)
      BY IsSequence
    <3>2. ss = <<>>
      BY <1>0, <1>6, <3>1, EmptySeq
    <3> QED
      BY <1>0, <1>6, <3>2 DEF FlattenSeq
  <2> QED
    BY <1>4, <1>5, <1>6, <2>1
<1>7. CASE n # 0
  <2> DEFINE g == CHOOSE g : IsFlatten(g, ss)
             h == [i \in 1 .. n |-> f[i]]
  <2>1. FlattenSeq(ss) = g[n]
    BY <1>0, <1>7 DEF FlattenSeq, IsFlatten
  <2>2. IsFlatten(h, ss)
    <3>1. ASSUME NEW i \in 1 .. n
          PROVE  h[i] = IF i = 1 THEN ss[i] ELSE h[i - 1] \o ss[i]
      <4>1. CASE i = 1
        <5>1. 1 \in 1 .. n /\ 1 - 1 = 0
          BY <4>1
        <5>2. f[1] = <<>> \o ss[1] /\ ss[1] \in Strings
          BY <1>1, <1>4, <1>5, <5>1
        <5>3. f[1] = ss[1]
          BY <5>2, Concatenated
        <5> QED
          BY <4>1, <5>3
      <4>2. CASE i # 1
        <5>1. i - 1 \in 1 .. n
          BY <1>1, <4>2
        <5> QED
          BY <1>5, <4>2, <5>1
      <4> QED
        BY <4>1, <4>2
    <3> QED
      BY <1>0, <3>1 DEF IsFlatten
  <2>3. IsFlatten(g, ss)
    BY <2>2
  <2> HIDE DEF g
  <2> DEFINE T == {i \in 0 .. n : i = 0 \/ g[i] = f[i]}
  <2>4. 0 \in T
    BY <1>1
  <2>5. ASSUME NEW i \in 0 .. n - 1, i \in T PROVE i + 1 \in T
    <3>1. i + 1 \in 1 .. n /\ (i + 1) - 1 = i /\ (i = 0 \/ g[i] = f[i])
      BY <2>5
    <3> HIDE DEF T
    <3>2. g[i + 1] = IF i + 1 = 1 THEN ss[i + 1] ELSE g[i] \o ss[i + 1]
      BY <1>0, <2>3, <3>1 DEF IsFlatten
    <3>3. f[i + 1] = f[i] \o ss[i + 1] /\ ss[i + 1] \in Strings
      BY <1>1, <1>5, <3>1
    <3>4. g[i + 1] = f[i + 1]
      <4>1. CASE i = 0
        <5>1. <<>> \o ss[i + 1] = ss[i + 1]
          BY <3>3, Concatenated
        <5>2. f[i] = <<>>
          BY <1>4, <4>1
        <5>3. g[i + 1] = ss[i + 1]
          BY <3>2, <4>1
        <5> QED
          BY <3>3, <5>1, <5>2, <5>3, Zenon
      <4>2. CASE i # 0
        <5>1. i + 1 # 1 /\ g[i] = f[i]
          BY <3>1, <4>2
        <5> QED
          BY <3>2, <3>3, <5>1, Zenon
      <4> QED
        BY <4>1, <4>2
    <3> QED
      BY <3>1, <3>4 DEF T
  <2> HIDE DEF T
  <2>6. n \in T
    BY <2>4, <2>5, Induction, Zenon
  <2> QED
    BY <1>4, <1>5, <1>7, <2>1, <2>6 DEF T
<1> QED
  BY <1>6, <1>7

\* The sequences of ss lie one after the other in s, the i-th behind off[i - 1].
LaidOut(s, ss, n, off) ==
    /\ n \in Nat /\ s \in Strings
    /\ ss \in [1 .. n -> Strings] /\ off \in [0 .. n -> Nat]
    /\ off[0] = 0
    /\ \A i \in 1 .. n : off[i] = off[i - 1] + Len(ss[i])
    /\ Len(s) = off[n]
    /\ \A i \in 1 .. n :
         \A j \in 1 .. Len(ss[i]) :
           off[i - 1] + j \in 1 .. Len(s) /\ s[off[i - 1] + j] = ss[i][j]

LEMMA Blocks ==
  ASSUME NEW n \in Nat, NEW ss \in [1 .. n -> Strings]
  PROVE  \E off : LaidOut(FlattenSeq(ss), ss, n, off)
<1>1. PICK f \in [0 .. n -> Strings] :
        /\ f[0] = <<>>
        /\ \A i \in 1 .. n : f[i] = f[i - 1] \o ss[i]
        /\ FlattenSeq(ss) = f[n]
  BY Flattened
<1>2. \A i \in 1 .. n : ss[i] \in Strings /\ Len(ss[i]) \in Nat
  BY StringFacts
<1> DEFINE off == [i \in 0 .. n |-> Len(f[i])]
<1>3. \A i \in 0 .. n : Len(f[i]) \in Nat
  BY <1>1, StringFacts
<1>4. off \in [0 .. n -> Nat] /\ off[0] = 0
  BY <1>1, <1>2, <1>3, StringFacts
<1>5. ASSUME NEW i \in 1 .. n
      PROVE  /\ i - 1 \in 0 .. n /\ i \in 0 .. n
             /\ off[i] = off[i - 1] + Len(ss[i])
             /\ \A k \in 1 .. off[i] :
                  f[i][k] = IF k <= off[i - 1] THEN f[i - 1][k] ELSE ss[i][k - off[i - 1]]
  <2>1. i - 1 \in 0 .. n /\ i \in 0 .. n
    BY <1>2
  <2>2. f[i - 1] \in Strings /\ ss[i] \in Strings /\ f[i] = f[i - 1] \o ss[i]
    BY <1>1, <1>2, <2>1
  <2> QED
    BY <2>1, <2>2, Concatenated
<1> HIDE DEF off
<1> DEFINE Placed(k) ==
             \A i \in 1 .. k : \A j \in 1 .. Len(ss[i]) :
               off[i - 1] + j \in 1 .. off[k] /\ f[k][off[i - 1] + j] = ss[i][j]
           T == {k \in 0 .. n : Placed(k)}
<1>6. 0 \in T
  BY <1>2
<1>7. ASSUME NEW k \in 0 .. n - 1, k \in T PROVE k + 1 \in T
  <2>1. /\ k + 1 \in 1 .. n /\ k \in 0 .. n /\ (k + 1) - 1 = k
        /\ off[k] \in Nat /\ off[k + 1] \in Nat /\ Len(ss[k + 1]) \in Nat
    BY <1>2, <1>4
  <2>2. off[k + 1] = off[k] + Len(ss[k + 1])
    BY <1>5, <2>1
  <2>3. \A x \in 1 .. off[k + 1] :
          f[k + 1][x] = IF x <= off[k] THEN f[k][x] ELSE ss[k + 1][x - off[k]]
    BY <1>5, <2>1
  <2>4. ASSUME NEW i \in 1 .. k + 1, NEW j \in 1 .. Len(ss[i])
        PROVE  off[i - 1] + j \in 1 .. off[k + 1] /\ f[k + 1][off[i - 1] + j] = ss[i][j]
    <3>1. CASE i = k + 1
      BY <2>1, <2>2, <2>3, <3>1
    <3>2. CASE i # k + 1
      <4>1. i \in 1 .. k
        BY <2>1, <3>2
      <4>2. off[i - 1] + j \in 1 .. off[k] /\ f[k][off[i - 1] + j] = ss[i][j]
        BY <1>7, <4>1
      <4>3. off[i - 1] + j \in 1 .. off[k + 1] /\ off[i - 1] + j <= off[k]
        BY <2>1, <2>2, <4>2
      <4> QED
        BY <2>3, <4>2, <4>3
    <3> QED
      BY <3>1, <3>2
  <2> QED
    BY <2>1, <2>4
<1> HIDE DEF T
<1>8. n \in T
  BY <1>6, <1>7, Induction, Zenon
<1>9. Len(f[n]) = off[n]
  BY <1>2 DEF off
<1>10. FlattenSeq(ss) \in Strings
  BY <1>1
<1>11. \A i \in 1 .. n : off[i] = off[i - 1] + Len(ss[i])
  BY <1>5
<1>12. \A i \in 1 .. n : \A j \in 1 .. Len(ss[i]) :
         off[i - 1] + j \in 1 .. off[n] /\ f[n][off[i - 1] + j] = ss[i][j]
  BY <1>8 DEF T
<1>13. f[n] = FlattenSeq(ss)
  BY <1>1
<1>14. LaidOut(f[n], ss, n, off)
  <2> HIDE DEF Placed
  <2> QED
    BY <1>4, <1>9, <1>10, <1>11, <1>12, <1>13 DEF LaidOut
<1> QED
  BY <1>13, <1>14

\* Every position of s is in one of the blocks.
LEMMA BlockOf ==
  ASSUME NEW n, NEW ss, NEW off, NEW s, LaidOut(s, ss, n, off), NEW k \in 1 .. Len(s)
  PROVE  \E i \in 1 .. n : \E j \in 1 .. Len(ss[i]) : k = off[i - 1] + j
<1>0. n \in Nat /\ ss \in [1 .. n -> Strings] /\ off \in [0 .. n -> Nat]
  BY DEF LaidOut
<1> DEFINE T == {i \in 0 .. n : k <= off[i]}
<1>1. T \in SUBSET Nat /\ n \in T /\ 0 \notin T
  BY <1>0 DEF LaidOut
<1>2. \A i \in 1 .. n : i \in T <=> k <= off[i]
  BY <1>0
<1>3. \A i \in 0 .. n : i \notin T => off[i] < k
  BY <1>0
<1> HIDE DEF T
<1>4. PICK i \in T : \A h \in T : i <= h
  BY <1>1, LeastElement
<1>5. i \in 1 .. n /\ i - 1 \in 0 .. n
  <2>1. i \in Nat /\ i <= n /\ i # 0
    BY <1>0, <1>1, <1>4
  <2> QED
    BY <1>0, <2>1
<1>6. i - 1 \notin T
  BY <1>4, <1>5
<1>7. off[i - 1] < k /\ k <= off[i]
  BY <1>2, <1>3, <1>4, <1>5, <1>6
<1>8. off[i] = off[i - 1] + Len(ss[i]) /\ Len(ss[i]) \in Nat /\ off[i - 1] \in Nat
  BY <1>0, <1>5, StringFacts DEF LaidOut
<1>9. k - off[i - 1] \in 1 .. Len(ss[i]) /\ k = off[i - 1] + (k - off[i - 1])
  BY <1>7, <1>8
<1> QED
  BY <1>5, <1>9

IsKept(g, s, unwanted) ==
    g = [k \in 0 .. Len(s) |->
           IF k = 0 THEN <<>>
           ELSE IF s[k] \in unwanted THEN g[k - 1] ELSE Append(g[k - 1], s[k])]

KeepsIn(f, s, unwanted, L) ==
    /\ f \in [0 .. Len(s) -> Seq(L)]
    /\ f[0] = <<>>
    /\ \A i \in 1 .. Len(s) :
         f[i] = IF s[i] \in unwanted THEN f[i - 1] ELSE Append(f[i - 1], s[i])
    /\ Without(s, unwanted) = f[Len(s)]

LEMMA WithoutSteps ==
  ASSUME NEW L, NEW s \in Seq(L), NEW D
  PROVE  \E f : KeepsIn(f, s, D, L)
<1>0. Len(s) \in Nat /\ \A i \in 1 .. Len(s) : s[i] \in L
  BY LenProperties, ElementOfSeq
<1>1. PICK n \in Nat : n = Len(s)
  BY <1>0
<1>2. \A i \in 1 .. n : s[i] \in L
  BY <1>0, <1>1
<1> DEFINE step == [x \in Seq(L) \X (1 .. n) |->
                      IF s[x[2]] \in D THEN x[1] ELSE Append(x[1], s[x[2]])]
<1>3. \A x \in Seq(L) : \A i \in 1 .. n :
        step[<<x, i>>] = IF s[i] \in D THEN x ELSE Append(x, s[i])
  OBVIOUS
<1> HIDE DEF step
<1>4. PICK h : IsRecursive(h, <<>>, step, n, Seq(L))
  <2>1. StepsIn(step, n, Seq(L))
    <3>1. ASSUME NEW x \in Seq(L), NEW i \in 1 .. n PROVE step[<<x, i>>] \in Seq(L)
      <4>1. Append(x, s[i]) \in Seq(L)
        BY <1>2, AppendProperties
      <4> QED
        BY <1>3, <4>1
    <3> QED
      BY <3>1 DEF StepsIn
  <2>2. <<>> \in Seq(L) /\ n \in Nat
    BY <1>1, EmptySeq
  <2> QED
    BY <2>1, <2>2, Recursion, Zenon
<1>5. IsKept(h, s, D)
  <2>1. h \in [0 .. n -> Seq(L)] /\ h[0] = <<>>
    BY <1>4 DEF IsRecursive
  <2>2. ASSUME NEW i \in 1 .. n
        PROVE  h[i] = IF s[i] \in D THEN h[i - 1] ELSE Append(h[i - 1], s[i])
    <3>1. h[i] = step[<<h[i - 1], i>>]
      BY <1>4 DEF IsRecursive
    <3>2. h[i - 1] \in Seq(L)
      BY <1>1, <2>1
    <3> QED
      BY <1>3, <3>1, <3>2
  <2>3. \A i \in 0 .. n : i = 0 \/ i \in 1 .. n
    BY <1>1
  <2> QED
    BY <1>1, <2>1, <2>2, <2>3 DEF IsKept
<1> DEFINE f == CHOOSE f : IsKept(f, s, D)
<1>6. IsKept(f, s, D)
  BY <1>5
<1>7. Without(s, D) = f[n]
  BY <1>1 DEF Without, IsKept
<1> HIDE DEF f
<1>8. f[0] = <<>> /\ DOMAIN f = 0 .. n
  <2>1. 0 \in 0 .. n
    BY <1>1
  <2> QED
    BY <1>1, <1>6, <2>1 DEF IsKept
<1>9. ASSUME NEW i \in 1 .. n
      PROVE  f[i] = IF s[i] \in D THEN f[i - 1] ELSE Append(f[i - 1], s[i])
  <2>1. i \in 0 .. n /\ i # 0
    BY <1>1
  <2> QED
    BY <1>1, <1>6, <2>1, Zenon DEF IsKept
<1>10. ASSUME NEW k \in 0 .. n PROVE f[k] \in Seq(L)
  <2> DEFINE T == {i \in 0 .. k : f[i] \in Seq(L)}
  <2>0. k \in Nat
    BY <1>1
  <2>1. 0 \in T
    BY <1>8, <2>0, EmptySeq
  <2>2. ASSUME NEW i \in 0 .. k - 1, i \in T PROVE i + 1 \in T
    <3>1. i + 1 \in 1 .. n /\ i + 1 \in 0 .. k /\ (i + 1) - 1 = i /\ f[i] \in Seq(L)
      BY <1>1, <2>2
    <3>2. f[i + 1] = IF s[i + 1] \in D THEN f[i] ELSE Append(f[i], s[i + 1])
      BY <1>9, <3>1
    <3>3. f[i + 1] \in Seq(L)
      BY <1>2, <3>1, <3>2, AppendProperties
    <3> QED
      BY <3>1, <3>3
  <2> HIDE DEF T
  <2>3. k \in T
    BY <2>0, <2>1, <2>2, Induction, Zenon
  <2> QED
    BY <2>3 DEF T
<1>11. f \in [0 .. n -> Seq(L)]
  <2>1. f = [i \in 0 .. n |-> f[i]]
    BY <1>1, <1>6, <1>8 DEF IsKept
  <2> QED
    BY <1>10, <2>1
<1> QED
  BY <1>1, <1>7, <1>8, <1>9, <1>11 DEF KeepsIn

LEMMA WithoutType ==
  ASSUME NEW L, NEW s \in Seq(L), NEW D
  PROVE  Without(s, D) \in Seq(L)
<1>1. PICK f \in [0 .. Len(s) -> Seq(L)] : Without(s, D) = f[Len(s)]
  BY WithoutSteps DEF KeepsIn
<1>2. Len(s) \in 0 .. Len(s)
  BY LenProperties
<1> QED
  BY <1>1, <1>2

LEMMA WithoutNone ==
  ASSUME NEW L, NEW s \in Seq(L), NEW D, \A i \in 1 .. Len(s) : s[i] \notin D
  PROVE  Without(s, D) = s
<1>0. Len(s) \in Nat /\ \A i \in 1 .. Len(s) : s[i] \in L
  BY LenProperties, ElementOfSeq
<1>1. PICK f : KeepsIn(f, s, D, L)
  BY WithoutSteps
<1> DEFINE T == {k \in 0 .. Len(s) : Len(f[k]) = k /\ \A j \in 1 .. k : f[k][j] = s[j]}
<1>2. 0 \in T
  BY <1>0, <1>1, EmptySeq DEF KeepsIn
<1>3. ASSUME NEW k \in 0 .. Len(s) - 1, k \in T PROVE k + 1 \in T
  <2>1. k + 1 \in 1 .. Len(s) /\ k \in 0 .. Len(s) /\ (k + 1) - 1 = k /\ k + 1 \in 0 .. Len(s)
    BY <1>0
  <2>2. f[k] \in Seq(L) /\ s[k + 1] \in L /\ f[k + 1] = Append(f[k], s[k + 1])
    BY <1>0, <1>1, <2>1 DEF KeepsIn
  <2>3. Len(f[k]) = k /\ \A j \in 1 .. k : f[k][j] = s[j]
    BY <1>3
  <2>4. Len(f[k + 1]) = k + 1 /\ \A j \in 1 .. k + 1 : f[k + 1][j] = s[j]
    BY <2>1, <2>2, <2>3, AppendProperties
  <2> QED
    BY <2>1, <2>4
<1> HIDE DEF T
<1>4. Len(s) \in T
  BY <1>0, <1>2, <1>3, Induction, Zenon
<1>5. Len(f[Len(s)]) = Len(s) /\ \A j \in 1 .. Len(s) : f[Len(s)][j] = s[j]
  BY <1>4 DEF T
<1>6. f[Len(s)] \in Seq(L)
  BY <1>0, <1>1 DEF KeepsIn
<1> QED
  BY <1>1, <1>5, <1>6, SeqEqual DEF KeepsIn

LEMMA WithoutKeeps ==
  ASSUME NEW L, NEW s \in Seq(L), NEW D, NEW i \in 1 .. Len(s), s[i] \notin D
  PROVE  \E j \in 1 .. Len(Without(s, D)) : Without(s, D)[j] = s[i]
<1>0. Len(s) \in Nat /\ \A h \in 1 .. Len(s) : s[h] \in L
  BY LenProperties, ElementOfSeq
<1>1. PICK f : KeepsIn(f, s, D, L)
  BY WithoutSteps
<1> DEFINE T == {k \in 0 .. Len(s) : i <= k => \E j \in 1 .. Len(f[k]) : f[k][j] = s[i]}
<1>2. 0 \in T
  BY <1>0
<1>3. ASSUME NEW k \in 0 .. Len(s) - 1, k \in T PROVE k + 1 \in T
  <2>1. k + 1 \in 1 .. Len(s) /\ k \in 0 .. Len(s) /\ (k + 1) - 1 = k /\ k + 1 \in 0 .. Len(s)
    BY <1>0
  <2>2. /\ f[k] \in Seq(L) /\ s[k + 1] \in L
        /\ f[k + 1] = IF s[k + 1] \in D THEN f[k] ELSE Append(f[k], s[k + 1])
    BY <1>0, <1>1, <2>1 DEF KeepsIn
  <2>3. Len(f[k]) \in Nat
    BY <2>2, LenProperties
  <2>4. CASE i = k + 1
    <3>1. f[k + 1] = Append(f[k], s[i])
      BY <2>2, <2>4
    <3>2. Len(f[k + 1]) = Len(f[k]) + 1 /\ f[k + 1][Len(f[k]) + 1] = s[i]
      BY <2>2, <2>4, <3>1, AppendProperties
    <3>3. Len(f[k]) + 1 \in 1 .. Len(f[k + 1])
      BY <2>3, <3>2
    <3> QED
      BY <2>1, <3>2, <3>3
  <2>5. CASE i <= k
    <3>1. PICK j \in 1 .. Len(f[k]) : f[k][j] = s[i]
      BY <1>3, <2>5
    <3>2. j \in 1 .. Len(f[k + 1]) /\ f[k + 1][j] = s[i]
      BY <2>2, <2>3, <3>1, AppendProperties
    <3> QED
      BY <2>1, <3>2
  <2>6. CASE i > k + 1
    BY <2>1, <2>6
  <2> QED
    BY <2>1, <2>4, <2>5, <2>6
<1> HIDE DEF T
<1>4. Len(s) \in T
  BY <1>0, <1>2, <1>3, Induction, Zenon
<1>5. i <= Len(s)
  BY <1>0
<1> QED
  BY <1>1, <1>4, <1>5 DEF T, KeepsIn

-----------------------------------------------------------------------------
(***************************************************************************)
(* The code units and their bytes.                                         *)
(***************************************************************************)

\* The two longer forms of Utf8Unit, of any c.
LEMMA UnitOfTwo ==
  ASSUME NEW c, ~(c < 128), c < 2048
  PROVE  Utf8Unit(c) = <<(c \div 64) + 192, (c % 64) + 128>>
BY SMT DEF Utf8Unit

LEMMA UnitOfThree ==
  ASSUME NEW c, ~(c < 128), ~(c < 2048)
  PROVE  Utf8Unit(c) = <<(c \div 4096) + 224, ((c \div 64) % 64) + 128, (c % 64) + 128>>
BY SMT DEF Utf8Unit

\* A lead byte says how many bytes follow, and the payloads give c back.
TwoBytes(c, p, q) ==
    /\ p \in 194 .. 223 /\ q \in 128 .. 191
    /\ (p - 192) * 64 + q - 128 = c

ThreeBytes(c, p, q, r) ==
    /\ p \in 224 .. 239 /\ q \in 128 .. 191 /\ r \in 128 .. 191
    /\ (p - 224) * 4096 + (q - 128) * 64 + r - 128 = c

\* _utf8_encode writes every code unit that is no surrogate as UTF-8 does.
THEOREM UnitIsUtf8 ==
  ASSUME NEW c \in Nat, c < 16 * 4096
  PROVE  IF c < 128 THEN Utf8Unit(c) = <<c>>
         ELSE IF c < 2048
         THEN \E p, q : Utf8Unit(c) = <<p, q>> /\ TwoBytes(c, p, q)
         ELSE \E p, q, r : Utf8Unit(c) = <<p, q, r>> /\ ThreeBytes(c, p, q, r)
<1>1. CASE c < 128
  <2>1. Utf8Unit(c) = <<c>>
    BY <1>1, SMT DEF Utf8Unit
  <2> QED
    BY <1>1, <2>1, SMT
<1>2. CASE ~(c < 128) /\ c < 2048
  <2>1. TwoBytes(c, (c \div 64) + 192, (c % 64) + 128)
    BY <1>2, SMT DEF TwoBytes
  <2> QED
    BY <1>2, <2>1, UnitOfTwo, SMT
<1>3. CASE ~(c < 128) /\ ~(c < 2048)
  <2>1. ((c \div 64) % 64) + 128 \in 128 .. 191
    <3>1. \A d \in Nat : (d % 64) + 128 \in 128 .. 191
      BY SMT
    <3>2. c \div 64 \in Nat
      BY SMT
    <3> QED
      BY <3>1, <3>2, SMT
  <2>2. (c \div 4096) + 224 \in 224 .. 239 /\ (c % 64) + 128 \in 128 .. 191
    BY <1>3, SMT
  <2>3. ((c \div 4096) + 224 - 224) * 4096 + (((c \div 64) % 64) + 128 - 128) * 64
          + ((c % 64) + 128) - 128 = c
    BY SMT
  <2>4. ThreeBytes(c, (c \div 4096) + 224, ((c \div 64) % 64) + 128, (c % 64) + 128)
    BY <2>1, <2>2, <2>3, SMT DEF ThreeBytes
  <2> QED
    BY <1>3, <2>4, UnitOfThree, SMT
<1> QED
  BY <1>1, <1>2, <1>3, SMT


\* The bytes of u say that they are c's.
IsUnit(u, c) ==
    \/ c < 128 /\ Len(u) = 1 /\ u[1] = c
    \/ Len(u) = 2 /\ TwoBytes(c, u[1], u[2])
    \/ Len(u) = 3 /\ ThreeBytes(c, u[1], u[2], u[3])

LEMMA CharRange == \A c \in Chars : c \in Nat /\ c < 16 * 4096
BY DEF Chars

LEMMA UnitRead ==
  ASSUME NEW c \in Chars
  PROVE  Utf8Unit(c) \in Strings /\ IsUnit(Utf8Unit(c), c)
<1>1. c \in Nat /\ c < 16 * 4096
  BY CharRange
<1>2. CASE c < 128
  <2>1. Utf8Unit(c) = <<c>>
    BY <1>2, SMT DEF Utf8Unit
  <2>2. <<c>> \in Strings /\ Len(<<c>>) = 1
    BY <1>1 DEF Strings
  <2> QED
    BY <1>2, <2>1, <2>2 DEF IsUnit
<1>3. CASE ~(c < 128) /\ c < 2048
  <2>1. PICK p, q : Utf8Unit(c) = <<p, q>> /\ TwoBytes(c, p, q)
    BY <1>1, <1>3, UnitIsUtf8
  <2>2. <<p, q>> \in Strings /\ Len(<<p, q>>) = 2
    BY <2>1 DEF TwoBytes, Strings
  <2> QED
    BY <2>1, <2>2 DEF IsUnit
<1>4. CASE ~(c < 128) /\ ~(c < 2048)
  <2>1. PICK p, q, r : Utf8Unit(c) = <<p, q, r>> /\ ThreeBytes(c, p, q, r)
    BY <1>1, <1>4, UnitIsUtf8
  <2>2. <<p, q, r>> \in Strings /\ Len(<<p, q, r>>) = 3
    BY <2>1 DEF ThreeBytes, Strings
  <2> QED
    BY <2>1, <2>2 DEF IsUnit
<1> QED
  BY <1>2, <1>3, <1>4

LEMMA UnitBytes ==
  ASSUME NEW c \in Chars, NEW u, IsUnit(u, c)
  PROVE  /\ Len(u) \in 1 .. 3
         /\ u[1] \in (0 .. 127) \cup (194 .. 239)
         /\ \A j \in 2 .. Len(u) : u[j] \in 128 .. 191
<1>1. CASE c < 128 /\ Len(u) = 1 /\ u[1] = c
  <2>1. c \in Nat
    BY CharRange
  <2>2. u[1] \in 0 .. 127
    BY <1>1, <2>1
  <2> QED
    BY <1>1, <2>2
<1>2. CASE Len(u) = 2 /\ TwoBytes(c, u[1], u[2])
  <2>1. u[1] \in 194 .. 223 /\ u[2] \in 128 .. 191
    BY <1>2 DEF TwoBytes
  <2> QED
    BY <1>2, <2>1
<1>3. CASE Len(u) = 3 /\ ThreeBytes(c, u[1], u[2], u[3])
  <2>1. u[1] \in 224 .. 239 /\ u[2] \in 128 .. 191 /\ u[3] \in 128 .. 191
    BY <1>3 DEF ThreeBytes
  <2> QED
    BY <1>3, <2>1
<1> QED
  BY <1>1, <1>2, <1>3 DEF IsUnit

\* off[k - 1] is where the bytes of q's k-th code unit start in s.
UnitsOf(q) == [k \in 1 .. Len(q) |-> Utf8Unit(q[k])]

IsEncoding(s, q, off) == LaidOut(s, UnitsOf(q), Len(q), off)

LEMMA Utf8Blocks ==
  ASSUME NEW q \in Seq(Chars)
  PROVE  \E off : IsEncoding(Utf8Encode(q), q, off)
<1>1. Len(q) \in Nat /\ DOMAIN q = 1 .. Len(q) /\ \A k \in 1 .. Len(q) : q[k] \in Chars
  BY LenProperties, ElementOfSeq
<1>2. UnitsOf(q) \in [1 .. Len(q) -> Strings]
  BY <1>1, UnitRead DEF UnitsOf
<1>3. Utf8Encode(q) = FlattenSeq(UnitsOf(q))
  BY <1>1 DEF Utf8Encode, UnitsOf
<1> QED
  BY <1>1, <1>2, <1>3, Blocks DEF IsEncoding

\* No byte is above 239.
LEMMA EncodingBytes ==
  ASSUME NEW q \in Seq(Chars), NEW s, NEW off, IsEncoding(s, q, off), NEW k \in 1 .. Len(s)
  PROVE  s[k] \in 0 .. 239
<1>1. Len(q) \in Nat /\ \A i \in 1 .. Len(q) : q[i] \in Chars
  BY LenProperties, ElementOfSeq
<1>2. LaidOut(s, UnitsOf(q), Len(q), off)
  BY DEF IsEncoding
<1>3. PICK i \in 1 .. Len(q) : \E j \in 1 .. Len(UnitsOf(q)[i]) : k = off[i - 1] + j
  BY <1>2, BlockOf
<1>4. PICK u : u = Utf8Unit(q[i])
  OBVIOUS
<1>5. UnitsOf(q)[i] = u
  BY <1>4 DEF UnitsOf
<1>6. PICK j \in 1 .. Len(u) : k = off[i - 1] + j
  BY <1>3, <1>5
<1>7. s[k] = u[j]
  BY <1>2, <1>5, <1>6 DEF LaidOut
<1>8. q[i] \in Chars
  BY <1>1
<1>9. IsUnit(u, q[i])
  BY <1>4, <1>8, UnitRead
<1>10. u[1] \in 0 .. 239 /\ \A h \in 2 .. Len(u) : u[h] \in 0 .. 239
  <2>1. u[1] \in (0 .. 127) \cup (194 .. 239) /\ \A h \in 2 .. Len(u) : u[h] \in 128 .. 191
    BY <1>8, <1>9, UnitBytes
  <2> QED
    BY <2>1
<1>11. j = 1 \/ j \in 2 .. Len(u)
  OBVIOUS
<1> QED
  BY <1>7, <1>10, <1>11

\* The unit u lies in s behind its first at bytes, and only its first byte is no tail.
UnitAt(s, at, m, u) ==
    /\ at \in Nat /\ m \in 1 .. 3 /\ m = Len(u) /\ at + m <= Len(s)
    /\ \A j \in 1 .. m : s[at + j] = u[j]
    /\ s[at + 1] \notin 128 .. 191
    /\ \A j \in 2 .. m : s[at + j] \in 128 .. 191

LEMMA EncodedUnit ==
  ASSUME NEW q \in Seq(Chars), NEW s, NEW off, IsEncoding(s, q, off), NEW k \in 1 .. Len(q)
  PROVE  /\ off[0] = 0 /\ off[Len(q)] = Len(s)
         /\ \E m \in 1 .. 3 : off[k] = off[k - 1] + m /\ UnitAt(s, off[k - 1], m, Utf8Unit(q[k]))
         /\ IsUnit(Utf8Unit(q[k]), q[k])
<1>1. Len(q) \in Nat /\ q[k] \in Chars
  BY LenProperties, ElementOfSeq
<1>2. PICK u : u = Utf8Unit(q[k])
  OBVIOUS
<1>3. IsUnit(u, q[k]) /\ u \in Strings
  BY <1>1, <1>2, UnitRead
<1>4. /\ Len(u) \in 1 .. 3
      /\ u[1] \in (0 .. 127) \cup (194 .. 239)
      /\ \A j \in 2 .. Len(u) : u[j] \in 128 .. 191
  BY <1>1, <1>3, UnitBytes
<1>5. PICK m \in 1 .. 3 : m = Len(u)
  BY <1>4
<1>6. UnitsOf(q)[k] = u
  BY <1>2 DEF UnitsOf
<1>7. k - 1 \in 0 .. Len(q) /\ off \in [0 .. Len(q) -> Nat] /\ s \in Strings
  BY <1>1 DEF IsEncoding, LaidOut
<1>8. off[k - 1] \in Nat /\ Len(s) \in Nat
  BY <1>7, StringFacts
<1>9. off[k] = off[k - 1] + m
  BY <1>5, <1>6 DEF IsEncoding, LaidOut
<1>10. \A j \in 1 .. m : off[k - 1] + j \in 1 .. Len(s) /\ s[off[k - 1] + j] = u[j]
  BY <1>5, <1>6 DEF IsEncoding, LaidOut
<1>11. off[k - 1] + m <= Len(s)
  <2>1. off[k - 1] + m \in 1 .. Len(s)
    BY <1>10
  <2> QED
    BY <2>1
<1>12. s[off[k - 1] + 1] \notin 128 .. 191
  <2>1. u[1] \notin 128 .. 191
    <3>1. u[1] \in (0 .. 127) \cup (194 .. 239)
      BY <1>4, Zenon
    <3>2. \A x \in (0 .. 127) \cup (194 .. 239) : x \notin 128 .. 191
      OBVIOUS
    <3> QED
      BY <3>1, <3>2
  <2>2. s[off[k - 1] + 1] = u[1]
    BY <1>10
  <2> QED
    BY <2>1, <2>2
<1>13. \A j \in 2 .. m : s[off[k - 1] + j] \in 128 .. 191
  <2>1. \A j \in 2 .. m : j \in 1 .. m /\ u[j] \in 128 .. 191
    BY <1>4, <1>5
  <2> QED
    BY <1>10, <2>1
<1>14. UnitAt(s, off[k - 1], m, u)
  BY <1>5, <1>8, <1>10, <1>11, <1>12, <1>13 DEF UnitAt
<1>15. off[0] = 0 /\ off[Len(q)] = Len(s)
  BY DEF IsEncoding, LaidOut
<1> QED
  BY <1>2, <1>3, <1>9, <1>14, <1>15

\* The bytes that are no tails are the first ones of the units.
LEMMA LeadsAreFirst ==
  ASSUME NEW q \in Seq(Chars), NEW s, NEW off, IsEncoding(s, q, off)
  PROVE  /\ DOMAIN Leads(s) = 1 .. Len(q)
         /\ \A k \in 1 .. Len(q) : Leads(s)[k] = off[k - 1] + 1
<1>1. /\ Len(q) \in Nat /\ s \in Strings
      /\ off \in [0 .. Len(q) -> Nat] /\ off[0] = 0 /\ off[Len(q)] = Len(s)
  BY DEF IsEncoding, LaidOut
<1>2. PICK m \in Nat : m = Len(q)
  BY <1>1
<1>3. PICK n \in Nat : n = Len(s) /\ DOMAIN s = 1 .. n
  BY <1>1, StringFacts
<1> DEFINE pos == [k \in DOMAIN s |-> k]
           D == {k \in DOMAIN s : IsTail(s, k)}
<1>4. pos \in [1 .. n -> 1 .. n] /\ \A i \in 1 .. n : pos[i] = i
  BY <1>3
<1>5. \A i \in 1 .. n : i \in D <=> s[i] \in 128 .. 191
  BY <1>3 DEF IsTail
<1>6. Leads(s) = Without(pos, D)
  BY DEF Leads
<1> HIDE DEF pos, D
<1>7. pos \in Seq(1 .. n) /\ Len(pos) = n
  BY <1>3, <1>4, IsSequence
<1>8. PICK f : KeepsIn(f, pos, D, 1 .. n)
  BY <1>7, WithoutSteps
<1>9. f[0] = <<>> /\ Leads(s) = f[n] /\ f \in [0 .. n -> Seq(1 .. n)]
  BY <1>6, <1>7, <1>8 DEF KeepsIn
<1>10. ASSUME NEW i \in 1 .. n
       PROVE  f[i] = IF s[i] \in 128 .. 191 THEN f[i - 1] ELSE Append(f[i - 1], i)
  <2>1. f[i] = IF pos[i] \in D THEN f[i - 1] ELSE Append(f[i - 1], pos[i])
    BY <1>7, <1>8 DEF KeepsIn
  <2> QED
    BY <1>4, <1>5, <2>1, Zenon
<1> DEFINE T == {k \in 0 .. m : /\ off[k] \in 0 .. n /\ Len(f[off[k]]) = k
                                /\ \A j \in 1 .. k : f[off[k]][j] = off[j - 1] + 1}
<1>11. 0 \in T
  BY <1>1, <1>2, <1>3, <1>9, EmptySeq
<1>12. ASSUME NEW k \in 0 .. m - 1, k \in T PROVE k + 1 \in T
  <2>1. k + 1 \in 1 .. m /\ k \in 0 .. m /\ (k + 1) - 1 = k /\ k + 1 \in 0 .. m
    BY <1>2
  <2>2. /\ off[k] \in 0 .. n /\ Len(f[off[k]]) = k
        /\ \A j \in 1 .. k : f[off[k]][j] = off[j - 1] + 1
    BY <1>12
  <2> HIDE DEF T
  <2>3. PICK a \in 0 .. n : a = off[k]
    BY <2>2
  <2>4. PICK l \in 1 .. 3 : off[k + 1] = a + l /\ UnitAt(s, a, l, Utf8Unit(q[k + 1]))
    BY <1>2, <2>1, <2>3, EncodedUnit
  <2>15. a + l <= n
    BY <1>3, <2>4 DEF UnitAt
  <2>16. l \in 1 .. 3
    BY <2>4
  <2>17. n \in Nat
    BY <1>3
  <2>18. a \in Nat
    BY <2>3, <2>17
  <2>5. /\ s[a + 1] \notin 128 .. 191
        /\ \A j \in 2 .. l : s[a + j] \in 128 .. 191
    BY <1>3, <2>4 DEF UnitAt
  <2>14. a \in Nat /\ n \in Nat /\ l \in 1 .. 3 /\ a + l <= n
    BY <2>15, <2>16, <2>17, <2>18
  <2> DEFINE g == Append(f[a], a + 1)
  <2>6. f[a + 1] = g
    <3>1. a + 1 \in 1 .. n /\ (a + 1) - 1 = a
      BY <2>14
    <3> QED
      BY <1>10, <2>5, <3>1
  <2> HIDE DEF g
  <2>7. l >= 2 => f[a + 2] = g
    <3>1. SUFFICES ASSUME l >= 2 PROVE f[a + 2] = g
      OBVIOUS
    <3>2. a + 2 \in 1 .. n /\ (a + 2) - 1 = a + 1 /\ 2 \in 2 .. l
      BY <2>14, <3>1
    <3>3. s[a + 2] \in 128 .. 191
      BY <2>5, <3>2
    <3> QED
      BY <1>10, <2>6, <3>2, <3>3
  <2>8. l = 3 => f[a + 3] = g
    <3>1. SUFFICES ASSUME l = 3 PROVE f[a + 3] = g
      OBVIOUS
    <3>2. a + 3 \in 1 .. n /\ (a + 3) - 1 = a + 2 /\ 3 \in 2 .. l
      BY <2>14, <3>1
    <3>3. s[a + 3] \in 128 .. 191
      BY <2>5, <3>2
    <3> QED
      BY <1>10, <2>7, <3>1, <3>2, <3>3
  <2>9. f[a + l] = g
    BY <2>4, <2>6, <2>7, <2>8
  <2>10. f[a] \in Seq(1 .. n) /\ a + 1 \in 1 .. n
    <3>1. a + 1 \in 1 .. n
      BY <2>14
    <3>2. f[a] \in Seq(1 .. n)
      BY <1>9, <2>3
    <3> QED
      BY <3>1, <3>2
  <2>11. Len(g) = k + 1 /\ (\A j \in 1 .. k : g[j] = f[a][j]) /\ g[k + 1] = a + 1
    BY <2>2, <2>3, <2>10, AppendProperties DEF g
  <2>12. ASSUME NEW j \in 1 .. k + 1 PROVE g[j] = off[j - 1] + 1
    <3>1. j \in 1 .. k \/ j = k + 1
      BY <2>1
    <3> QED
      BY <2>1, <2>2, <2>3, <2>11, <3>1
  <2>13. off[k + 1] \in 0 .. n /\ off[k + 1] = a + l
    BY <2>4, <2>14
  <2> QED
    BY <2>1, <2>9, <2>11, <2>12, <2>13 DEF T
<1> HIDE DEF T
<1>13. m \in T
  BY <1>2, <1>11, <1>12, Induction, Zenon
<1>14. Len(f[n]) = m /\ \A j \in 1 .. m : f[n][j] = off[j - 1] + 1
  BY <1>1, <1>2, <1>3, <1>13 DEF T
<1>15. f[n] \in Seq(1 .. n)
  BY <1>3, <1>9
<1>16. DOMAIN f[n] = 1 .. m
  BY <1>14, <1>15, LenProperties
<1> QED
  BY <1>2, <1>9, <1>14, <1>16

\* How many tails follow the byte at k says which of its forms CodePoint reads.
Follow(bytes, k) == {n \in 1 .. 3 : \A i \in 1 .. n : IsTail(bytes, k + i)}

LEMMA CodePointForms ==
  ASSUME NEW s, NEW k
  PROVE  /\ s[k] < 128 /\ Follow(s, k) = {} => CodePoint(s, k) = s[k]
         /\ s[k] \in 194 .. 223 /\ Follow(s, k) = {1} =>
              CodePoint(s, k) = (s[k] - 192) * 64 + s[k + 1] - 128
         /\ s[k] \in 224 .. 239 /\ Follow(s, k) = {1, 2} =>
              CodePoint(s, k) = (s[k] - 224) * 4096 + (s[k + 1] - 128) * 64 + s[k + 2] - 128
<1>1. {1} # {} /\ {1, 2} # {} /\ {1} # {1, 2}
  OBVIOUS
<1> QED
  BY <1>1 DEF CodePoint, Follow

\* A unit is read as the code unit it is of, if what follows it is no tail.
LEMMA UnitPoint ==
  ASSUME NEW s \in Strings, NEW a, NEW m, NEW u, NEW c \in Chars,
         UnitAt(s, a, m, u), IsUnit(u, c), ~IsTail(s, a + 1 + m)
  PROVE  CodePoint(s, a + 1) = c
<1>1. Len(s) \in Nat /\ DOMAIN s = 1 .. Len(s)
  BY StringFacts
<1>2. /\ a \in Nat /\ m \in 1 .. 3 /\ a + m <= Len(s)
      /\ \A j \in 2 .. m : s[a + j] \in 128 .. 191
  BY DEF UnitAt
<1>3. ASSUME NEW i \in 1 .. 3 PROVE IsTail(s, a + 1 + i) \/ i >= m
  <2>1. SUFFICES ASSUME i < m PROVE IsTail(s, a + 1 + i)
    BY <1>2
  <2>2. i + 1 \in 2 .. m /\ a + (i + 1) = a + 1 + i /\ a + 1 + i \in 1 .. Len(s)
    BY <1>1, <1>2, <2>1
  <2>3. s[a + 1 + i] \in 128 .. 191
    BY <1>2, <2>2
  <2> QED
    BY <1>1, <2>2, <2>3 DEF IsTail
<1>4. ASSUME NEW i \in 1 .. 3 PROVE i \in Follow(s, a + 1) <=> i < m
  <2>1. ASSUME i < m, NEW h \in 1 .. i PROVE IsTail(s, a + 1 + h)
    <3>1. h \in 1 .. 3 /\ ~(h >= m)
      BY <1>2, <2>1
    <3> QED
      BY <1>3, <3>1
  <2>2. ASSUME i >= m PROVE \E h \in 1 .. i : ~IsTail(s, a + 1 + h)
    <3>1. m \in 1 .. i
      BY <1>2, <2>2
    <3> QED
      BY <3>1
  <2>3. i < m \/ i >= m
    BY <1>2
  <2>4. i \in Follow(s, a + 1) <=> \A h \in 1 .. i : IsTail(s, a + 1 + h)
    BY DEF Follow
  <2> QED
    BY <1>2, <2>1, <2>2, <2>3, <2>4
<1>5. Follow(s, a + 1) \subseteq 1 .. 3
  BY DEF Follow
<1>6. u[1] = s[a + 1] /\ (m >= 2 => u[2] = s[a + 1 + 1]) /\ (m = 3 => u[3] = s[a + 1 + 2])
  <2>1. a + 1 + 1 = a + 2 /\ a + 1 + 2 = a + 3
    BY <1>2
  <2>2. \A j \in 1 .. m : s[a + j] = u[j]
    BY DEF UnitAt
  <2>3. 1 \in 1 .. m /\ (m >= 2 => 2 \in 1 .. m) /\ (m = 3 => 3 \in 1 .. m)
    BY <1>2
  <2> QED
    BY <2>1, <2>2, <2>3
<1>7. CASE c < 128 /\ Len(u) = 1 /\ u[1] = c
  <2>1. m = 1
    BY <1>7 DEF UnitAt
  <2>2. Follow(s, a + 1) = {}
    BY <1>4, <1>5, <2>1
  <2>3. s[a + 1] = c /\ c < 128
    BY <1>6, <1>7
  <2> QED
    BY <2>2, <2>3, CodePointForms
<1>8. CASE Len(u) = 2 /\ TwoBytes(c, u[1], u[2])
  <2>1. m = 2
    BY <1>8 DEF UnitAt
  <2>2. Follow(s, a + 1) = {1}
    BY <1>4, <1>5, <2>1
  <2>3. TwoBytes(c, s[a + 1], s[a + 1 + 1])
    BY <1>6, <1>8, <2>1
  <2>4. s[a + 1] \in 194 .. 223 /\ (s[a + 1] - 192) * 64 + s[a + 1 + 1] - 128 = c
    BY <2>3 DEF TwoBytes
  <2> QED
    BY <2>2, <2>4, CodePointForms
<1>9. CASE Len(u) = 3 /\ ThreeBytes(c, u[1], u[2], u[3])
  <2>1. m = 3
    BY <1>9 DEF UnitAt
  <2>2. Follow(s, a + 1) = {1, 2}
    BY <1>4, <1>5, <2>1
  <2>3. ThreeBytes(c, s[a + 1], s[a + 1 + 1], s[a + 1 + 2])
    BY <1>6, <1>9, <2>1
  <2>4. /\ s[a + 1] \in 224 .. 239
        /\ (s[a + 1] - 224) * 4096 + (s[a + 1 + 1] - 128) * 64 + s[a + 1 + 2] - 128 = c
    BY <2>3 DEF ThreeBytes
  <2> QED
    BY <2>2, <2>4, CodePointForms
<1> QED
  BY <1>7, <1>8, <1>9 DEF IsUnit

\* _utf8_encode, for every query: PostgreSQL reads its bytes as the code units
\* that were encoded.
THEOREM Utf8IsRead ==
  ASSUME NEW q \in Seq(Chars)
  PROVE  Utf8Text(Utf8Encode(q)) = q
<1> DEFINE s == Utf8Encode(q)
           n == Len(q)
<1>1. PICK off : IsEncoding(s, q, off)
  BY Utf8Blocks
<1>2. /\ n \in Nat /\ DOMAIN q = 1 .. n /\ q = [k \in 1 .. n |-> q[k]]
      /\ \A k \in 1 .. n : q[k] \in Chars
  BY LenProperties, ElementOfSeq
<1>3. s \in Strings /\ Len(s) \in Nat /\ DOMAIN s = 1 .. Len(s)
  BY <1>1, StringFacts DEF IsEncoding, LaidOut
<1> HIDE DEF s
<1>4. DOMAIN Leads(s) = 1 .. n /\ \A k \in 1 .. n : Leads(s)[k] = off[k - 1] + 1
  BY <1>1, LeadsAreFirst
<1>5. ASSUME NEW k \in 1 .. n PROVE CodePoint(s, off[k - 1] + 1) = q[k]
  <2>1. PICK m \in 1 .. 3 : off[k] = off[k - 1] + m /\ UnitAt(s, off[k - 1], m, Utf8Unit(q[k]))
    BY <1>1, EncodedUnit
  <2>2. IsUnit(Utf8Unit(q[k]), q[k]) /\ off[n] = Len(s)
    BY <1>1, EncodedUnit
  <2>3. off[k - 1] + 1 + m = off[k] + 1 /\ off[k] \in Nat
    <3>1. off[k - 1] \in Nat
      BY <2>1 DEF UnitAt
    <3> QED
      BY <2>1, <3>1
  <2>4. ~IsTail(s, off[k] + 1)
    <3>1. CASE k = n
      BY <1>3, <2>2, <2>3, <3>1 DEF IsTail
    <3>2. CASE k # n
      <4>1. k + 1 \in 1 .. n /\ (k + 1) - 1 = k
        BY <1>2, <3>2
      <4>2. \E l \in 1 .. 3 : UnitAt(s, off[k], l, Utf8Unit(q[k + 1]))
        BY <1>1, <4>1, EncodedUnit
      <4> QED
        BY <4>2 DEF UnitAt, IsTail
    <3> QED
      BY <3>1, <3>2
  <2> QED
    BY <1>2, <1>3, <2>1, <2>2, <2>3, <2>4, UnitPoint
<1>6. \A k \in 1 .. n : CodePoint(s, Leads(s)[k]) = q[k]
  BY <1>4, <1>5
<1> QED
  BY <1>2, <1>4, <1>6 DEF Utf8Text, s

-----------------------------------------------------------------------------
(***************************************************************************)
(* Base64, group by group.                                                 *)
(***************************************************************************)

\* encodeQuery and HandleQuery: the four digits of any three bytes are digits,
\* and decoding them gives the three bytes back.
THEOREM GroupSurvives ==
  ASSUME NEW a \in 0 .. 255, NEW b \in 0 .. 255, NEW c \in 0 .. 255
  PROVE  LET e == Sextets(a, b, c)
         IN  /\ \A k \in 1 .. 4 : e[k] \in 0 .. 63
             /\ OfSextets(e[1], e[2], e[3], e[4]) = <<a, b, c>>
<1> DEFINE e1 == a \div 4
           e2 == ((a % 4) * 16) + (b \div 16)
           e3 == ((b % 16) * 4) + (c \div 64)
           e4 == c % 64
<1>1. e1 \in 0 .. 63 /\ e2 \in 0 .. 63 /\ e3 \in 0 .. 63 /\ e4 \in 0 .. 63
  OBVIOUS
<1>2. (e1 * 4) + (e2 \div 16) = a
  OBVIOUS
<1>3. ((e2 % 16) * 16) + (e3 \div 4) = b
  OBVIOUS
<1>4. ((e3 % 4) * 64) + e4 = c
  OBVIOUS
<1>5. Sextets(a, b, c) = <<e1, e2, e3, e4>>
  BY DEF Sextets
<1> HIDE DEF e1, e2, e3, e4
<1>6. OfSextets(e1, e2, e3, e4) = <<a, b, c>>
  BY <1>2, <1>3, <1>4 DEF OfSextets
<1> QED
  BY <1>1, <1>5, <1>6

\* The digits never include "+" at the start of a group, so that no export is
\* taken for a comment: UTF-8 has no byte above 239 in the editor's text.
THEOREM NoLeadingDash ==
  ASSUME NEW a \in 0 .. 239, NEW b \in 0 .. 255, NEW c \in 0 .. 255
  PROVE  Sextets(a, b, c)[1] < 62
BY DEF Sextets

\* _keyStr has a character of its own for each number.
LEMMA KeyStrRanges ==
  ASSUME NEW e \in 0 .. 64
  PROVE  /\ e \in 0 .. 25 => KeyStr(e) = e + 65
         /\ e \in 26 .. 51 => KeyStr(e) = e + 71
         /\ e \in 52 .. 61 => KeyStr(e) = e - 4
         /\ e = 62 => KeyStr(e) = 43
         /\ e = 63 => KeyStr(e) = 47
         /\ e = 64 => KeyStr(e) = 61
BY DEF KeyStr

LEMMA KeyStrOnce ==
  ASSUME NEW d \in 0 .. 64, NEW e \in 0 .. 64, KeyStr(d) = KeyStr(e)
  PROVE  d = e
<1>1. \A x \in 0 .. 64 : x \in 0 .. 25 \/ x \in 26 .. 51 \/ x \in 52 .. 61 \/ x = 62 \/ x = 63 \/ x = 64
  OBVIOUS
<1> QED
  BY <1>1, KeyStrRanges

LEMMA KeyStrChars ==
  ASSUME NEW e \in 0 .. 64
  PROVE  /\ KeyStr(e) \in (65 .. 90) \cup (97 .. 122) \cup (48 .. 57) \cup {43, 47, 61}
         /\ KeyStr(e) = 43 => e = 62
<1>1. e \in 0 .. 25 \/ e \in 26 .. 51 \/ e \in 52 .. 61 \/ e = 62 \/ e = 63 \/ e = 64
  OBVIOUS
<1> QED
  BY <1>1, KeyStrRanges

Bytes == 0 .. 255

IsGroup(g) == g \in Strings /\ Len(g) \in 1 .. 3 /\ \A k \in 1 .. Len(g) : g[k] \in Bytes

\* The numbers of a group's digits.
DigitsOf(g) ==
    LET chr == [k \in 1 .. 3 |-> IF k <= Len(g) THEN g[k] ELSE 0]
        enc == Sextets(chr[1], chr[2], chr[3])
    IN [k \in 1 .. 4 |-> IF k <= Len(g) + 1 THEN enc[k] ELSE 64]

LEMMA GroupDigits ==
  ASSUME NEW g, IsGroup(g)
  PROVE  /\ DigitsOf(g) \in [1 .. 4 -> 0 .. 64]
         /\ \A k \in 1 .. 4 : DigitsOf(g)[k] = 64 <=> k > Len(g) + 1
         /\ g[1] < 240 => DigitsOf(g)[1] < 62
         /\ LET e == DigitsOf(g)
            IN \A k \in 1 .. Len(g) : OfSextets(e[1], e[2], e[3] % 64, e[4] % 64)[k] = g[k]
<1>1. PICK n \in 1 .. 3 : n = Len(g)
  BY DEF IsGroup
<1> DEFINE chr == [k \in 1 .. 3 |-> IF k <= n THEN g[k] ELSE 0]
           enc == Sextets(chr[1], chr[2], chr[3])
<1>2. \A k \in 1 .. 3 : chr[k] \in Bytes
  <2>1. \A k \in 1 .. n : g[k] \in Bytes
    BY <1>1 DEF IsGroup
  <2>2. 0 \in Bytes
    BY DEF Bytes
  <2>3. \A k \in 1 .. 3 : k <= n => k \in 1 .. n
    BY <1>1
  <2> QED
    BY <2>1, <2>2, <2>3
<1>3. /\ \A k \in 1 .. 4 : enc[k] \in 0 .. 63
      /\ OfSextets(enc[1], enc[2], enc[3], enc[4]) = <<chr[1], chr[2], chr[3]>>
  <2>1. chr[1] \in 0 .. 255 /\ chr[2] \in 0 .. 255 /\ chr[3] \in 0 .. 255
    BY <1>2 DEF Bytes
  <2> HIDE DEF chr
  <2> QED
    BY <2>1, GroupSurvives
<1>4. DigitsOf(g) = [k \in 1 .. 4 |-> IF k <= n + 1 THEN enc[k] ELSE 64]
  BY <1>1 DEF DigitsOf
<1>5. enc[3] = ((chr[2] % 16) * 4) + (chr[3] \div 64) /\ enc[4] = chr[3] % 64
  BY DEF Sextets
<1>6. g[1] < 240 => enc[1] < 62
  <2>1. 1 <= n /\ chr[1] = g[1]
    BY <1>1
  <2>2. chr[1] \in 0 .. 255 /\ chr[2] \in 0 .. 255 /\ chr[3] \in 0 .. 255
    BY <1>2 DEF Bytes
  <2> HIDE DEF chr
  <2>3. ASSUME g[1] < 240
        PROVE  enc[1] < 62
    <3>1. chr[1] \in 0 .. 239
      BY <2>1, <2>2, <2>3
    <3> QED
      BY <2>2, <3>1, NoLeadingDash
  <2> QED
    BY <2>3
<1>7. n < 2 => chr[2] = 0
  OBVIOUS
<1>8. n < 3 => chr[3] = 0
  OBVIOUS
<1>9. \A k \in 1 .. n : <<chr[1], chr[2], chr[3]>>[k] = g[k]
  BY <1>1
<1> HIDE DEF chr, enc
<1> DEFINE e == [k \in 1 .. 4 |-> IF k <= n + 1 THEN enc[k] ELSE 64]
<1>10. e[1] = enc[1] /\ e[2] = enc[2] /\ e[3] % 64 = enc[3] /\ e[4] % 64 = enc[4]
  <2>1. e[1] = enc[1] /\ e[2] = enc[2]
    BY <1>1
  <2>2. CASE n = 1
    <3>1. chr[2] = 0 /\ chr[3] = 0 /\ e[3] = 64 /\ e[4] = 64
      BY <1>1, <1>7, <1>8, <2>2
    <3>2. enc[3] = 0 /\ enc[4] = 0
      BY <1>5, <3>1
    <3> QED
      BY <2>1, <3>1, <3>2
  <2>3. CASE n = 2
    <3>1. chr[3] = 0 /\ e[3] = enc[3] /\ e[4] = 64
      BY <1>1, <1>8, <2>3
    <3>2. enc[4] = 0 /\ enc[3] \in 0 .. 63
      BY <1>3, <1>5, <3>1
    <3> QED
      BY <2>1, <3>1, <3>2
  <2>4. CASE n = 3
    <3>1. e[3] = enc[3] /\ e[4] = enc[4]
      BY <1>1, <2>4
    <3>2. enc[4] \in 0 .. 63 /\ enc[3] \in 0 .. 63
      BY <1>3
    <3> QED
      BY <2>1, <3>1, <3>2
  <2> QED
    BY <1>1, <2>2, <2>3, <2>4
<1>11. e \in [1 .. 4 -> 0 .. 64] /\ \A k \in 1 .. 4 : e[k] = 64 <=> k > n + 1
  <2>1. \A k \in 1 .. 4 : enc[k] \in 0 .. 64 /\ enc[k] # 64
    BY <1>3
  <2>2. \A k \in 1 .. 4 : e[k] = IF k <= n + 1 THEN enc[k] ELSE 64
    OBVIOUS
  <2>3. \A k \in 1 .. 4 : k <= n + 1 <=> ~(k > n + 1)
    BY <1>1
  <2>4. 64 \in 0 .. 64
    OBVIOUS
  <2> QED
    BY <2>1, <2>2, <2>3, <2>4
<1>12. e[1] = enc[1]
  BY <1>10
<1> HIDE DEF e
<1>13. OfSextets(e[1], e[2], e[3] % 64, e[4] % 64) = <<chr[1], chr[2], chr[3]>>
  BY <1>3, <1>10
<1>14. DigitsOf(g) = e
  BY <1>4 DEF e
<1>15. \A k \in 1 .. Len(g) : OfSextets(e[1], e[2], e[3] % 64, e[4] % 64)[k] = g[k]
  BY <1>1, <1>9, <1>13
<1>16. \A k \in 1 .. 4 : e[k] = 64 <=> k > Len(g) + 1
  BY <1>1, <1>11
<1>17. g[1] < 240 => e[1] < 62
  BY <1>6, <1>12
<1> QED
  BY <1>11, <1>14, <1>15, <1>16, <1>17, Zenon

LEMMA EncodedGroup ==
  ASSUME NEW g, IsGroup(g)
  PROVE  /\ EncodeGroup(g) \in Strings /\ Len(EncodeGroup(g)) = 4
         /\ \A k \in 1 .. 4 : EncodeGroup(g)[k] = KeyStr(DigitsOf(g)[k])
<1>1. DigitsOf(g) \in [1 .. 4 -> 0 .. 64]
  BY GroupDigits
<1>2. EncodeGroup(g) = [k \in 1 .. 4 |-> KeyStr(DigitsOf(g)[k])]
  BY DEF EncodeGroup, DigitsOf
<1>3. \A k \in 1 .. 4 : KeyStr(DigitsOf(g)[k]) \in Int
  BY <1>1, KeyStrChars
<1>4. EncodeGroup(g) \in [1 .. 4 -> Int]
  BY <1>2, <1>3
<1> QED
  BY <1>2, <1>4, IsSequence DEF Strings

LEMMA GroupDecoded ==
  ASSUME NEW g, IsGroup(g)
  PROVE  DecodeGroup(EncodeGroup(g)) = g
<1> DEFINE d == EncodeGroup(g)
           x == DigitsOf(g)
           e == [k \in 1 .. 4 |-> CHOOSE e \in 0 .. 64 : KeyStr(e) = d[k]]
           padding == Cardinality({k \in 1 .. 4 : e[k] = 64})
           t == OfSextets(e[1], e[2], e[3] % 64, e[4] % 64)
<1>1. /\ x \in [1 .. 4 -> 0 .. 64]
      /\ \A k \in 1 .. 4 : x[k] = 64 <=> k > Len(g) + 1
      /\ \A k \in 1 .. Len(g) : OfSextets(x[1], x[2], x[3] % 64, x[4] % 64)[k] = g[k]
  BY GroupDigits
<1>2. PICK n \in 1 .. 3 : n = Len(g) /\ g \in Strings /\ \A k \in 1 .. n : g[k] \in Bytes
  BY DEF IsGroup
<1>3. DecodeGroup(d) = SubSeq(t, 1, 3 - padding)
  BY DEF DecodeGroup
<1>4. \A k \in 1 .. 4 : d[k] = KeyStr(x[k])
  BY EncodedGroup
<1> HIDE DEF d, x
<1>5. ASSUME NEW k \in 1 .. 4 PROVE e[k] = x[k]
  <2>1. x[k] \in 0 .. 64 /\ KeyStr(x[k]) = d[k]
    BY <1>1, <1>4
  <2>2. \A y \in 0 .. 64 : KeyStr(y) = d[k] => y = x[k]
    BY <2>1, KeyStrOnce
  <2> QED
    BY <2>1, <2>2
<1>6. {k \in 1 .. 4 : e[k] = 64} = n + 2 .. 4
  <2>1. {k \in 1 .. 4 : e[k] = 64} = {k \in 1 .. 4 : k > n + 1}
    <3>1. \A k \in 1 .. 4 : e[k] = 64 <=> k > n + 1
      BY <1>1, <1>2, <1>5
    <3> HIDE DEF e
    <3> QED
      BY <3>1
  <2>2. {k \in 1 .. 4 : k > n + 1} = n + 2 .. 4
    BY <1>2
  <2> QED
    BY <2>1, <2>2
<1>7. padding = 3 - n
  <2>1. Cardinality(n + 2 .. 4) = 3 - n
    <3>1. n \in 1 .. 3
      BY <1>2
    <3>2. Cardinality(n + 2 .. 4) = IF n + 2 > 4 THEN 0 ELSE 4 - (n + 2) + 1
      BY <3>1, FS_Interval
    <3> QED
      BY <3>1, <3>2
  <2> QED
    BY <1>6, <2>1
<1>8. \A k \in 1 .. n : t[k] = g[k]
  <2>1. e[1] = x[1] /\ e[2] = x[2] /\ e[3] = x[3] /\ e[4] = x[4]
    BY <1>5
  <2>2. t = OfSextets(x[1], x[2], x[3] % 64, x[4] % 64)
    BY <2>1, Zenon
  <2> HIDE DEF t
  <2> QED
    BY <1>1, <1>2, <2>2
<1> HIDE DEF e, padding, t
<1>9. 3 - padding = n
  BY <1>2, <1>7
<1>10. \A k \in 1 .. n : t[k] \in Int
  <2>1. \A b \in Bytes : b \in Int
    BY DEF Bytes
  <2> QED
    BY <1>2, <1>8, <2>1
<1>11. /\ SubSeq(t, 1, n) \in Seq(Int) /\ Len(SubSeq(t, 1, n)) = n
       /\ \A k \in 1 .. n : SubSeq(t, 1, n)[k] = t[k]
  BY <1>2, <1>10, SubSeqProperties
<1>12. SubSeq(t, 1, n) = g
  BY <1>2, <1>8, <1>11, SameString DEF Strings
<1> QED
  BY <1>3, <1>9, <1>12 DEF d

\* The parts of three of b, each but the last with three bytes.
IsCut(b, ss, n) ==
    /\ n \in Nat /\ ss \in [1 .. n -> Strings] /\ b \in Strings
    /\ Len(b) = IF n = 0 THEN 0 ELSE 3 * (n - 1) + Len(ss[n])
    /\ \A k \in 1 .. n :
         /\ Len(ss[k]) \in 1 .. 3
         /\ k < n => Len(ss[k]) = 3
         /\ \A j \in 1 .. Len(ss[k]) : 3 * (k - 1) + j \in 1 .. Len(b) /\ ss[k][j] = b[3 * (k - 1) + j]

LEMMA CutInThrees ==
  ASSUME NEW b \in Strings
  PROVE  \E n : DOMAIN Parts(b, 3) = 1 .. n /\ IsCut(b, Parts(b, 3), n)
<1>1. PICK N \in Nat : N = Len(b)
  BY StringFacts
<1> DEFINE n == (N + 2) \div 3
           hi(k) == IF 3 * k < N THEN 3 * k ELSE N
<1>2. n \in Nat /\ 3 * n >= N /\ 3 * n <= N + 2
  BY <1>1
<1>3. Parts(b, 3) = [k \in 1 .. n |-> SubSeq(b, 3 * (k - 1) + 1, hi(k))]
  <2>1. (Len(b) + 3 - 1) \div 3 = n
    BY <1>1
  <2> QED
    BY <1>1, <2>1 DEF Parts
<1> HIDE DEF n
<1>4. ASSUME NEW k \in 1 .. n
      PROVE  /\ hi(k) \in Nat /\ hi(k) <= N
             /\ hi(k) - 3 * (k - 1) \in 1 .. 3
             /\ k < n => hi(k) = 3 * k
             /\ k = n => hi(k) = N
  <2>1. k \in Nat /\ 3 * k <= N + 2
    BY <1>2
  <2>2. k < n => 3 * k <= N
    BY <1>1, <1>2
  <2>3. k = n => 3 * k >= N
    BY <1>2
  <2> QED
    BY <1>1, <2>1, <2>2, <2>3
<1>5. ASSUME NEW k \in 1 .. n
      PROVE  /\ Parts(b, 3)[k] \in Strings
             /\ Len(Parts(b, 3)[k]) = hi(k) - 3 * (k - 1)
             /\ \A j \in 1 .. hi(k) - 3 * (k - 1) :
                  3 * (k - 1) + j \in 1 .. N /\ Parts(b, 3)[k][j] = b[3 * (k - 1) + j]
  <2>1. PICK lo \in Nat : lo = 3 * (k - 1)
    BY <1>2
  <2>2. PICK h \in Nat : h = hi(k)
    BY <1>4
  <2>3. h <= N /\ h - lo \in 1 .. 3
    BY <1>4, <2>1, <2>2
  <2> HIDE DEF hi
  <2>4. Parts(b, 3)[k] = SubSeq(b, lo + 1, h)
    BY <1>3, <2>1, <2>2
  <2>5. \A i \in lo + 1 .. h : i \in 1 .. N
    BY <1>1, <2>1, <2>3
  <2>6. \A i \in 1 .. N : b[i] \in Int
    BY <1>1, StringFacts
  <2>7. \A i \in lo + 1 .. h : b[i] \in Int
    BY <2>5, <2>6
  <2>8. /\ SubSeq(b, lo + 1, h) \in Seq(Int)
        /\ Len(SubSeq(b, lo + 1, h)) = IF lo + 1 <= h THEN h - (lo + 1) + 1 ELSE 0
        /\ \A i \in 1 .. h - (lo + 1) + 1 : SubSeq(b, lo + 1, h)[i] = b[(lo + 1) + i - 1]
    <3>1. lo + 1 \in Int /\ h \in Int
      BY <2>1, <2>2
    <3> QED
      BY <2>7, <3>1, SubSeqProperties
  <2>9. Len(SubSeq(b, lo + 1, h)) = h - lo
    BY <2>1, <2>2, <2>3, <2>8
  <2>10. ASSUME NEW j \in 1 .. h - lo
         PROVE  lo + j \in 1 .. N /\ SubSeq(b, lo + 1, h)[j] = b[lo + j]
    <3>1. /\ j \in 1 .. h - (lo + 1) + 1 /\ (lo + 1) + j - 1 = lo + j
          /\ lo + j \in 1 .. N
      BY <1>1, <2>1, <2>2, <2>3
    <3> QED
      BY <2>8, <3>1
  <2>11. SubSeq(b, lo + 1, h) \in Strings
    BY <2>8 DEF Strings
  <2> QED
    BY <2>1, <2>2, <2>4, <2>9, <2>10, <2>11
<1> HIDE DEF hi
<1>6. Parts(b, 3) \in [1 .. n -> Strings]
  <2>1. Parts(b, 3) = [k \in 1 .. n |-> Parts(b, 3)[k]]
    BY <1>3
  <2> QED
    BY <1>5, <2>1
<1> DEFINE ss == Parts(b, 3)
<1>7. DOMAIN ss = 1 .. n
  BY <1>3
<1> HIDE DEF ss
<1>8. ASSUME NEW k \in 1 .. n
      PROVE  /\ Len(ss[k]) \in 1 .. 3
             /\ k < n => Len(ss[k]) = 3
             /\ k = n => N = 3 * (n - 1) + Len(ss[n])
             /\ \A j \in 1 .. Len(ss[k]) : 3 * (k - 1) + j \in 1 .. N /\ ss[k][j] = b[3 * (k - 1) + j]
  <2>1. PICK l : l = Len(ss[k])
    OBVIOUS
  <2>2. /\ l = hi(k) - 3 * (k - 1)
        /\ \A j \in 1 .. l : 3 * (k - 1) + j \in 1 .. N /\ ss[k][j] = b[3 * (k - 1) + j]
    BY <1>5, <2>1 DEF ss
  <2>3. l \in 1 .. 3 /\ (k < n => l = 3) /\ (k = n => N = 3 * (n - 1) + l)
    BY <1>2, <1>4, <2>2
  <2> QED
    BY <2>1, <2>2, <2>3
<1>9. Len(b) = IF n = 0 THEN 0 ELSE 3 * (n - 1) + Len(ss[n])
  <2>1. CASE n = 0
    BY <1>1, <1>2, <2>1
  <2>2. CASE n # 0
    <3>1. n \in 1 .. n
      BY <1>2, <2>2
    <3> QED
      BY <1>1, <1>8, <2>2, <3>1
  <2> QED
    BY <2>1, <2>2
<1>10. IsCut(b, ss, n)
  BY <1>1, <1>2, <1>6, <1>8, <1>9 DEF IsCut, ss
<1> QED
  BY <1>7, <1>10 DEF ss

\* Put one after the other again, the parts are b.
LEMMA CutFlattened ==
  ASSUME NEW b, NEW ss, NEW n, IsCut(b, ss, n)
  PROVE  FlattenSeq(ss) = b
<1>1. /\ n \in Nat /\ ss \in [1 .. n -> Strings] /\ b \in Strings
      /\ \A k \in 1 .. n :
         /\ Len(ss[k]) \in 1 .. 3
         /\ k < n => Len(ss[k]) = 3
         /\ \A j \in 1 .. Len(ss[k]) : 3 * (k - 1) + j \in 1 .. Len(b) /\ ss[k][j] = b[3 * (k - 1) + j]
  BY DEF IsCut
<1>2. PICK off : LaidOut(FlattenSeq(ss), ss, n, off)
  BY <1>1, Blocks
<1> DEFINE s == FlattenSeq(ss)
<1>3. /\ s \in Strings /\ off \in [0 .. n -> Nat] /\ off[0] = 0 /\ Len(s) = off[n]
      /\ \A k \in 1 .. n : off[k] = off[k - 1] + Len(ss[k])
      /\ \A k \in 1 .. n : \A j \in 1 .. Len(ss[k]) : s[off[k - 1] + j] = ss[k][j]
  BY <1>2 DEF LaidOut
<1> HIDE DEF s
<1> DEFINE T == {k \in 0 .. n : k < n => off[k] = 3 * k}
<1>4. 0 \in T
  BY <1>1, <1>3
<1>5. ASSUME NEW k \in 0 .. n - 1, k \in T PROVE k + 1 \in T
  <2>1. SUFFICES ASSUME k + 1 < n PROVE off[k + 1] = 3 * (k + 1)
    BY <1>1
  <2>2. off[k] = 3 * k /\ k + 1 \in 1 .. n /\ (k + 1) - 1 = k
    BY <1>1, <1>5, <2>1
  <2>3. Len(ss[k + 1]) = 3 /\ off[k + 1] = off[k] + Len(ss[k + 1])
    BY <1>1, <1>3, <2>1, <2>2
  <2> QED
    BY <2>2, <2>3
<1>6. ASSUME NEW k \in 1 .. n PROVE off[k - 1] = 3 * (k - 1)
  <2> HIDE DEF T
  <2>1. k - 1 \in Nat /\ k - 1 \in 0 .. n /\ k - 1 < n
    BY <1>1
  <2>2. \A i \in 0 .. (k - 1) - 1 : i \in T => i + 1 \in T
    BY <1>1, <1>5
  <2>3. k - 1 \in T
    BY <1>4, <2>1, <2>2, Induction, Zenon
  <2> QED
    BY <2>1, <2>3 DEF T
<1>7. Len(s) = Len(b)
  <2>1. CASE n = 0
    BY <1>3, <2>1 DEF IsCut
  <2>2. CASE n # 0
    <3>1. n \in 1 .. n
      BY <1>1, <2>2
    <3>2. off[n] = 3 * (n - 1) + Len(ss[n])
      BY <1>3, <1>6, <3>1
    <3> QED
      BY <1>3, <2>2, <3>2 DEF IsCut
  <2> QED
    BY <2>1, <2>2
<1>8. ASSUME NEW i \in 1 .. Len(s) PROVE s[i] = b[i]
  <2>1. PICK k \in 1 .. n : \E j \in 1 .. Len(ss[k]) : i = off[k - 1] + j
    BY <1>2, BlockOf DEF s
  <2>2. PICK j \in 1 .. Len(ss[k]) : i = off[k - 1] + j
    BY <2>1
  <2>3. s[i] = ss[k][j] /\ i = 3 * (k - 1) + j
    BY <1>3, <1>6, <2>1, <2>2
  <2> QED
    BY <1>1, <2>1, <2>2, <2>3
<1>9. s = b
  BY <1>1, <1>3, <1>7, <1>8, SameString
<1> QED
  BY <1>9 DEF s

\* enc is the digits of ss's groups, four of each.
IsCoded(enc, ss, n) ==
    /\ n \in Nat /\ enc \in Strings /\ Len(enc) = 4 * n
    /\ \A k \in 1 .. n :
         /\ IsGroup(ss[k])
         /\ k < n => Len(ss[k]) = 3
         /\ \A j \in 1 .. 4 : enc[4 * (k - 1) + j] = EncodeGroup(ss[k])[j]

LEMMA CutIsCoded ==
  ASSUME NEW b, NEW ss, NEW n, IsCut(b, ss, n), \A i \in 1 .. Len(b) : b[i] \in Bytes
  PROVE  IsCoded(FlattenSeq([k \in 1 .. n |-> EncodeGroup(ss[k])]), ss, n)
<1>1. /\ n \in Nat /\ ss \in [1 .. n -> Strings]
      /\ \A k \in 1 .. n :
         /\ Len(ss[k]) \in 1 .. 3
         /\ k < n => Len(ss[k]) = 3
         /\ \A j \in 1 .. Len(ss[k]) : 3 * (k - 1) + j \in 1 .. Len(b) /\ ss[k][j] = b[3 * (k - 1) + j]
  BY DEF IsCut
<1>2. \A k \in 1 .. n : IsGroup(ss[k])
  BY <1>1 DEF IsGroup
<1> DEFINE es == [k \in 1 .. n |-> EncodeGroup(ss[k])]
           s == FlattenSeq(es)
<1>3. \A k \in 1 .. n : es[k] = EncodeGroup(ss[k]) /\ Len(es[k]) = 4
  BY <1>2, EncodedGroup
<1>4. es \in [1 .. n -> Strings]
  BY <1>2, EncodedGroup
<1> HIDE DEF es
<1>5. PICK off : LaidOut(s, es, n, off)
  BY <1>1, <1>4, Blocks
<1> HIDE DEF s
<1>6. /\ s \in Strings /\ off \in [0 .. n -> Nat] /\ off[0] = 0 /\ Len(s) = off[n]
      /\ \A k \in 1 .. n : off[k] = off[k - 1] + Len(es[k])
      /\ \A k \in 1 .. n : \A j \in 1 .. Len(es[k]) : s[off[k - 1] + j] = es[k][j]
  BY <1>5 DEF LaidOut
<1>7. ASSUME NEW m \in 0 .. n PROVE off[m] = 4 * m
  <2> DEFINE T == {k \in 0 .. n : off[k] = 4 * k}
  <2>1. 0 \in T
    BY <1>1, <1>6
  <2>2. ASSUME NEW k \in 0 .. m - 1, k \in T PROVE k + 1 \in T
    <3>1. off[k] = 4 * k /\ k + 1 \in 1 .. n /\ (k + 1) - 1 = k
      BY <1>1, <2>2
    <3>2. Len(es[k + 1]) = 4 /\ off[k + 1] = off[k] + Len(es[k + 1])
      BY <1>3, <1>6, <3>1
    <3> QED
      BY <1>1, <3>1, <3>2
  <2> HIDE DEF T
  <2>3. m \in T
    <3>1. m \in Nat
      BY <1>1
    <3> QED
      BY <2>1, <2>2, <3>1, Induction, Zenon
  <2> QED
    BY <2>3 DEF T
<1>8. Len(s) = 4 * n
  BY <1>1, <1>6, <1>7
<1>9. ASSUME NEW k \in 1 .. n, NEW j \in 1 .. 4
      PROVE  s[4 * (k - 1) + j] = EncodeGroup(ss[k])[j]
  <2>1. k - 1 \in 0 .. n
    BY <1>1
  <2>2. off[k - 1] = 4 * (k - 1)
    BY <1>7, <2>1
  <2> QED
    BY <1>3, <1>6, <2>2
<1>10. IsCoded(s, ss, n)
  BY <1>1, <1>2, <1>6, <1>8, <1>9 DEF IsCoded
<1> QED
  BY <1>10 DEF s, es

LEMMA CodedDigit ==
  ASSUME NEW enc, NEW ss, NEW n, IsCoded(enc, ss, n), NEW x \in 1 .. Len(enc)
  PROVE  \E k \in 1 .. n : \E j \in 1 .. 4 :
           /\ x = 4 * (k - 1) + j
           /\ IsGroup(ss[k]) /\ (k < n => Len(ss[k]) = 3)
           /\ enc[x] = KeyStr(DigitsOf(ss[k])[j])
<1>1. n \in Nat /\ Len(enc) = 4 * n
  BY DEF IsCoded
<1>2. PICK k \in Nat : k = ((x - 1) \div 4) + 1
  BY <1>1
<1>3. PICK j \in Nat : j = x - 4 * (k - 1)
  BY <1>1, <1>2
<1>4. k \in 1 .. n /\ j \in 1 .. 4 /\ x = 4 * (k - 1) + j
  BY <1>1, <1>2, <1>3
<1>5. /\ IsGroup(ss[k]) /\ (k < n => Len(ss[k]) = 3)
      /\ enc[4 * (k - 1) + j] = EncodeGroup(ss[k])[j]
  BY <1>4 DEF IsCoded
<1>6. EncodeGroup(ss[k])[j] = KeyStr(DigitsOf(ss[k])[j])
  BY <1>4, <1>5, EncodedGroup
<1> QED
  BY <1>4, <1>5, <1>6

LEMMA CodedIsBase64 ==
  ASSUME NEW enc, NEW ss, NEW n, IsCoded(enc, ss, n)
  PROVE  IsBase64(enc)
<1>1. n \in Nat /\ enc \in Strings /\ Len(enc) = 4 * n /\ DOMAIN enc = 1 .. 4 * n
  BY StringFacts DEF IsCoded
<1>2. ASSUME NEW x \in 1 .. Len(enc), ~\E e \in 0 .. 63 : KeyStr(e) = enc[x]
      PROVE  enc[x] = KeyStr(64) /\ x >= Len(enc) - 1 /\ Last(enc) = KeyStr(64)
  <2>1. PICK k \in 1 .. n, j \in 1 .. 4 :
           /\ x = 4 * (k - 1) + j
           /\ IsGroup(ss[k]) /\ (k < n => Len(ss[k]) = 3)
           /\ enc[x] = KeyStr(DigitsOf(ss[k])[j])
    BY CodedDigit
  <2>2. PICK d : d = DigitsOf(ss[k])
    OBVIOUS
  <2>3. d \in [1 .. 4 -> 0 .. 64] /\ \A i \in 1 .. 4 : d[i] = 64 <=> i > Len(ss[k]) + 1
    BY <2>1, <2>2, GroupDigits
  <2>4. d[j] = 64
    <3>1. d[j] \in 0 .. 64 /\ enc[x] = KeyStr(d[j])
      BY <2>1, <2>2, <2>3
    <3>2. d[j] \notin 0 .. 63
      BY <1>2, <3>1
    <3> QED
      BY <3>1, <3>2
  <2>5. PICK l \in 1 .. 3 : l = Len(ss[k])
    BY <2>1 DEF IsGroup
  <2>6. j > l + 1 /\ j \in 1 .. 4
    BY <2>1, <2>3, <2>4, <2>5
  <2>7. k = n /\ l < 3 /\ j >= 3
    <3>0. l \in 1 .. 3
      BY <2>5
    <3>1. l < 3 /\ j >= 3 /\ l # 3
      BY <2>6, <3>0
    <3>2. ~(k < n)
      BY <2>1, <2>5, <3>1, Zenon
    <3>3. k \in 1 .. n
      BY <2>1
    <3> QED
      BY <1>1, <3>1, <3>2, <3>3
  <2>8. x >= Len(enc) - 1
    BY <1>1, <2>1, <2>7
  <2>9. d[4] = 64
    BY <2>3, <2>5, <2>7
  <2>10. enc[4 * (n - 1) + 4] = EncodeGroup(ss[n])[4] /\ 4 * (n - 1) + 4 = Len(enc)
    <3>1. n \in 1 .. n
      BY <1>1, <2>1, <2>7
    <3> QED
      BY <1>1, <3>1 DEF IsCoded
  <2>11. EncodeGroup(ss[n])[4] = KeyStr(64)
    BY <2>1, <2>2, <2>7, <2>9, EncodedGroup
  <2> QED
    BY <2>1, <2>2, <2>4, <2>8, <2>10, <2>11 DEF Last
<1>3. Len(enc) % 4 = 0
  BY <1>1
<1> QED
  BY <1>1, <1>2, <1>3 DEF IsBase64

LEMMA CodedDecodes ==
  ASSUME NEW b, NEW enc, NEW ss, NEW n, IsCut(b, ss, n), IsCoded(enc, ss, n)
  PROVE  DecodeString(enc) = b
<1>1. /\ n \in Nat /\ enc \in Strings /\ Len(enc) = 4 * n
      /\ ss \in [1 .. n -> Strings]
      /\ \A k \in 1 .. n : IsGroup(ss[k])
  BY DEF IsCoded, IsCut
<1>2. (Len(enc) + 4 - 1) \div 4 = n
  BY <1>1
<1>3. Parts(enc, 4) =
        [k \in 1 .. n |-> SubSeq(enc, 4 * (k - 1) + 1, IF 4 * k < Len(enc) THEN 4 * k ELSE Len(enc))]
  BY <1>2 DEF Parts
<1>4. ASSUME NEW k \in 1 .. n PROVE Parts(enc, 4)[k] = EncodeGroup(ss[k])
  <2>1. PICK lo \in Nat : lo = 4 * (k - 1)
    BY <1>1
  <2>2. (IF 4 * k < Len(enc) THEN 4 * k ELSE Len(enc)) = lo + 4
    BY <1>1, <2>1
  <2>3. Parts(enc, 4)[k] = SubSeq(enc, lo + 1, lo + 4)
    BY <1>3, <2>1, <2>2
  <2>4. \A i \in lo + 1 .. lo + 4 : i \in 1 .. Len(enc)
    BY <1>1, <2>1
  <2>5. \A i \in lo + 1 .. lo + 4 : enc[i] \in Int
    BY <1>1, <2>4, StringFacts
  <2>6. lo + 1 \in Int /\ lo + 4 \in Int /\ (lo + 4) - (lo + 1) + 1 = 4 /\ lo + 1 <= lo + 4
    BY <2>1
  <2>7. /\ SubSeq(enc, lo + 1, lo + 4) \in Seq(Int)
        /\ Len(SubSeq(enc, lo + 1, lo + 4)) = 4
        /\ \A i \in 1 .. 4 : SubSeq(enc, lo + 1, lo + 4)[i] = enc[(lo + 1) + i - 1]
    BY <2>5, <2>6, SubSeqProperties
  <2>8. \A i \in 1 .. 4 : (lo + 1) + i - 1 = lo + i
    BY <2>1
  <2>9. \A i \in 1 .. 4 : enc[lo + i] = EncodeGroup(ss[k])[i]
    BY <2>1 DEF IsCoded
  <2>10. EncodeGroup(ss[k]) \in Strings /\ Len(EncodeGroup(ss[k])) = 4
    BY <1>1, EncodedGroup
  <2>11. \A i \in 1 .. 4 : SubSeq(enc, lo + 1, lo + 4)[i] = EncodeGroup(ss[k])[i]
    BY <2>7, <2>8, <2>9
  <2> QED
    BY <2>3, <2>7, <2>10, <2>11, SameString DEF Strings
<1>5. DOMAIN Parts(enc, 4) = 1 .. n
  BY <1>3
<1> DEFINE ds == [k \in 1 .. n |-> DecodeGroup(Parts(enc, 4)[k])]
<1>6. DecodeString(enc) = FlattenSeq(ds)
  BY <1>5 DEF DecodeString
<1>7. \A k \in 1 .. n : DecodeGroup(Parts(enc, 4)[k]) = ss[k]
  BY <1>1, <1>4, GroupDecoded
<1>8. ds = ss
  BY <1>1, <1>7
<1> HIDE DEF ds
<1> QED
  BY <1>6, <1>8, CutFlattened

\* What Base64Encode returns for a query: digits, of one group at least unless
\* the query is empty.
LEMMA Base64Coded ==
  ASSUME NEW q \in Seq(Chars)
  PROVE  \E ss, n : /\ IsCut(Utf8Encode(q), ss, n) /\ IsCoded(Base64Encode(q), ss, n)
                    /\ \A i \in 1 .. Len(Utf8Encode(q)) : Utf8Encode(q)[i] \in 0 .. 239
<1> DEFINE b == Utf8Encode(q)
<1>1. PICK off : IsEncoding(b, q, off)
  BY Utf8Blocks
<1>2. b \in Strings
  BY <1>1 DEF IsEncoding, LaidOut
<1>3. \A i \in 1 .. Len(b) : b[i] \in 0 .. 239
  BY <1>1, EncodingBytes
<1>4. PICK n : DOMAIN Parts(b, 3) = 1 .. n /\ IsCut(b, Parts(b, 3), n)
  BY <1>2, CutInThrees
<1>5. \A i \in 1 .. Len(b) : b[i] \in Bytes
  <2>1. \A x \in 0 .. 239 : x \in Bytes
    BY DEF Bytes
  <2> QED
    BY <1>3, <2>1
<1>6. Base64Encode(q) = FlattenSeq([k \in 1 .. n |-> EncodeGroup(Parts(b, 3)[k])])
  BY <1>4 DEF Base64Encode
<1>7. IsCoded(Base64Encode(q), Parts(b, 3), n)
  <2> HIDE DEF b
  <2> QED
    BY <1>4, <1>5, <1>6, CutIsCoded
<1> QED
  BY <1>3, <1>4, <1>7

\* base64.js and encoding/base64, for every query: what the page encodes, the
\* server takes for base64 and decodes into the query's UTF-8.
THEOREM Base64Survives ==
  ASSUME NEW q \in Seq(Chars)
  PROVE  IsBase64(Base64Encode(q)) /\ DecodeString(Base64Encode(q)) = Utf8Encode(q)
BY Base64Coded, CodedIsBase64, CodedDecodes

-----------------------------------------------------------------------------
(***************************************************************************)
(* Trim, Split, Join and cleanQuery.                                       *)
(***************************************************************************)

LEMMA Extremes ==
  ASSUME NEW n \in Nat, NEW T \in SUBSET (1 .. n), T # {}
  PROVE  /\ Min(T) \in T /\ \A k \in T : Min(T) <= k
         /\ Max(T) \in T /\ \A k \in T : k <= Max(T)
<1>1. PICK low \in T : \A k \in T : low <= k
  <2>1. PICK k \in T : TRUE
    OBVIOUS
  <2>2. T \in SUBSET Nat
    OBVIOUS
  <2> QED
    BY <2>1, <2>2, LeastElement
<1>2. PICK high \in T : \A k \in T : k <= high
  <2> DEFINE U == {n - k : k \in T}
  <2>1. PICK h \in T : TRUE
    OBVIOUS
  <2>2. U \in SUBSET Nat /\ n - h \in U
    BY <2>1
  <2>3. PICK d \in U : \A k \in U : d <= k
    BY <2>2, LeastElement
  <2>4. PICK m \in T : d = n - m
    BY <2>3
  <2>5. ASSUME NEW k \in T PROVE k <= m
    <3>1. n - m <= n - k /\ k \in 1 .. n /\ m \in 1 .. n
      BY <2>3, <2>4
    <3> QED
      BY <3>1
  <2> QED
    BY <2>4, <2>5
<1>3. Min(T) \in T /\ \A k \in T : Min(T) <= k
  BY <1>1 DEF Min
<1>4. Max(T) \in T /\ \A k \in T : k <= Max(T)
  <2>1. \A k \in T : high >= k
    BY <1>2
  <2>2. Max(T) \in T /\ \A k \in T : Max(T) >= k
    BY <2>1, <1>2 DEF Max
  <2> QED
    BY <2>2
<1> QED
  BY <1>3, <1>4

LEMMA TrimType ==
  ASSUME NEW S, NEW s \in Seq(S)
  PROVE  Trim(s) \in Seq(S)
<1> DEFINE kept == {k \in DOMAIN s : ~IsSpace(s[k])}
<1>1. PICK n \in Nat : n = Len(s) /\ DOMAIN s = 1 .. n /\ \A k \in 1 .. n : s[k] \in S
  BY LenProperties, ElementOfSeq
<1>2. kept \in SUBSET (1 .. n)
  BY <1>1
<1>3. Trim(s) = IF kept = {} THEN <<>> ELSE SubSeq(s, Min(kept), Max(kept))
  BY DEF Trim
<1> HIDE DEF kept
<1>4. CASE kept = {}
  BY <1>3, <1>4, EmptySeq
<1>5. CASE kept # {}
  <2>1. Min(kept) \in 1 .. n /\ Max(kept) \in 1 .. n
    BY <1>1, <1>2, <1>5, Extremes
  <2>2. PICK a \in 1 .. n, b \in 1 .. n : a = Min(kept) /\ b = Max(kept)
    BY <2>1
  <2>3. a \in Int /\ b \in Int /\ \A i \in a .. b : s[i] \in S
    BY <1>1, <2>2
  <2>4. SubSeq(s, a, b) \in Seq(S)
    BY <2>3, SubSeqProperties
  <2> QED
    BY <1>3, <1>5, <2>2, <2>4
<1> QED
  BY <1>4, <1>5

LEMMA TrimNone ==
  ASSUME NEW s \in Strings, \A k \in 1 .. Len(s) : ~IsSpace(s[k])
  PROVE  Trim(s) = s
<1> DEFINE kept == {k \in DOMAIN s : ~IsSpace(s[k])}
<1>1. PICK n \in Nat : n = Len(s) /\ DOMAIN s = 1 .. n /\ s = SubSeq(s, 1, n)
  BY StringFacts
<1>2. kept = 1 .. n
  BY <1>1
<1>3. Trim(s) = IF kept = {} THEN <<>> ELSE SubSeq(s, Min(kept), Max(kept))
  BY DEF Trim
<1> HIDE DEF kept
<1>4. CASE n = 0
  <2>1. kept = {} /\ s = <<>>
    BY <1>1, <1>2, <1>4, StringFacts
  <2> QED
    BY <1>3, <2>1
<1>5. CASE n # 0
  <2>1. 1 \in 1 .. n /\ n \in 1 .. n /\ kept # {}
    BY <1>1, <1>2, <1>5
  <2>2. /\ Min(kept) \in 1 .. n /\ Min(kept) <= 1
        /\ Max(kept) \in 1 .. n /\ n <= Max(kept)
    BY <1>1, <1>2, <2>1, Extremes
  <2>3. Min(kept) = 1 /\ Max(kept) = n
    BY <1>1, <2>2
  <2> QED
    BY <1>1, <1>3, <2>1, <2>3
<1> QED
  BY <1>4, <1>5

LEMMA JoinType ==
  ASSUME NEW S \in SUBSET Int, Newline \in S,
         NEW n \in Nat, NEW ss \in [1 .. n -> Strings],
         \A k \in 1 .. n : \A j \in 1 .. Len(ss[k]) : ss[k][j] \in S
  PROVE  Join(ss) \in Seq(S)
<1> DEFINE ls == [k \in DOMAIN ss |-> <<Newline>> \o ss[k]]
           s == FlattenSeq(ls)
<1>1. <<Newline>> \in Strings /\ Len(<<Newline>>) = 1 /\ <<Newline>>[1] = Newline
  BY DEF Strings, Newline
<1>2. ASSUME NEW k \in 1 .. n
      PROVE  /\ ls[k] \in Strings /\ Len(ls[k]) = 1 + Len(ss[k])
             /\ \A j \in 1 .. Len(ls[k]) : ls[k][j] \in S
  <2>1. ss[k] \in Strings /\ Len(ss[k]) \in Nat /\ ls[k] = <<Newline>> \o ss[k]
    BY StringFacts
  <2> HIDE DEF ls
  <2>2. /\ ls[k] \in Strings /\ Len(ls[k]) = 1 + Len(ss[k])
        /\ \A j \in 1 .. 1 + Len(ss[k]) :
             ls[k][j] = IF j <= 1 THEN <<Newline>>[j] ELSE ss[k][j - 1]
    BY <1>1, <2>1, Concatenated
  <2>3. ASSUME NEW j \in 1 .. Len(ls[k]) PROVE ls[k][j] \in S
    <3>1. CASE j = 1
      BY <1>1, <2>1, <2>2, <3>1
    <3>2. CASE j # 1
      <4>1. j - 1 \in 1 .. Len(ss[k]) /\ ~(j <= 1) /\ j \in 1 .. 1 + Len(ss[k])
        BY <2>1, <2>2, <3>2
      <4> QED
        BY <2>2, <4>1
    <3> QED
      BY <3>1, <3>2
  <2> QED
    BY <2>2, <2>3
<1>3. ls \in [1 .. n -> Strings]
  BY <1>2
<1>4. Join(ss) = IF ss = <<>> THEN <<>> ELSE Tail(s)
  BY DEF Join
<1> HIDE DEF ls
<1>5. PICK off : LaidOut(s, ls, n, off)
  BY <1>3, Blocks
<1> HIDE DEF s
<1>6. s \in Strings /\ Len(s) = off[n] /\ off \in [0 .. n -> Nat]
  BY <1>5 DEF LaidOut
<1>7. ASSUME NEW i \in 1 .. Len(s) PROVE s[i] \in S
  <2>1. PICK k \in 1 .. n : \E j \in 1 .. Len(ls[k]) : i = off[k - 1] + j
    BY <1>5, BlockOf
  <2>2. PICK j \in 1 .. Len(ls[k]) : i = off[k - 1] + j
    BY <2>1
  <2>3. s[i] = ls[k][j]
    BY <1>5, <2>1, <2>2 DEF LaidOut
  <2> QED
    BY <1>2, <2>1, <2>2, <2>3
<1>8. CASE ss = <<>>
  BY <1>4, <1>8, EmptySeq
<1>9. CASE ss # <<>>
  <2>1. n # 0
    <3>1. ss \in Seq(Strings) /\ Len(ss) = n
      BY IsSequence
    <3> QED
      BY <1>9, <3>1, EmptySeq
  <2>2. s \in Seq(S) /\ Len(s) \in Nat
    <3>1. PICK m \in Nat : m = Len(s) /\ s = [i \in 1 .. m |-> s[i]]
      BY <1>6, LenProperties DEF Strings
    <3>2. s \in [1 .. m -> S]
      BY <1>7, <3>1
    <3> QED
      BY <3>1, <3>2, IsSequence
  <2>3. s # <<>>
    <3>1. 1 \in 1 .. n
      BY <2>1
    <3>2. 1 \in 1 .. Len(ls[1])
      <4>1. Len(ls[1]) = 1 + Len(ss[1]) /\ ss[1] \in Strings
        BY <1>2, <3>1
      <4> QED
        BY <4>1, StringFacts
    <3>3. off[1 - 1] + 1 \in 1 .. Len(s)
      BY <1>5, <3>1, <3>2 DEF LaidOut
    <3> QED
      BY <3>3, EmptySeq
  <2>4. Tail(s) \in Seq(S)
    BY <2>2, <2>3, HeadTailProperties
  <2> QED
    BY <1>4, <1>9, <2>4
<1> QED
  BY <1>8, <1>9

\* A single line is joined to nothing.
LEMMA JoinOne ==
  ASSUME NEW s \in Strings, NEW ss \in [1 .. 1 -> Strings], ss[1] = s
  PROVE  Join(ss) = s
<1> DEFINE ls == [k \in DOMAIN ss |-> <<Newline>> \o ss[k]]
<1>1. <<Newline>> \in Strings /\ Len(<<Newline>>) = 1
  BY DEF Strings, Newline
<1>2. ls \in [1 .. 1 -> Strings] /\ ls[1] = <<Newline>> \o s
  <2>1. <<Newline>> \o s \in Strings
    BY <1>1, Concatenated
  <2> QED
    BY <2>1
<1>3. Join(ss) = IF ss = <<>> THEN <<>> ELSE Tail(FlattenSeq(ls))
  BY DEF Join
<1> HIDE DEF ls
<1>4. FlattenSeq(ls) = <<Newline>> \o s
  <2>1. PICK f \in [0 .. 1 -> Strings] :
           f[0] = <<>> /\ (\A i \in 1 .. 1 : f[i] = f[i - 1] \o ls[i]) /\ FlattenSeq(ls) = f[1]
    BY <1>2, Flattened
  <2>2. f[1] = f[0] \o ls[1]
    <3>1. 1 \in 1 .. 1 /\ 1 - 1 = 0
      OBVIOUS
    <3> QED
      BY <2>1, <3>1
  <2>3. <<>> \o ls[1] = ls[1]
    <3>1. 1 \in 1 .. 1
      OBVIOUS
    <3>2. ls[1] \in Strings
      BY <1>2, <3>1
    <3> QED
      BY <3>2, Concatenated
  <2> QED
    BY <1>2, <2>1, <2>2, <2>3
<1>5. ss # <<>>
  <2>1. Len(ss) = 1
    BY IsSequence
  <2>2. Len(<<>>) # 1
    BY EmptySeq
  <2> QED
    BY <2>1, <2>2, Zenon
<1>6. /\ <<Newline>> \o s \in Strings /\ Len(<<Newline>> \o s) = 1 + Len(s)
      /\ \A i \in 1 .. 1 + Len(s) :
           (<<Newline>> \o s)[i] = IF i <= 1 THEN <<Newline>>[i] ELSE s[i - 1]
  BY <1>1, Concatenated
<1>7. Len(s) \in Nat
  BY StringFacts
<1>8. PICK t \in Strings : t = <<Newline>> \o s /\ Len(t) = 1 + Len(s)
                           /\ \A i \in 1 .. Len(s) : t[i + 1] = s[i]
  <2>1. \A i \in 1 .. Len(s) : i + 1 \in 1 .. 1 + Len(s) /\ ~(i + 1 <= 1) /\ (i + 1) - 1 = i
    BY <1>7
  <2>2. \A i \in 1 .. Len(s) : (<<Newline>> \o s)[i + 1] = s[i]
    BY <1>6, <2>1
  <2> QED
    BY <1>6, <2>2
<1>9. /\ Tail(t) \in Strings /\ Len(Tail(t)) = Len(s)
      /\ \A i \in 1 .. Len(s) : Tail(t)[i] = t[i + 1]
  <2>1. t # <<>>
    BY <1>7, <1>8, EmptySeq
  <2> QED
    BY <1>7, <1>8, <2>1, HeadTailProperties DEF Strings
<1>10. Tail(t) = s
  <2>1. \A i \in 1 .. Len(Tail(t)) : Tail(t)[i] = s[i]
    BY <1>8, <1>9
  <2> QED
    BY <1>9, <2>1, SameString
<1> QED
  BY <1>3, <1>4, <1>5, <1>8, <1>10

\* The lines of s lie inside it.
LEMMA SplitType ==
  ASSUME NEW s \in Strings
  PROVE  \E n \in Nat : Split(s) \in [1 .. n -> Strings]
<1>1. PICK N \in Nat : N = Len(s) /\ \A i \in 1 .. N : s[i] \in Int
  BY StringFacts
<1> DEFINE pos == [k \in 1 .. Len(s) + 1 |-> k]
           D == {k \in DOMAIN s : s[k] # Newline}
           ends == Without(pos, D)
<1>2. pos \in [1 .. N + 1 -> 1 .. N + 1] /\ N + 1 \in Nat
  BY <1>1
<1>3. pos \in Seq(1 .. N + 1)
  <2> HIDE DEF pos
  <2> QED
    BY <1>2, IsSequence
<1>4. ends \in Seq(1 .. N + 1)
  <2> HIDE DEF pos, D
  <2> QED
    BY <1>3, WithoutType
<1>5. Split(s) = [n \in DOMAIN ends |-> SubSeq(s, IF n = 1 THEN 1 ELSE ends[n - 1] + 1, ends[n] - 1)]
  BY DEF Split
<1> HIDE DEF ends
<1>6. PICK m \in Nat : DOMAIN ends = 1 .. m /\ \A n \in 1 .. m : ends[n] \in 1 .. N + 1
  BY <1>4, LenProperties, ElementOfSeq
<1>7. ASSUME NEW n \in 1 .. m
      PROVE  SubSeq(s, IF n = 1 THEN 1 ELSE ends[n - 1] + 1, ends[n] - 1) \in Strings
  <2>1. n # 1 => n - 1 \in 1 .. m
    BY <1>6
  <2>2. PICK a \in Nat : a = (IF n = 1 THEN 1 ELSE ends[n - 1] + 1) /\ a >= 1
    BY <1>1, <1>6, <2>1
  <2>3. PICK b \in 0 .. N : b = ends[n] - 1
    BY <1>1, <1>6
  <2>4. a \in Int /\ b \in Int /\ \A i \in a .. b : i \in 1 .. N
    BY <1>1, <2>2, <2>3
  <2>5. SubSeq(s, a, b) \in Seq(Int)
    BY <1>1, <2>4, SubSeqProperties
  <2> QED
    BY <2>2, <2>3, <2>5 DEF Strings
<1>8. Split(s) \in [1 .. m -> Strings]
  BY <1>5, <1>6, <1>7
<1> QED
  BY <1>6, <1>8

\* cleanQuery returns a string whatever it is given.
LEMMA CleanType ==
  ASSUME NEW s \in Strings
  PROVE  cleanQuery(s) \in Strings
<1> DEFINE trimmed == [k \in DOMAIN Split(s) |-> Trim(Split(s)[k])]
           comments == {line \in Range(trimmed) : IsPrefix(<<Dash, Dash>>, line)}
           left == Without(trimmed, comments)
<1>1. PICK n \in Nat : Split(s) \in [1 .. n -> Strings]
  BY SplitType
<1>2. trimmed \in [1 .. n -> Strings]
  <2>1. \A k \in 1 .. n : Split(s)[k] \in Strings
    BY <1>1
  <2>2. \A k \in 1 .. n : Trim(Split(s)[k]) \in Strings
    BY <2>1, TrimType DEF Strings
  <2> QED
    BY <1>1, <2>2
<1>3. cleanQuery(s) = Trim(Join(left))
  BY DEF cleanQuery
<1> HIDE DEF trimmed, comments
<1>4. trimmed \in Seq(Strings)
  BY <1>1, <1>2, IsSequence
<1>5. left \in Seq(Strings)
  BY <1>4, WithoutType
<1> HIDE DEF left
<1>6. PICK m \in Nat : left \in [1 .. m -> Strings]
  BY <1>5, LenProperties, ElementOfSeq
<1>7. Newline \in Int /\ \A k \in 1 .. m : \A j \in 1 .. Len(left[k]) : left[k][j] \in Int
  BY <1>6, StringFacts DEF Newline
<1>8. Join(left) \in Seq(Int)
  BY <1>6, <1>7, JoinType
<1> QED
  BY <1>3, <1>8, TrimType DEF Strings

\* One line that is neither a comment nor has white space is left as it is.
LEMMA CleanNothing ==
  ASSUME NEW s \in Strings, \A k \in 1 .. Len(s) : ~IsSpace(s[k]),
         Len(s) # 0 => s[1] # Dash
  PROVE  cleanQuery(s) = s
<1>1. PICK N \in Nat : N = Len(s) /\ DOMAIN s = 1 .. N /\ s = SubSeq(s, 1, N)
  BY StringFacts
<1> DEFINE pos == [k \in 1 .. Len(s) + 1 |-> k]
           D == {k \in DOMAIN s : s[k] # Newline}
           ends == Without(pos, D)
<1>2. pos \in [1 .. N + 1 -> 1 .. N + 1] /\ N + 1 \in Nat /\ \A k \in 1 .. N + 1 : pos[k] = k
  BY <1>1
<1>3. D = 1 .. N
  <2>1. \A k \in 1 .. N : s[k] # Newline
    BY <1>1 DEF IsSpace, Newline
  <2> QED
    BY <1>1, <2>1
<1>4. Split(s) = [n \in DOMAIN ends |-> SubSeq(s, IF n = 1 THEN 1 ELSE ends[n - 1] + 1, ends[n] - 1)]
  BY DEF Split
<1> HIDE DEF pos, D
<1>5. pos \in Seq(1 .. N + 1) /\ Len(pos) = N + 1
  BY <1>2, IsSequence
<1>6. PICK f : KeepsIn(f, pos, D, 1 .. N + 1)
  BY <1>5, WithoutSteps
<1>7. /\ f[0] = <<>> /\ ends = f[N + 1]
      /\ \A i \in 1 .. N + 1 : f[i] = IF pos[i] \in D THEN f[i - 1] ELSE Append(f[i - 1], pos[i])
  BY <1>5, <1>6 DEF KeepsIn
<1> HIDE DEF ends
<1>8. f[N] = <<>>
  <2> DEFINE T == {k \in 0 .. N : f[k] = <<>>}
  <2>1. 0 \in T
    BY <1>1, <1>7
  <2>2. ASSUME NEW k \in 0 .. N - 1, k \in T PROVE k + 1 \in T
    <3>1. k + 1 \in 1 .. N /\ k + 1 \in 1 .. N + 1 /\ (k + 1) - 1 = k /\ f[k] = <<>>
      BY <1>1, <2>2
    <3>2. pos[k + 1] \in D
      BY <1>2, <1>3, <3>1
    <3>3. f[k + 1] = <<>>
      BY <1>7, <3>1, <3>2
    <3> QED
      BY <3>1, <3>3
  <2> HIDE DEF T
  <2>3. N \in T
    BY <1>1, <2>1, <2>2, Induction, Zenon
  <2> QED
    BY <2>3 DEF T
<1>9. ends = <<N + 1>>
  <2>1. N + 1 \in 1 .. N + 1 /\ (N + 1) - 1 = N /\ N + 1 \notin D
    BY <1>1, <1>3
  <2>2. f[N + 1] = Append(<<>>, N + 1)
    BY <1>2, <1>7, <1>8, <2>1
  <2> QED
    BY <1>7, <2>2
<1>10. DOMAIN ends = 1 .. 1 /\ ends[1] = N + 1
  BY <1>9
<1>11. DOMAIN Split(s) = 1 .. 1 /\ Split(s)[1] = s
  <2>1. Split(s)[1] = SubSeq(s, 1, ends[1] - 1)
    BY <1>4, <1>10
  <2>2. ends[1] - 1 = N
    BY <1>1, <1>10
  <2> QED
    BY <1>1, <1>4, <1>10, <2>1, <2>2
<1> DEFINE trimmed == [k \in DOMAIN Split(s) |-> Trim(Split(s)[k])]
           comments == {line \in Range(trimmed) : IsPrefix(<<Dash, Dash>>, line)}
<1>12. trimmed \in [1 .. 1 -> Strings] /\ trimmed[1] = s
  <2>1. Trim(s) = s
    BY TrimNone
  <2> QED
    BY <1>11, <2>1
<1>13. s \notin comments
  <2>1. ASSUME IsPrefix(<<Dash, Dash>>, s) PROVE FALSE
    <3>1. Len(<<Dash, Dash>>) = 2 /\ SubSeq(<<Dash, Dash>>, 1, 2)[1] = Dash
      BY DEF Dash
    <3>2. 2 <= Len(s) /\ SubSeq(<<Dash, Dash>>, 1, 2) = SubSeq(s, 1, 2)
      BY <2>1, <3>1 DEF IsPrefix
    <3>3. \A i \in 1 .. 2 : s[i] \in Int
      BY <1>1, <3>2, StringFacts
    <3>4. SubSeq(s, 1, 2)[1] = s[1]
      <4>1. \A i \in 1 .. 2 - 1 + 1 : SubSeq(s, 1, 2)[i] = s[1 + i - 1]
        BY <3>3, SubSeqProperties
      <4> QED
        BY <4>1
    <3>5. s[1] = Dash /\ Len(s) # 0
      BY <3>1, <3>2, <3>4
    <3> QED
      BY <3>5
  <2> QED
    BY <2>1
<1>14. cleanQuery(s) = Trim(Join(Without(trimmed, comments)))
  BY DEF cleanQuery
<1> HIDE DEF trimmed, comments
<1>15. Without(trimmed, comments) = trimmed
  <2>1. trimmed \in Seq(Strings) /\ Len(trimmed) = 1
    BY <1>12, IsSequence
  <2>2. \A i \in 1 .. Len(trimmed) : trimmed[i] \notin comments
    BY <1>12, <1>13, <2>1
  <2> QED
    BY <2>1, <2>2, WithoutNone
<1>16. Join(trimmed) = s
  BY <1>12, JoinOne
<1> QED
  BY <1>14, <1>15, <1>16, TrimNone

-----------------------------------------------------------------------------
(***************************************************************************)
(* The whole way of a query.                                               *)
(***************************************************************************)

\* c is a digit or the padding, and u what stands for it in a URL.
IsUrlDigit(c, u) ==
    /\ c \in Int /\ u \in Int
    /\ ~IsSpace(u)
    /\ c # 43 => u # Dash
    /\ u = 45 => c = 43
    /\ u = 95 => c = 47
    /\ u = 46 => c = 61
    /\ u \notin {45, 95, 46} => u = c
    /\ c \notin {10, 13}

LEMMA UrlSafeDigit ==
  ASSUME NEW e \in 0 .. 64
  PROVE  IsUrlDigit(KeyStr(e), UrlSafe(KeyStr(e)))
<1>1. PICK c : c = KeyStr(e)
  OBVIOUS
<1>2. c \in (65 .. 90) \cup (97 .. 122) \cup (48 .. 57) \cup {43, 47, 61}
  BY <1>1, KeyStrChars
<1>3. /\ c = 43 => UrlSafe(c) = 45
      /\ c = 47 => UrlSafe(c) = 95
      /\ c = 61 => UrlSafe(c) = 46
      /\ c \notin {43, 47, 61} => UrlSafe(c) = c
  BY DEF UrlSafe
<1>4. IsUrlDigit(c, UrlSafe(c))
  <2>1. CASE c = 43
    BY <1>3, <2>1 DEF IsUrlDigit, IsSpace, Dash
  <2>2. CASE c = 47
    BY <1>3, <2>2 DEF IsUrlDigit, IsSpace, Dash
  <2>3. CASE c = 61
    BY <1>3, <2>3 DEF IsUrlDigit, IsSpace, Dash
  <2>4. CASE c \notin {43, 47, 61}
    BY <1>2, <1>3, <2>4 DEF IsUrlDigit, IsSpace, Dash
  <2> QED
    BY <2>1, <2>2, <2>3, <2>4
<1> QED
  BY <1>1, <1>4

\* An export's parameter: no white space, no dash at the start, so cleanQuery
\* leaves it alone; and desanitize64 gives the digits back.
LEMMA ExportParameter ==
  ASSUME NEW q \in Seq(Chars)
  PROVE  LET v == encodeQuery(q)
             enc == Base64Encode(q)
         IN  /\ v \in Strings /\ enc \in Strings /\ Len(v) = Len(enc)
             /\ cleanQuery(v) = v
             /\ Without(desanitize64(v), {10, 13}) = enc
<1> DEFINE v == encodeQuery(q)
           enc == Base64Encode(q)
           b == Utf8Encode(q)
<1>1. PICK ss, n : /\ IsCut(b, ss, n) /\ IsCoded(enc, ss, n)
                   /\ \A i \in 1 .. Len(b) : b[i] \in 0 .. 239
  BY Base64Coded
<1>2. v = [k \in DOMAIN enc |-> UrlSafe(enc[k])]
  BY DEF encodeQuery
<1> HIDE DEF v, enc, b
<1>3. enc \in Strings /\ Len(enc) = 4 * n /\ n \in Nat
  BY <1>1 DEF IsCoded
<1>4. PICK N \in Nat : N = Len(enc) /\ DOMAIN enc = 1 .. N
  BY <1>3, StringFacts
<1>5. ASSUME NEW x \in 1 .. N PROVE \E e \in 0 .. 64 : enc[x] = KeyStr(e)
  <2>1. PICK k \in 1 .. n, j \in 1 .. 4 : IsGroup(ss[k]) /\ enc[x] = KeyStr(DigitsOf(ss[k])[j])
    BY <1>1, <1>4, CodedDigit
  <2>2. DigitsOf(ss[k])[j] \in 0 .. 64
    <3>1. DigitsOf(ss[k]) \in [1 .. 4 -> 0 .. 64]
      BY <2>1, GroupDigits
    <3> QED
      BY <2>1, <3>1
  <2> QED
    BY <2>1, <2>2
<1>6. ASSUME NEW x \in 1 .. N
      PROVE  IsUrlDigit(enc[x], v[x])
  <2>1. PICK e \in 0 .. 64 : enc[x] = KeyStr(e)
    BY <1>5
  <2>2. v[x] = UrlSafe(KeyStr(e))
    BY <1>2, <1>4, <2>1
  <2> QED
    BY <2>1, <2>2, UrlSafeDigit
<1>7. v \in Strings /\ Len(v) = N
  <2>1. v \in [1 .. N -> Int]
    <3>1. v = [k \in 1 .. N |-> v[k]]
      BY <1>2, <1>4
    <3> QED
      BY <1>6, <3>1 DEF IsUrlDigit
  <2> QED
    BY <1>4, <2>1, IsSequence DEF Strings
<1>8. Len(v) # 0 => v[1] # Dash
  <2>1. SUFFICES ASSUME N # 0 PROVE v[1] # Dash
    BY <1>7
  <2>2. 1 \in 1 .. N /\ 1 \in 1 .. n /\ 4 * (1 - 1) + 1 = 1
    BY <1>3, <1>4, <2>1
  <2>3. /\ IsGroup(ss[1]) /\ Len(ss[1]) \in 1 .. 3
        /\ enc[1] = EncodeGroup(ss[1])[1]
    BY <1>1, <2>2 DEF IsCoded, IsGroup
  <2>4. ss[1][1] < 240
    <3>1. 1 \in 1 .. Len(ss[1]) /\ 3 * (1 - 1) + 1 = 1
      <4>1. \A l \in 1 .. 3 : 1 \in 1 .. l
        OBVIOUS
      <4>2. 1 \in 1 .. Len(ss[1])
        BY <2>3, <4>1
      <4> QED
        BY <4>2
    <3>2. 1 \in 1 .. Len(b) /\ ss[1][1] = b[1]
      BY <1>1, <2>2, <3>1 DEF IsCut
    <3>3. b[1] \in 0 .. 239
      BY <1>1, <3>2
    <3>4. \A y \in 0 .. 239 : y < 240
      OBVIOUS
    <3>5. b[1] < 240
      BY <3>3, <3>4
    <3> QED
      BY <3>2, <3>5, Zenon
  <2>5. DigitsOf(ss[1]) \in [1 .. 4 -> 0 .. 64] /\ DigitsOf(ss[1])[1] < 62
    BY <2>3, <2>4, GroupDigits
  <2>6. enc[1] = KeyStr(DigitsOf(ss[1])[1])
    BY <2>3, EncodedGroup
  <2>7. enc[1] # 43
    <3>0. 1 \in 1 .. 4
      OBVIOUS
    <3>1. PICK e \in 0 .. 64 : e = DigitsOf(ss[1])[1] /\ e < 62
      BY <2>5, <3>0
    <3>2. KeyStr(e) = 43 => e = 62
      BY <3>1, KeyStrChars
    <3> QED
      BY <2>6, <3>1, <3>2
  <2> QED
    BY <1>6, <2>2, <2>7 DEF IsUrlDigit
<1>9. cleanQuery(v) = v
  BY <1>6, <1>7, <1>8, CleanNothing DEF IsUrlDigit
<1>10. desanitize64(v) = enc
  <2>1. DOMAIN v = 1 .. N
    BY <1>2, <1>4
  <2> DEFINE Standard(c) == CASE c = 45 -> 43 [] c = 95 -> 47 [] c = 46 -> 61 [] OTHER -> c
  <2>2. ASSUME NEW x \in 1 .. N PROVE Standard(v[x]) = enc[x]
    <3>1. PICK u, c : u = v[x] /\ c = enc[x]
      OBVIOUS
    <3>2. /\ u = 45 => Standard(u) = 43
          /\ u = 95 => Standard(u) = 47
          /\ u = 46 => Standard(u) = 61
          /\ u \notin {45, 95, 46} => Standard(u) = u
      OBVIOUS
    <3>3. /\ u = 45 => c = 43
          /\ u = 95 => c = 47
          /\ u = 46 => c = 61
          /\ u \notin {45, 95, 46} => u = c
      BY <1>6, <3>1 DEF IsUrlDigit
    <3> HIDE DEF Standard
    <3> QED
      BY <3>1, <3>2, <3>3
  <2>3. desanitize64(v) = [k \in 1 .. N |-> Standard(v[k])]
    BY <2>1 DEF desanitize64
  <2> HIDE DEF Standard
  <2>4. desanitize64(v) = [k \in 1 .. N |-> enc[k]]
    BY <2>2, <2>3
  <2>5. enc = [k \in 1 .. N |-> enc[k]]
    BY <1>3, <1>4, LenProperties DEF Strings
  <2> QED
    BY <2>4, <2>5
<1>11. Without(enc, {10, 13}) = enc
  <2>1. enc \in Seq(Int) /\ \A i \in 1 .. Len(enc) : enc[i] \notin {10, 13}
    BY <1>3, <1>4, <1>6 DEF Strings, IsUrlDigit
  <2> QED
    BY <2>1, WithoutNone
<1> QED
  BY <1>3, <1>4, <1>7, <1>9, <1>10, <1>11 DEF v, enc

\* exportTo to RunQuery: whatever the query, PostgreSQL is given it unchanged.
THEOREM ExportArrives ==
  ASSUME NEW q \in Seq(Chars)
  PROVE  Utf8Text(Executed("export", encodeQuery(q))) = q
<1> DEFINE v == encodeQuery(q)
           enc == Base64Encode(q)
<1>1. /\ v \in Strings /\ enc \in Strings /\ Len(v) = Len(enc)
      /\ cleanQuery(v) = v
      /\ Without(desanitize64(v), {10, 13}) = enc
  BY ExportParameter
<1>2. IsBase64(enc) /\ DecodeString(enc) = Utf8Encode(q)
  BY Base64Survives
<1>3. Utf8Text(Utf8Encode(q)) = q
  BY Utf8IsRead
<1>4. PICK ss, n : IsCut(Utf8Encode(q), ss, n) /\ IsCoded(enc, ss, n)
  BY Base64Coded
<1> HIDE DEF v, enc
<1>5. CASE v = <<>>
  <2>1. Len(enc) = 0
    BY <1>1, <1>5, EmptySeq
  <2>2. Len(Utf8Encode(q)) = 0 /\ Utf8Encode(q) \in Strings
    <3>1. n \in Nat /\ 4 * n = 0
      BY <1>4, <2>1 DEF IsCoded
    <3>2. n = 0
      BY <3>1
    <3> QED
      BY <1>4, <3>2 DEF IsCut
  <2>3. Utf8Encode(q) = <<>>
    BY <2>2, StringFacts
  <2>4. Executed("export", v) = <<>>
    BY <1>1, <1>5 DEF Executed
  <2> QED
    BY <1>3, <2>3, <2>4 DEF v
<1>6. CASE v # <<>>
  <2>1. Executed("export", v) = HandleQuery(v)
    BY <1>1, <1>6 DEF Executed
  <2>2. HandleQuery(v) = Utf8Encode(q)
    BY <1>1, <1>2 DEF HandleQuery
  <2> QED
    BY <1>3, <2>1, <2>2 DEF v
<1> QED
  BY <1>5, <1>6

\* runExplain to ExplainQuery: whatever the form's value, what it has besides
\* comments is executed as it is, because the space behind EXPLAIN is no digit.
THEOREM ExplainIsNotDecoded ==
  ASSUME NEW v \in Strings
  PROVE  LET query == cleanQuery(v)
         IN Executed("explain", v) = IF query = <<>> THEN <<>> ELSE Explain \o query
<1> DEFINE c == cleanQuery(v)
           x == Explain \o c
<1>1. c \in Strings
  BY CleanType
<1> HIDE DEF c
<1>2. Explain \in Strings /\ Len(Explain) = 8 /\ Explain[8] = 32
  BY DEF Explain, Strings
<1>3. x \in Strings /\ Len(x) = 8 + Len(c) /\ Len(c) \in Nat /\ x[8] = 32
  <2>1. Len(c) \in Nat
    BY <1>1, StringFacts
  <2>2. 8 \in 1 .. 8 + Len(c)
    BY <2>1
  <2>3. /\ x \in Strings /\ Len(x) = Len(Explain) + Len(c)
        /\ \A i \in 1 .. Len(Explain) + Len(c) :
             x[i] = IF i <= Len(Explain) THEN Explain[i] ELSE c[i - Len(Explain)]
    BY <1>1, <1>2, Concatenated
  <2> HIDE DEF x
  <2>4. x[8] = 32
    BY <1>2, <2>2, <2>3
  <2> QED
    BY <1>2, <2>1, <2>3, <2>4
<1> HIDE DEF x
<1> DEFINE d == desanitize64(x)
<1>4. d \in Strings /\ 8 \in 1 .. Len(d) /\ d[8] = 32
  <2>1. PICK N \in Nat : N = Len(x) /\ N >= 8 /\ DOMAIN x = 1 .. N /\ \A k \in 1 .. N : x[k] \in Int
    BY <1>3, StringFacts
  <2> DEFINE Standard(k) == CASE k = 45 -> 43 [] k = 95 -> 47 [] k = 46 -> 61 [] OTHER -> k
  <2>2. d = [k \in 1 .. N |-> Standard(x[k])]
    BY <2>1 DEF desanitize64
  <2>3. \A k \in Int : Standard(k) \in Int
    OBVIOUS
  <2>4. Standard(32) = 32
    OBVIOUS
  <2> HIDE DEF Standard, d
  <2>5. d \in [1 .. N -> Int]
    BY <2>1, <2>2, <2>3
  <2>6. d \in Strings /\ Len(d) = N
    BY <2>1, <2>5, IsSequence DEF Strings
  <2>7. 8 \in 1 .. N
    BY <2>1
  <2> QED
    BY <1>3, <2>2, <2>4, <2>6, <2>7
<1> HIDE DEF d
<1> DEFINE w == Without(d, {10, 13})
<1>5. w \in Strings
  BY <1>4, WithoutType DEF Strings
<1>6. PICK j \in 1 .. Len(w) : w[j] = 32
  <2>1. d[8] \notin {10, 13}
    BY <1>4
  <2>2. d \in Seq(Int)
    BY <1>4 DEF Strings
  <2> HIDE DEF w
  <2>3. \E j \in 1 .. Len(Without(d, {10, 13})) : Without(d, {10, 13})[j] = d[8]
    <3>1. PICK i \in 1 .. Len(d) : i = 8
      BY <1>4
    <3>2. PICK D : D = {10, 13}
      OBVIOUS
    <3>3. d[i] \notin D
      BY <2>1, <3>1, <3>2
    <3>4. \E j \in 1 .. Len(Without(d, D)) : Without(d, D)[j] = d[i]
      BY <2>2, <3>1, <3>3, WithoutKeeps
    <3> QED
      BY <3>1, <3>2, <3>4
  <2> QED
    BY <1>4, <2>3 DEF w
<1> HIDE DEF w
<1>7. ~IsBase64(w)
  <2>1. \A e \in 0 .. 64 : KeyStr(e) # 32
    <3>1. SUFFICES ASSUME NEW e \in 0 .. 64 PROVE KeyStr(e) # 32
      OBVIOUS
    <3>2. KeyStr(e) \in (65 .. 90) \cup (97 .. 122) \cup (48 .. 57) \cup {43, 47, 61}
      BY KeyStrChars
    <3>3. 32 \notin (65 .. 90) \cup (97 .. 122) \cup (48 .. 57) \cup {43, 47, 61}
      OBVIOUS
    <3> QED
      BY <3>2, <3>3
  <2>2. j \in DOMAIN w
    BY <1>5, <1>6, StringFacts
  <2>3. \A e \in 0 .. 63 : e \in 0 .. 64
    OBVIOUS
  <2>4. KeyStr(64) # w[j] /\ ~\E e \in 0 .. 63 : KeyStr(e) = w[j]
    BY <1>6, <2>1, <2>3
  <2> QED
    BY <2>2, <2>4 DEF IsBase64
<1>8. HandleQuery(x) = x
  BY <1>7 DEF HandleQuery, w, d
<1>9. Executed("explain", v) = IF c = <<>> THEN <<>> ELSE HandleQuery(x)
  BY DEF Executed, c, x
<1> QED
  BY <1>8, <1>9 DEF c, x
=============================================================================
