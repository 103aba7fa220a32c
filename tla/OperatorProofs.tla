--------------------------- MODULE OperatorProofs ---------------------------
(***************************************************************************)
(* The operators that the models are built from. First sequences and       *)
(* numbers: induction and recursion along the numbers, the least and the   *)
(* greatest of a set of them, where the elements of sequences are when     *)
(* they are put one after the other, what sequences with a common          *)
(* beginning share, and digits. Then the conversions of the scalar types,  *)
(* for integers of every width: what the struct can hold comes back from   *)
(* the wire. Then what the operators on decoders do to a window of an      *)
(* input of any length: they keep it, move on in it or die with an error   *)
(* (Runs), and what they do depends on the place in the input and on       *)
(* nothing else of the window (Alike), so that two passes over the same    *)
(* bytes go the same way. At last what the operators on encoders write,    *)
(* and that a varint, a tag and a length are read back as they were        *)
(* written.                                                                *)
(***************************************************************************)
EXTENDS Digits, Scalars, DecoderOps, EncoderOps, SequencesExt, FiniteSetsExt,
        SequenceTheorems, WellFoundedInduction, TLAPS

(* Induction over a set of numbers, and recursion along them: a function that
   starts with a and takes the given steps. *)
LEMMA NatSetInduction ==
  ASSUME NEW S, 0 \in S, \A i \in Nat : i \in S => i + 1 \in S
  PROVE  Nat \subseteq S
<1> SUFFICES ASSUME Nat \ S # {} PROVE FALSE
  OBVIOUS
<1>1. PICK k \in Nat \ S : \A l \in Nat \ S : ~ (<<l, k>> \in OpToRel(<, Nat))
  BY NatLessThanWellFounded, WFMin
<1>2. k # 0 /\ k - 1 \in Nat /\ k = (k - 1) + 1
  BY SMT
<1>3. k - 1 \notin S
  BY <1>1, <1>2
<1>4. <<k - 1, k>> \in OpToRel(<, Nat)
  BY <1>2 DEF OpToRel
<1> QED
  BY <1>1, <1>2, <1>3, <1>4

Iterates(g, n, a, step) == g = [i \in 0 .. n |-> IF i = 0 THEN a ELSE step[i][g[i - 1]]]

LEMMA Recursion ==
  ASSUME NEW n \in Nat, NEW S, NEW a \in S, NEW step \in [1 .. n -> [S -> S]]
  PROVE  \E g \in [0 .. n -> S] : Iterates(g, n, a, step)
<1> DEFINE Good(k, g) == g = [i \in 0 .. k |-> IF i = 0 THEN a ELSE step[i][g[i - 1]]]
           T == {k \in Nat : k <= n => \E g \in [0 .. k -> S] : Good(k, g)}
<1>1. 0 \in T
  <2>1. [i \in 0 .. 0 |-> a] \in [0 .. 0 -> S]
    OBVIOUS
  <2>2. Good(0, [i \in 0 .. 0 |-> a])
    OBVIOUS
  <2> HIDE DEF Good
  <2> QED
    BY <2>1, <2>2
<1>2. ASSUME NEW k \in Nat, k \in T PROVE k + 1 \in T
  <2> HIDE DEF Good
  <2> SUFFICES ASSUME k + 1 <= n PROVE \E g \in [0 .. k + 1 -> S] : Good(k + 1, g)
    OBVIOUS
  <2>1. PICK g \in [0 .. k -> S] : Good(k, g)
    BY <1>2
  <2> USE DEF Good
  <2> DEFINE h == [i \in 0 .. k + 1 |-> IF i <= k THEN g[i] ELSE step[k + 1][g[k]]]
  <2>2. g[k] \in S /\ step[k + 1][g[k]] \in S
    OBVIOUS
  <2>3. h \in [0 .. k + 1 -> S]
    BY <2>2
  <2>4. \A i \in 0 .. k : h[i] = g[i] /\ g[i] = IF i = 0 THEN a ELSE step[i][g[i - 1]]
    BY <2>1
  <2>5. ASSUME NEW i \in 0 .. k + 1 PROVE h[i] = IF i = 0 THEN a ELSE step[i][h[i - 1]]
    <3>1. CASE i <= k /\ i # 0
      <4>1. i - 1 \in 0 .. k /\ i \in 0 .. k
        BY <3>1
      <4> QED
        BY <2>4, <3>1, <4>1
    <3>2. CASE i = 0
      <4>1. 0 \in 0 .. k
        OBVIOUS
      <4>2. h[0] = a
        BY <2>4, <4>1
      <4> QED
        BY <3>2, <4>2
    <3>3. CASE i = k + 1
      <4>1. h[i] = step[k + 1][g[k]] /\ i - 1 = k /\ i # 0 /\ h[k] = g[k]
        BY <2>4, <3>3
      <4> QED
        BY <3>3, <4>1
    <3> QED
      BY <3>1, <3>2, <3>3
  <2>6. h = [i \in 0 .. k + 1 |-> h[i]]
    OBVIOUS
  <2> HIDE DEF h
  <2>7. Good(k + 1, h)
    BY <2>5, <2>6
  <2> HIDE DEF Good
  <2> QED
    BY <2>3, <2>7
<1> HIDE DEF T
<1>3. n \in T
  BY <1>1, <1>2, NatSetInduction
<1>4. \E g \in [0 .. n -> S] : Good(n, g)
  <2> HIDE DEF Good
  <2> QED
    BY <1>3 DEF T
<1> QED
  BY <1>4, Zenon DEF Iterates

(* A set of numbers has a least. *)
LEMMA MinExists ==
  ASSUME NEW S \in SUBSET Nat, S # {}
  PROVE  Min(S) \in S /\ \A x \in S : Min(S) <= x
<1>1. PICK k \in S : \A l \in S : ~ (<<l, k>> \in OpToRel(<, Nat))
  BY NatLessThanWellFounded, WFMin
<1>2. \A l \in S : k <= l
  <2> TAKE l \in S
  <2>1. ~ (l < k) /\ l \in Nat /\ k \in Nat
    BY <1>1 DEF OpToRel
  <2> QED
    BY <2>1
<1> QED
  BY <1>1, <1>2 DEF Min

(* A set of numbers up to n has a greatest. *)
LEMMA MaxExists ==
  ASSUME NEW n \in Nat, NEW S \in SUBSET (1 .. n), S # {}
  PROVE  Max(S) \in S /\ \A x \in S : x <= Max(S)
<1> DEFINE T == {k \in Nat : n - k \in S}
<1>1. PICK s \in S : TRUE
  OBVIOUS
<1>2. n - s \in T
  BY <1>1
<1>3. PICK k \in T : \A l \in T : ~ (<<l, k>> \in OpToRel(<, Nat))
  BY <1>2, NatLessThanWellFounded, WFMin
<1>4. ASSUME NEW l \in T PROVE k <= l
  <2>1. l \in Nat /\ k \in Nat
    OBVIOUS
  <2>2. ~ (<<l, k>> \in OpToRel(<, Nat))
    BY <1>3
  <2>3. ~ (l < k)
    BY <2>1, <2>2 DEF OpToRel
  <2> QED
    BY <2>1, <2>3
<1>5. n - k \in S
  OBVIOUS
<1>6. ASSUME NEW x \in S PROVE x <= n - k
  <2>1. x \in 1 .. n /\ n - x \in Nat /\ n - (n - x) = x
    BY <1>6
  <2>2. n - x \in T
    BY <1>6, <2>1
  <2>3. k <= n - x /\ k \in Nat
    BY <1>4, <2>2
  <2> QED
    BY <2>1, <2>3
<1> HIDE DEF T
<1>7. \E x \in S : \A y \in S : x >= y
  BY <1>5, <1>6
<1> QED
  BY <1>7 DEF Max
-----------------------------------------------------------------------------
(* FlattenSeq puts sequences one after the other. *)
LEMMA FlattenSteps ==
  ASSUME NEW S, NEW seqs \in Seq(Seq(S))
  PROVE  \E g \in [0 .. Len(seqs) -> Seq(S)] :
           /\ g[0] = <<>> /\ FlattenSeq(seqs) = g[Len(seqs)]
           /\ \A i \in 1 .. Len(seqs) : g[i] = g[i - 1] \o seqs[i]
<1> DEFINE n == Len(seqs)
           step == [i \in 1 .. n |-> [s \in Seq(S) |-> s \o seqs[i]]]
<1>1. n \in Nat /\ \A i \in 1 .. n : seqs[i] \in Seq(S)
  OBVIOUS
<1>2. step \in [1 .. n -> [Seq(S) -> Seq(S)]] /\ <<>> \in Seq(S)
  BY <1>1
<1>3. PICK g \in [0 .. n -> Seq(S)] : Iterates(g, n, <<>>, step)
  <2> HIDE DEF n, step
  <2> QED BY <1>1, <1>2, Recursion, Zenon
<1>4. g[0] = <<>> /\ \A i \in 1 .. n : g[i] = g[i - 1] \o seqs[i]
  <2>1. g = [i \in 0 .. n |-> IF i = 0 THEN <<>> ELSE step[i][g[i - 1]]]
    BY <1>3 DEF Iterates
  <2>2. g[0] = <<>>
    BY <1>1, <2>1
  <2>3. ASSUME NEW i \in 1 .. n PROVE g[i] = g[i - 1] \o seqs[i]
    <3>1. i \in 0 .. n /\ i # 0 /\ i - 1 \in 0 .. n
      BY <1>1
    <3>2. g[i] = step[i][g[i - 1]] /\ g[i - 1] \in Seq(S)
      BY <2>1, <3>1
    <3> QED
      BY <3>2
  <2> QED
    BY <2>2, <2>3
<1>5. FlattenSeq(seqs) = g[n]
  <2>1. CASE n = 0
    BY <1>4, <2>1 DEF FlattenSeq
  <2>2. CASE n # 0
    <3> DEFINE Good(f) == f = [i \in 1 .. n |-> IF i = 1 THEN seqs[i] ELSE f[i - 1] \o seqs[i]]
               h == [i \in 1 .. n |-> g[i]]
               f == CHOOSE w : Good(w)
    <3>1. \A i \in 1 .. n : g[i] = IF i = 1 THEN seqs[i] ELSE h[i - 1] \o seqs[i]
      <4> TAKE i \in 1 .. n
      <4>1. CASE i = 1
        <5>1. i - 1 = 0
          BY <4>1
        <5>2. g[i] = g[i - 1] \o seqs[i] /\ seqs[i] \in Seq(S)
          <6> HIDE DEF n
          <6> QED BY <1>1, <1>4
        <5> QED
          BY <1>4, <4>1, <5>1, <5>2, ConcatEmptySeq
      <4>2. CASE i # 1
        <5>1. i - 1 \in 1 .. n
          BY <1>1, <4>2
        <5> QED
          BY <1>4, <4>2, <5>1
      <4> QED
        BY <4>1, <4>2
    <3>2. Good(h)
      BY <3>1
    <3>3. Good(f)
      <4> HIDE DEF Good, h
      <4> QED BY <3>2
    <3>10. \A i \in 1 .. n : f[i] = IF i = 1 THEN seqs[i] ELSE f[i - 1] \o seqs[i]
      <4> HIDE DEF f, n
      <4> QED BY <3>3
    <3> DEFINE T == {k \in Nat : k \in 1 .. n => f[k] = g[k]}
    <3> HIDE DEF f
    <3>4. 0 \in T
      OBVIOUS
    <3>5. ASSUME NEW k \in Nat, k \in T PROVE k + 1 \in T
      <4> SUFFICES ASSUME k + 1 \in 1 .. n PROVE f[k + 1] = g[k + 1]
        OBVIOUS
      <4> DEFINE j == k + 1
      <4>1. j \in 1 .. n /\ j - 1 = k
        OBVIOUS
      <4> HIDE DEF j, h, n
      <4>2. f[j] = IF j = 1 THEN seqs[j] ELSE f[j - 1] \o seqs[j]
        BY <3>10, <4>1
      <4>3. g[j] = IF j = 1 THEN seqs[j] ELSE h[j - 1] \o seqs[j]
        BY <3>1, <4>1
      <4>4. j # 1 => f[k] = g[k] /\ h[k] = g[k]
        BY <1>1, <3>5, <4>1 DEF h
      <4>5. f[j] = g[j]
        BY <4>1, <4>2, <4>3, <4>4
      <4> QED
        BY <4>5 DEF j
    <3> HIDE DEF T
    <3>6. n \in T
      BY <1>1, <3>4, <3>5, NatSetInduction
    <3>7. f[n] = g[n]
      BY <1>1, <2>2, <3>6 DEF T
    <3>8. FlattenSeq(seqs) = f[n]
      BY <2>2 DEF FlattenSeq, f
    <3> QED
      BY <3>7, <3>8
  <2> QED
    BY <2>1, <2>2
<1> QED
  BY <1>4, <1>5

(* The elements of sequence k begin behind offset[k - 1]. *)
Offsets(offset, seqs) ==
  /\ offset \in [0 .. Len(seqs) -> Nat] /\ offset[0] = 0
  /\ \A k \in 1 .. Len(seqs) : offset[k] = offset[k - 1] + Len(seqs[k])

(* Element i of sequence k is in flat at offset[k - 1] + i, and nothing else is. *)
Flat(flat, offset, seqs) ==
  /\ Offsets(offset, seqs) /\ Len(flat) = offset[Len(seqs)]
  /\ \A k \in 1 .. Len(seqs) : \A i \in 1 .. Len(seqs[k]) :
       offset[k - 1] + i \in 1 .. Len(flat) /\ flat[offset[k - 1] + i] = seqs[k][i]
  /\ \A j \in 1 .. Len(flat) :
       \E k \in 1 .. Len(seqs) : \E i \in 1 .. Len(seqs[k]) : j = offset[k - 1] + i

LEMMA FlattenPlaces ==
  ASSUME NEW S, NEW seqs \in Seq(Seq(S))
  PROVE  /\ FlattenSeq(seqs) \in Seq(S)
         /\ \E offset : Flat(FlattenSeq(seqs), offset, seqs)
<1> DEFINE n == Len(seqs)
<1>1. n \in Nat /\ \A i \in 1 .. n : seqs[i] \in Seq(S) /\ Len(seqs[i]) \in Nat
  OBVIOUS
<1>2. PICK g \in [0 .. n -> Seq(S)] :
        /\ g[0] = <<>> /\ FlattenSeq(seqs) = g[n]
        /\ \A i \in 1 .. n : g[i] = g[i - 1] \o seqs[i]
  BY FlattenSteps
<1> DEFINE o == [i \in 0 .. n |-> Len(g[i])]
<1> HIDE DEF n
<1>3. \A i \in 0 .. n : g[i] \in Seq(S) /\ Len(g[i]) \in Nat /\ o[i] = Len(g[i])
  BY <1>1
<1>4. \A i \in 1 .. n :
        /\ i - 1 \in 0 .. n /\ i \in 0 .. n
        /\ o[i] = o[i - 1] + Len(seqs[i]) /\ Len(g[i]) = o[i]
        /\ \A j \in 1 .. o[i - 1] : g[i][j] = g[i - 1][j]
        /\ \A j \in 1 .. Len(seqs[i]) : g[i][o[i - 1] + j] = seqs[i][j]
  <2> TAKE i \in 1 .. n
  <2>1. i - 1 \in 0 .. n /\ i \in 0 .. n
    BY <1>1
  <2> HIDE DEF o
  <2>2. /\ g[i] = g[i - 1] \o seqs[i] /\ g[i - 1] \in Seq(S) /\ seqs[i] \in Seq(S)
        /\ o[i - 1] = Len(g[i - 1]) /\ o[i] = Len(g[i])
    BY <1>1, <1>2, <1>3, <2>1
  <2> DEFINE a == g[i - 1]
             b == seqs[i]
             c == g[i]
             p == o[i - 1]
  <2> HIDE DEF a, b, c, p
  <2>3. c = a \o b /\ a \in Seq(S) /\ b \in Seq(S) /\ p = Len(a)
    BY <2>2 DEF a, b, c, p
  <2>4. /\ Len(c) = p + Len(b)
        /\ \A j \in 1 .. p : c[j] = a[j]
        /\ \A j \in 1 .. Len(b) : c[p + j] = b[j]
    BY <2>3
  <2> QED
    BY <2>1, <2>2, <2>4 DEF a, b, c, p
<1>5. o \in [0 .. n -> Nat] /\ o[0] = 0
  BY <1>1, <1>2, <1>3
<1> HIDE DEF o
<1> DEFINE Right(m) ==
             /\ \A k \in 1 .. m : \A i \in 1 .. Len(seqs[k]) :
                  o[k - 1] + i \in 1 .. o[m] /\ g[m][o[k - 1] + i] = seqs[k][i]
             /\ \A j \in 1 .. o[m] :
                  \E k \in 1 .. m : \E i \in 1 .. Len(seqs[k]) : j = o[k - 1] + i
           T == {m \in Nat : m <= n => Right(m)}
<1>6. 0 \in T
  BY <1>5
<1>7. ASSUME NEW l \in Nat, l \in T PROVE l + 1 \in T
  <2> DEFINE m == l + 1
  <2> SUFFICES ASSUME m <= n PROVE Right(m)
    OBVIOUS
  <2>1. m \in 1 .. n /\ m - 1 = l /\ l <= n /\ l \in 0 .. n
    BY <1>1
  <2>2. Right(l)
    BY <1>7, <2>1
  <2> HIDE DEF m
  <2>3. o[m] = o[l] + Len(seqs[m]) /\ o[l] \in Nat /\ Len(seqs[m]) \in Nat
    BY <1>1, <1>4, <1>5, <2>1
  <2>4. /\ \A j \in 1 .. o[l] : g[m][j] = g[l][j]
        /\ \A j \in 1 .. Len(seqs[m]) : g[m][o[l] + j] = seqs[m][j]
    BY <1>4, <2>1
  <2>5. ASSUME NEW k \in 1 .. m, NEW i \in 1 .. Len(seqs[k])
        PROVE  o[k - 1] + i \in 1 .. o[m] /\ g[m][o[k - 1] + i] = seqs[k][i]
    <3>1. CASE k = m
      <4>1. k - 1 = l
        BY <2>1, <3>1
      <4> QED
        BY <2>3, <2>4, <3>1, <4>1
    <3>2. CASE k # m
      <4>1. k \in 1 .. l
        BY <2>1, <3>2
      <4>2. o[k - 1] + i \in 1 .. o[l] /\ g[l][o[k - 1] + i] = seqs[k][i]
        BY <2>2, <4>1
      <4>3. 1 .. o[l] \subseteq 1 .. o[m]
        BY <2>3
      <4> QED
        BY <2>4, <4>2, <4>3
    <3> QED
      BY <3>1, <3>2
  <2>6. ASSUME NEW j \in 1 .. o[m]
        PROVE  \E k \in 1 .. m : \E i \in 1 .. Len(seqs[k]) : j = o[k - 1] + i
    <3>1. CASE j <= o[l]
      <4>1. j \in 1 .. o[l]
        BY <2>3, <3>1
      <4>2. PICK k \in 1 .. l : \E i \in 1 .. Len(seqs[k]) : j = o[k - 1] + i
        BY <2>2, <4>1
      <4>3. k \in 1 .. m
        BY <2>1
      <4> QED
        BY <4>2, <4>3
    <3>2. CASE ~ (j <= o[l])
      <4>1. j - o[l] \in 1 .. Len(seqs[m]) /\ j = o[l] + (j - o[l]) /\ m \in 1 .. m
        BY <2>1, <2>3, <3>2
      <4>2. m - 1 = l
        BY <2>1
      <4> QED
        BY <4>1, <4>2
    <3> QED
      BY <3>1, <3>2
  <2> QED
    BY <2>5, <2>6
<1> HIDE DEF T
<1>8. n \in T
  BY <1>1, <1>6, <1>7, NatSetInduction
<1>9. Right(n)
  <2> HIDE DEF Right
  <2> QED BY <1>1, <1>8 DEF T
<1>10. n \in 0 .. n
  BY <1>1
<1>11. FlattenSeq(seqs) \in Seq(S) /\ Len(FlattenSeq(seqs)) = o[n]
  BY <1>2, <1>3, <1>10 DEF o
<1>12. Offsets(o, seqs)
  BY <1>4, <1>5 DEF Offsets, n
<1>13. /\ \A k \in 1 .. n : \A i \in 1 .. Len(seqs[k]) :
            /\ o[k - 1] + i \in 1 .. Len(FlattenSeq(seqs))
            /\ FlattenSeq(seqs)[o[k - 1] + i] = seqs[k][i]
       /\ \A j \in 1 .. Len(FlattenSeq(seqs)) :
            \E k \in 1 .. n : \E i \in 1 .. Len(seqs[k]) : j = o[k - 1] + i
  BY <1>2, <1>9, <1>11
<1>14. Flat(FlattenSeq(seqs), o, seqs)
  BY <1>11, <1>12, <1>13 DEF n, Flat
<1> QED
  BY <1>11, <1>14

(* A later sequence is behind an earlier one. *)
LEMMA OffsetsGrow ==
  ASSUME NEW S, NEW seqs \in Seq(Seq(S)), NEW offset, Offsets(offset, seqs),
         NEW m \in 0 .. Len(seqs), NEW k \in 0 .. m
  PROVE  offset[k] <= offset[m]
<1> DEFINE n == Len(seqs)
           T == {d \in Nat : k + d <= n => offset[k] <= offset[k + d]}
<1>1. n \in Nat /\ \A i \in 1 .. n : Len(seqs[i]) \in Nat
  OBVIOUS
<1>2. \A i \in 0 .. n : offset[i] \in Nat
  BY DEF Offsets
<1>3. 0 \in T
  BY <1>2
<1>4. ASSUME NEW d \in Nat, d \in T PROVE d + 1 \in T
  <2> DEFINE j == k + (d + 1)
  <2> SUFFICES ASSUME j <= n PROVE offset[k] <= offset[j]
    OBVIOUS
  <2>1. j \in 1 .. n /\ j - 1 = k + d /\ k + d \in 0 .. n /\ k + d <= n /\ k \in 0 .. n /\ j \in 0 .. n
    BY <1>1
  <2>2. offset[k] <= offset[k + d]
    BY <1>4, <2>1
  <2> HIDE DEF j
  <2>3. offset[j] = offset[j - 1] + Len(seqs[j])
    BY <2>1 DEF Offsets
  <2> QED
    BY <1>1, <1>2, <2>1, <2>2, <2>3, SMTT(40)
<1> HIDE DEF T
<1>5. Nat \subseteq T
  BY <1>3, <1>4, NatSetInduction
<1>6. m - k \in Nat /\ k + (m - k) = m /\ m <= n
  OBVIOUS
<1> QED
  BY <1>5, <1>6 DEF T
-----------------------------------------------------------------------------

LEMMA OneMore ==
  ASSUME NEW S, NEW a \in Seq(S), NEW s \in Seq(S), NEW d \in Nat, d + 1 \in 1 .. Len(s)
  PROVE  (a \o SubSeq(s, 1, d)) \o <<s[d + 1]>> = a \o SubSeq(s, 1, d + 1)
<1> DEFINE e == d + 1
           x == SubSeq(s, 1, d)
           y == <<s[d + 1]>>
<1>1. e \in 1 .. Len(s) /\ 1 \in 1 .. Len(s) /\ e - 1 = d
  OBVIOUS
<1> HIDE DEF e
<1>2. SubSeq(s, 1, e) = SubSeq(s, 1, e - 1) \o <<s[e]>>
  BY <1>1, SubSeqRecursiveSecond
<1>3. SubSeq(s, 1, d + 1) = x \o y
  BY <1>1, <1>2 DEF e
<1>4. x \in Seq(S) /\ y \in Seq(S)
  <2>1. \A k \in 1 .. d : s[k] \in S
    OBVIOUS
  <2>2. s[d + 1] \in S
    OBVIOUS
  <2>3. d \in Int /\ 1 \in Int
    OBVIOUS
  <2> QED
    BY <2>1, <2>2, <2>3, SubSeqProperties
<1> HIDE DEF x, y
<1>5. (a \o x) \o y = a \o (x \o y)
  BY <1>4, ConcatAssociative, SMTT(30)
<1> QED
  BY <1>3, <1>5 DEF x, y

(* A sequence, put before others that have one element each. *)
Ones(seqs, m, a, s) ==
  /\ m \in {0, 1} /\ Len(seqs) = m + Len(s)
  /\ (m = 0 => a = <<>>) /\ (m = 1 => seqs[1] = a)
  /\ \A i \in 1 .. Len(s) : seqs[m + i] = <<s[i]>>

LEMMA FlattenOnes ==
  ASSUME NEW S, NEW a \in Seq(S), NEW s \in Seq(S), NEW seqs \in Seq(Seq(S)), NEW m,
         Ones(seqs, m, a, s)
  PROVE  FlattenSeq(seqs) = a \o s
<1> USE DEF Ones
<1> DEFINE n == Len(s)
<1>1. n \in Nat /\ m \in Nat /\ m + n \in Nat
  OBVIOUS
<1>2. PICK g \in [0 .. Len(seqs) -> Seq(S)] :
        /\ g[0] = <<>> /\ FlattenSeq(seqs) = g[Len(seqs)]
        /\ \A i \in 1 .. Len(seqs) : g[i] = g[i - 1] \o seqs[i]
  BY FlattenSteps
<1> DEFINE Reached(d) == d <= n => g[m + d] = a \o SubSeq(s, 1, d)
           T == {d \in Nat : Reached(d)}
<1>3. SubSeq(s, 1, 0) = <<>> /\ a \o <<>> = a /\ <<>> \o a = a
  BY SubSeqEmpty, ConcatEmptySeq
<1>4. 0 \in T
  <2>1. CASE m = 0
    BY <1>2, <1>3, <2>1
  <2>2. CASE m = 1
    <3>1. 1 \in 1 .. Len(seqs)
      BY <1>1, <2>2
    <3>2. g[1] = g[0] \o seqs[1]
      <4>1. 1 - 1 = 0
        OBVIOUS
      <4> QED
        BY <1>2, <3>1, <4>1, Zenon
    <3>3. g[1] = a
      BY <1>2, <1>3, <2>2, <3>2, Zenon
    <3>4. m + 0 = 1
      BY <2>2
    <3> QED
      BY <1>3, <3>3, <3>4
  <2> QED
    BY <2>1, <2>2
<1>5. ASSUME NEW d \in Nat, d \in T PROVE d + 1 \in T
  <2>a. Reached(d) /\ d + 1 \in Nat
    <3> HIDE DEF Reached
    <3> QED
      BY <1>5
  <2> SUFFICES ASSUME d + 1 <= n PROVE g[m + (d + 1)] = a \o SubSeq(s, 1, d + 1)
    BY <2>a
  <2> DEFINE i == m + (d + 1)
  <2>1. i \in 1 .. Len(seqs) /\ i - 1 = m + d /\ d <= n /\ d + 1 \in 1 .. n
    <3>1. Len(seqs) = m + n
      BY Zenon
    <3> HIDE DEF n, T
    <3> QED
      BY <1>1, <3>1
  <2>2. g[m + d] = a \o SubSeq(s, 1, d)
    BY <2>a, <2>1
  <2>3. seqs[i] = <<s[d + 1]>>
    BY <2>1
  <2> HIDE DEF i
  <2>4. g[i] = (a \o SubSeq(s, 1, d)) \o <<s[d + 1]>>
    BY <1>2, <2>1, <2>2, <2>3
  <2>5. d + 1 \in 1 .. n /\ (a \o SubSeq(s, 1, d)) \o <<s[d + 1]>> = a \o SubSeq(s, 1, d + 1)
    <3> HIDE DEF T
    <3> QED
      BY <2>1, OneMore
  <2> QED
    BY <2>4, <2>5 DEF i
<1> HIDE DEF T
<1>6. n \in T
  BY <1>1, <1>4, <1>5, NatSetInduction
<1>7. g[m + n] = a \o SubSeq(s, 1, n)
  BY <1>1, <1>6 DEF T
<1> QED
  BY <1>2, <1>7, SubSeqFull

(* The beginning of a sequence and the rest. *)
LEMMA Initial ==
  ASSUME NEW S, NEW s \in Seq(S), NEW n \in 0 .. Len(s)
  PROVE  /\ SubSeq(s, 1, n) \in Seq(S) /\ Len(SubSeq(s, 1, n)) = n
         /\ \A i \in 1 .. n : SubSeq(s, 1, n)[i] = s[i]
<1>1. n \in Int /\ 1 \in Int /\ \A i \in 1 .. n : s[i] \in S
  OBVIOUS
<1> DEFINE q == SubSeq(s, 1, n)
<1>2. /\ q \in Seq(S) /\ Len(q) = IF 1 <= n THEN n - 1 + 1 ELSE 0
      /\ \A i \in 1 .. n - 1 + 1 : q[i] = s[1 + i - 1]
  BY <1>1, SubSeqProperties
<1> HIDE DEF q
<1>3. Len(q) = n
  BY <1>2
<1>4. ASSUME NEW i \in 1 .. n PROVE q[i] = s[i]
  <2>0. n - 1 + 1 = n /\ i \in Int
    BY <1>1
  <2>1. i \in 1 .. n - 1 + 1 /\ 1 + i - 1 = i
    BY <2>0, SMTT(40)
  <2> QED
    BY <1>2, <2>1
<1> QED
  BY <1>2, <1>3, <1>4 DEF q

(* All but the last of a sequence, and the last. *)
LEMMA FrontAndLast ==
  ASSUME NEW S, NEW s \in Seq(S), s # <<>>
  PROVE  /\ Front(s) \in Seq(S) /\ Last(s) \in S /\ Len(Front(s)) = Len(s) - 1
         /\ Front(s) \o <<Last(s)>> = s
<1>1. Len(s) \in Nat /\ Len(s) # 0
  BY EmptySeq
<1>2. Len(s) - 1 \in 0 .. Len(s) /\ Len(s) \in 1 .. Len(s) /\ 1 \in 1 .. Len(s)
  BY <1>1
<1>3. Front(s) \in Seq(S) /\ Len(Front(s)) = Len(s) - 1
  BY <1>2, Initial DEF Front
<1>4. SubSeq(s, 1, Len(s)) = SubSeq(s, 1, Len(s) - 1) \o <<s[Len(s)]>>
  BY <1>2, SubSeqRecursiveSecond
<1>5. SubSeq(s, 1, Len(s)) = s
  BY SubSeqFull
<1>6. Last(s) \in S
  BY <1>2 DEF Last
<1> QED
  BY <1>3, <1>4, <1>5, <1>6 DEF Front, Last

(* Where the elements of two sequences are in the one they are put together to. *)
Joined(c, a, b) ==
  /\ Len(a) \in Nat /\ Len(b) \in Nat /\ Len(c) = Len(a) + Len(b)
  /\ \A i \in 1 .. Len(a) : c[i] = a[i]
  /\ \A i \in 1 .. Len(b) : c[Len(a) + i] = b[i]

LEMMA JoinedIs ==
  ASSUME NEW S, NEW a \in Seq(S), NEW b \in Seq(S)
  PROVE  a \o b \in Seq(S) /\ Joined(a \o b, a, b)
<1> DEFINE c == a \o b
           n == Len(a)
           m == Len(b)
<1>1. n \in Nat /\ m \in Nat
  OBVIOUS
<1>2. /\ c \in Seq(S) /\ Len(c) = n + m
      /\ \A i \in 1 .. n + m : c[i] = IF i <= n THEN a[i] ELSE b[i - n]
  BY ConcatProperties
<1> HIDE DEF c, n, m
<1>3. ASSUME NEW i \in 1 .. n PROVE c[i] = a[i]
  <2>1. i \in 1 .. n + m /\ i <= n
    BY <1>1
  <2> QED
    BY <1>2, <2>1
<1>4. ASSUME NEW i \in 1 .. m PROVE c[n + i] = b[i]
  <2> DEFINE k == n + i
  <2>1. k \in 1 .. n + m /\ ~ (k <= n) /\ k - n = i
    BY <1>1
  <2> HIDE DEF k
  <2>2. c[k] = b[k - n]
    BY <1>2, <2>1
  <2> QED
    BY <2>1, <2>2 DEF k
<1> QED
  BY <1>1, <1>2, <1>3, <1>4 DEF Joined, c, n, m

(* The last of a sequence, told apart from the others. *)
LEMMA SameLast ==
  ASSUME NEW S, NEW s \in Seq(S), NEW t \in Seq(S), NEW x, NEW y, s \o <<x>> = t \o <<y>>
  PROVE  s = t /\ x = y
<1> DEFINE T == S \cup {x, y}
           u == s \o <<x>>
           v == t \o <<y>>
<1>1. s \in Seq(T) /\ t \in Seq(T) /\ <<x>> \in Seq(T) /\ <<y>> \in Seq(T)
  OBVIOUS
<1> HIDE DEF T
<1>2. Joined(u, s, <<x>>) /\ Joined(v, t, <<y>>) /\ u = v
  BY <1>1, JoinedIs
<1> HIDE DEF u, v
<1>3. Len(<<x>>) = 1 /\ Len(<<y>>) = 1 /\ <<x>>[1] = x /\ <<y>>[1] = y
  OBVIOUS
<1>4. Len(s) = Len(t) /\ 1 \in 1 .. 1
  BY <1>2, <1>3 DEF Joined
<1>5. s = t
  <2>1. \A i \in 1 .. Len(s) : s[i] = t[i]
    BY <1>2, <1>4 DEF Joined
  <2> QED
    BY <1>4, <2>1, SeqEqual
<1>6. u[Len(s) + 1] = x /\ v[Len(t) + 1] = y
  BY <1>2, <1>3, <1>4 DEF Joined
<1> QED
  BY <1>2, <1>4, <1>5, <1>6

(* The same for what is cut off at the front. *)
LEMMA RestIs ==
  ASSUME NEW S, NEW s \in Seq(S), NEW n \in 0 .. Len(s)
  PROVE  LET r == SubSeq(s, n + 1, Len(s))
         IN  r \in Seq(S) /\ Len(r) = Len(s) - n /\ \A i \in 1 .. Len(s) - n : r[i] = s[n + i]
<1> DEFINE l == Len(s)
           r == SubSeq(s, n + 1, l)
<1>1. n + 1 \in Int /\ l \in Int /\ l \in Nat /\ n \in 0 .. l /\ \A i \in n + 1 .. l : s[i] \in S
  OBVIOUS
<1>2. /\ r \in Seq(S) /\ Len(r) = IF n + 1 <= l THEN l - (n + 1) + 1 ELSE 0
      /\ \A i \in 1 .. l - (n + 1) + 1 : r[i] = s[n + 1 + i - 1]
  BY <1>1, SubSeqProperties
<1> HIDE DEF l, r
<1>3. Len(r) = l - n
  BY <1>1, <1>2
<1>4. ASSUME NEW i \in 1 .. l - n PROVE r[i] = s[n + i]
  <2>1. i \in 1 .. l - (n + 1) + 1
    BY <1>1
  <2>0. n + 1 + i - 1 = n + i
    BY <1>1
  <2>2. r[i] = s[n + 1 + i - 1]
    BY <1>2, <2>1, Zenon
  <2> QED
    BY <2>0, <2>2
<1> QED
  BY <1>2, <1>3, <1>4 DEF l, r

LEMMA SameBegin ==
  ASSUME NEW S, NEW a \in Seq(S), NEW p \in Seq(S), NEW f \in Seq(S), NEW x \in S,
         p # <<>>, Len(f) <= Len(a), a \o p = f \o <<x>>
  PROVE  a = f
<1> DEFINE u == a \o p
           v == f \o <<x>>
<1>1. Len(p) \in Nat /\ Len(p) # 0 /\ Len(<<x>>) = 1 /\ <<x>> \in Seq(S)
  BY EmptySeq
<1>2. Joined(u, a, p) /\ Joined(v, f, <<x>>) /\ u = v
  BY <1>1, JoinedIs
<1> HIDE DEF u, v
<1>3. Len(a) = Len(f)
  <2>1. Len(a) \in Nat /\ Len(f) \in Nat /\ Len(a) + Len(p) = Len(f) + 1
    BY <1>1, <1>2 DEF Joined
  <2> QED
    BY <1>1, <2>1
<1>4. \A i \in 1 .. Len(a) : a[i] = f[i]
  BY <1>2, <1>3 DEF Joined
<1> QED
  BY <1>3, <1>4, SeqEqual

LEMMA GreatestExists ==
  ASSUME NEW n \in Nat, NEW S \in SUBSET (0 .. n), S # {}
  PROVE  Max(S) \in S /\ \A x \in S : x <= Max(S)
<1>1. CASE S = {0}
  <2>1. Max(S) \in S /\ \A x \in S : Max(S) >= x
    <3>1. 0 \in S /\ \A y \in S : 0 >= y
      BY <1>1
    <3> QED
      BY <3>1 DEF Max
  <2> QED
    BY <1>1, <2>1
<1>2. CASE S # {0}
  <2> DEFINE T == S \ {0}
  <2>1. T \in SUBSET (1 .. n) /\ T # {}
    BY <1>2
  <2>2. Max(T) \in T /\ \A x \in T : x <= Max(T)
    <3> HIDE DEF T
    <3> QED
      BY <2>1, MaxExists
  <2> DEFINE m == Max(T)
  <2>3. m \in S /\ \A x \in S : m >= x
    <3>1. m \in T /\ \A x \in T : x <= m
      BY <2>2
    <3> HIDE DEF m
    <3>2. m \in 1 .. n
      BY <2>1, <3>1
    <3>3. ASSUME NEW x \in S PROVE m >= x
      <4>1. x = 0 \/ x \in T
        OBVIOUS
      <4> HIDE DEF T
      <4> QED
        BY <2>1, <3>1, <3>2, <4>1
    <3> QED
      BY <3>1, <3>3
  <2> HIDE DEF m, T
  <2>4. Max(S) \in S /\ \A x \in S : Max(S) >= x
    BY <2>3 DEF Max
  <2>5. S \in SUBSET Nat
    OBVIOUS
  <2> QED
    BY <2>4, <2>5
<1> QED
  BY <1>1, <1>2

(* Where two sequences part. *)
LEMMA SamePrefix ==
  ASSUME NEW S, NEW x \in Seq(S), NEW p \in Seq(S)
  PROVE  IsPrefix(x, p) <=> Len(x) <= Len(p) /\ x = SubSeq(p, 1, Len(x))
BY SubSeqFull DEF IsPrefix

Agree(p, q, l) == l \in 0 .. Len(p) /\ l <= Len(q) /\ SubSeq(p, 1, l) = SubSeq(q, 1, l)

LEMMA Parting ==
  ASSUME NEW S, NEW p \in Seq(S), NEW q \in Seq(S)
  PROVE  LET n == Len(LongestCommonPrefix({p, q}))
         IN  Agree(p, q, n) /\ \A l : Agree(p, q, l) => l <= n
<1> DEFINE CP == CommonPrefixes({p, q})
           L == {l \in 0 .. Len(p) : Agree(p, q, l)}
           m == Max(L)
<1>1. Len(p) \in Nat /\ Len(q) \in Nat /\ 0 \in 0 .. Len(p) /\ 0 \in 0 .. Len(q)
  OBVIOUS
<1>2. m \in L /\ \A l \in L : l <= m
  <2>1. SubSeq(p, 1, 0) = <<>> /\ SubSeq(q, 1, 0) = <<>>
    BY SubSeqEmpty
  <2>2. 0 \in L
    BY <1>1, <2>1 DEF Agree
  <2>3. L \in SUBSET (0 .. Len(p))
    OBVIOUS
  <2> HIDE DEF L
  <2> QED
    BY <1>1, <2>2, <2>3, GreatestExists
<1> HIDE DEF m
<1>3. ASSUME NEW x \in CP PROVE Len(x) \in L
  <2>1. x \in Prefixes(p) \cup Prefixes(q) /\ IsPrefix(x, p) /\ IsPrefix(x, q)
    BY <1>3 DEF CommonPrefixes
  <2>2. x \in Seq(S)
    BY <2>1, Initial DEF Prefixes
  <2>3. Len(x) <= Len(p) /\ Len(x) <= Len(q) /\ x = SubSeq(p, 1, Len(x)) /\ x = SubSeq(q, 1, Len(x))
    BY <2>1, <2>2, SamePrefix
  <2>4. Len(x) \in 0 .. Len(p)
    BY <2>2, <2>3
  <2> QED
    BY <2>3, <2>4 DEF Agree
<1>4. SubSeq(p, 1, m) \in CP /\ Len(SubSeq(p, 1, m)) = m
  <2> DEFINE x == SubSeq(p, 1, m)
  <2>1. m \in 0 .. Len(p) /\ m <= Len(q) /\ x = SubSeq(q, 1, m) /\ m <= Len(p)
    BY <1>2 DEF Agree
  <2>2. x \in Seq(S) /\ Len(x) = m
    BY <2>1, Initial
  <2>3. x \in Prefixes(p)
    BY <2>1 DEF Prefixes
  <2> HIDE DEF x
  <2>4. IsPrefix(x, p) /\ IsPrefix(x, q)
    BY <2>1, <2>2, SamePrefix DEF x
  <2> QED
    BY <2>2, <2>3, <2>4 DEF CommonPrefixes, x
<1> DEFINE Longest(x) == \A other \in CP : Len(other) <= Len(x)
           c == LongestCommonPrefix({p, q})
           n == Len(c)
<1>5. Longest(SubSeq(p, 1, m))
  BY <1>2, <1>3, <1>4
<1>6. c \in CP /\ Longest(c)
  <2>1. c = CHOOSE x \in CP : Longest(x)
    BY DEF LongestCommonPrefix
  <2> HIDE DEF CP, Longest, c
  <2> QED
    BY <1>4, <1>5, <2>1
<1> HIDE DEF c, CP, L
<1>7. n \in L /\ m <= n
  BY <1>3, <1>4, <1>6
<1>8. n = m
  <2>1. n <= m /\ n \in 0 .. Len(p) /\ m \in 0 .. Len(p)
    BY <1>2, <1>7 DEF L
  <2> HIDE DEF n
  <2> QED
    BY <1>1, <1>7, <2>1
<1>9. Agree(p, q, n)
  BY <1>7 DEF L
<1>10. \A l : Agree(p, q, l) => l \in L
  BY DEF Agree, L
<1> QED
  BY <1>2, <1>8, <1>9, <1>10 DEF c, n

LEMMA PartedNames ==
  ASSUME NEW S, NEW p \in Seq(S), NEW q \in Seq(S), NEW n, Agree(p, q, n),
         \A l : Agree(p, q, l) => l <= n, n < Len(p), n < Len(q)
  PROVE  p[n + 1] # q[n + 1]
<1> SUFFICES ASSUME p[n + 1] = q[n + 1] PROVE FALSE
  OBVIOUS
<1> DEFINE e == n + 1
<1>1. /\ e \in 1 .. Len(p) /\ e \in 1 .. Len(q) /\ 1 \in 1 .. Len(p) /\ 1 \in 1 .. Len(q)
      /\ e - 1 = n /\ e \in 0 .. Len(p) /\ e <= Len(q) /\ ~ (e <= n)
  BY DEF Agree
<1> HIDE DEF e
<1>2. SubSeq(p, 1, e) = SubSeq(p, 1, e - 1) \o <<p[e]>>
  BY <1>1, SubSeqRecursiveSecond
<1>3. SubSeq(q, 1, e) = SubSeq(q, 1, e - 1) \o <<q[e]>>
  BY <1>1, SubSeqRecursiveSecond
<1>4. SubSeq(p, 1, e) = SubSeq(q, 1, e)
  BY <1>1, <1>2, <1>3 DEF Agree, e
<1> QED
  BY <1>1, <1>4 DEF Agree

LEMMA OneFurther ==
  ASSUME NEW S, NEW p \in Seq(S), NEW n \in Nat, n < Len(p)
  PROVE  Append(SubSeq(p, 1, n), p[n + 1]) = SubSeq(p, 1, n + 1)
<1> DEFINE e == n + 1
           x == SubSeq(p, 1, n)
<1>1. e \in 1 .. Len(p) /\ 1 \in 1 .. Len(p) /\ e - 1 = n /\ n \in 0 .. Len(p)
  OBVIOUS
<1> HIDE DEF e
<1>2. SubSeq(p, 1, e) = SubSeq(p, 1, e - 1) \o <<p[e]>>
  BY <1>1, SubSeqRecursiveSecond
<1>3. x \in Seq(S) /\ p[e] \in S
  BY <1>1, Initial
<1> HIDE DEF x
<1>4. Append(x, p[e]) = x \o <<p[e]>>
  BY <1>3, AppendIsConcat
<1> QED
  BY <1>1, <1>2, <1>4 DEF x, e
-----------------------------------------------------------------------------
(* Putting sequences together that were put together before. *)
LEMMA JoinAssoc ==
  ASSUME NEW S, NEW a \in Seq(S), NEW b \in Seq(S), NEW c \in Seq(S)
  PROVE  a \o (b \o c) = (a \o b) \o c
OBVIOUS

LEMMA JoinOn ==
  ASSUME NEW S, NEW p \in Seq(S), NEW q \in Seq(S)
  PROVE  /\ p \o q \in Seq(S) /\ Len(p \o q) = Len(p) + Len(q)
         /\ \A i \in 1 .. Len(p) : (p \o q)[i] = p[i]
         /\ \A i \in 1 .. Len(q) : (p \o q)[Len(p) + i] = q[i]
OBVIOUS

LEMMA FlattenEmpty ==
  ASSUME NEW S, NEW seqs \in Seq(Seq(S))
  PROVE  Len(seqs) = 0 => FlattenSeq(seqs) = <<>>
<1>1. PICK g \in [0 .. Len(seqs) -> Seq(S)] :
        /\ g[0] = <<>> /\ FlattenSeq(seqs) = g[Len(seqs)]
        /\ \A i \in 1 .. Len(seqs) : g[i] = g[i - 1] \o seqs[i]
  BY FlattenSteps
<1> QED BY <1>1

LEMMA FlattenNone == FlattenSeq(<<>>) = <<>>
<1>1. <<>> \in Seq(Seq(Int)) /\ Len(<<>>) = 0
  OBVIOUS
<1> QED BY <1>1, FlattenEmpty

LEMMA FlattenFew ==
  ASSUME NEW S, NEW s \in Seq(S)
  PROVE  FlattenSeq(<<s>>) = s
<1> DEFINE seqs == <<s>>
<1>1. seqs \in Seq(Seq(S)) /\ Len(seqs) = 1 /\ seqs[1] = s
  OBVIOUS
<1> HIDE DEF seqs
<1>2. PICK g \in [0 .. Len(seqs) -> Seq(S)] :
        /\ g[0] = <<>> /\ FlattenSeq(seqs) = g[Len(seqs)]
        /\ \A i \in 1 .. Len(seqs) : g[i] = g[i - 1] \o seqs[i]
  BY <1>1, FlattenSteps
<1>3. FlattenSeq(seqs) = g[1]
  BY <1>1, <1>2
<1>4. g[1] = <<>> \o s
  <2>1. 1 \in 1 .. Len(seqs) /\ 1 - 1 = 0
    BY <1>1
  <2>2. g[1] = g[0] \o seqs[1]
    BY <1>2, <2>1
  <2> QED BY <1>1, <1>2, <2>2
<1>5. <<>> \o s = s
  BY ConcatEmptySeq
<1>6. FlattenSeq(seqs) = s
  BY <1>3, <1>4, <1>5
<1> QED BY <1>6 DEF seqs

(* What is put in front of a sequence does not change how it is put together. *)
LEMMA FlattenJoin ==
  ASSUME NEW S, NEW p \in Seq(Seq(S)), NEW q \in Seq(Seq(S))
  PROVE  FlattenSeq(p \o q) = FlattenSeq(p) \o FlattenSeq(q)
<1> DEFINE r == p \o q
           k == Len(p)
           l == Len(q)
<1>1. r \in Seq(Seq(S)) /\ Len(r) = k + l /\ k \in Nat /\ l \in Nat
      /\ (\A i \in 1 .. k : r[i] = p[i]) /\ (\A i \in 1 .. l : r[k + i] = q[i])
  BY JoinOn
<1>2. PICK g \in [0 .. Len(r) -> Seq(S)] :
        /\ g[0] = <<>> /\ FlattenSeq(r) = g[Len(r)]
        /\ \A i \in 1 .. Len(r) : g[i] = g[i - 1] \o r[i]
  <2>1. r \in Seq(Seq(S))
    BY <1>1
  <2> HIDE DEF r, k, l
  <2> QED BY <2>1, FlattenSteps
<1>3. PICK gp \in [0 .. k -> Seq(S)] :
        /\ gp[0] = <<>> /\ FlattenSeq(p) = gp[k]
        /\ \A i \in 1 .. k : gp[i] = gp[i - 1] \o p[i]
  BY FlattenSteps
<1>4. PICK gq \in [0 .. l -> Seq(S)] :
        /\ gq[0] = <<>> /\ FlattenSeq(q) = gq[l]
        /\ \A i \in 1 .. l : gq[i] = gq[i - 1] \o q[i]
  BY FlattenSteps
<1> HIDE DEF r, k, l
<1> DEFINE T == {i \in Nat : i <= k => g[i] = gp[i]}
           Same(i) == i <= l => g[k + i] = gp[k] \o gq[i]
           U == {i \in Nat : Same(i)}
<1>5. k \in T
  <2>1. 0 \in T
    BY <1>2, <1>3
  <2>2. ASSUME NEW i \in Nat, i \in T PROVE i + 1 \in T
    <3> SUFFICES ASSUME i + 1 <= k PROVE g[i + 1] = gp[i + 1]
      OBVIOUS
    <3>1. i <= k /\ Len(r) = k + l /\ k \in Nat /\ l \in Nat
      BY <1>1
    <3>2. g[i] = gp[i]
      BY <2>2, <3>1
    <3> HIDE DEF T
    <3>3. i + 1 \in 1 .. Len(r) /\ i + 1 \in 1 .. k /\ (i + 1) - 1 = i
      BY <3>1
    <3> QED BY <1>1, <1>2, <1>3, <3>2, <3>3
  <2> HIDE DEF T
  <2> QED BY <1>1, <2>1, <2>2, NatSetInduction
<1>6. l \in U
  <2>1. Same(0)
    <3>1. k \in Nat /\ k + 0 = k /\ gp[k] \in Seq(S) /\ g[k] = gp[k]
      BY <1>1, <1>5
    <3>2. gp[k] \o <<>> = gp[k]
      BY <3>1, ConcatEmptySeq
    <3> QED BY <1>4, <3>1, <3>2
  <2>2. ASSUME NEW i \in Nat, Same(i), i + 1 <= l PROVE g[k + (i + 1)] = gp[k] \o gq[i + 1]
    <3>1. /\ k + (i + 1) \in 1 .. Len(r) /\ i + 1 \in 1 .. l /\ (k + (i + 1)) - 1 = k + i
          /\ (i + 1) - 1 = i /\ i \in 0 .. l /\ k \in 0 .. k /\ i <= l
      BY <1>1, <2>2
    <3>2. g[k + i] = gp[k] \o gq[i]
      BY <2>2, <3>1
    <3>3. g[k + (i + 1)] = (gp[k] \o gq[i]) \o q[i + 1]
      <4>1. g[k + (i + 1)] = g[k + i] \o r[k + (i + 1)] /\ r[k + (i + 1)] = q[i + 1]
        BY <1>1, <1>2, <3>1
      <4> QED BY <3>2, <4>1
    <3>4. gq[i + 1] = gq[i] \o q[i + 1]
      BY <1>4, <3>1
    <3>5. gp[k] \in Seq(S) /\ gq[i] \in Seq(S) /\ q[i + 1] \in Seq(S)
      <4>1. i + 1 \in 1 .. Len(q)
        BY <3>1 DEF l
      <4>2. q[i + 1] \in Seq(S)
        BY <4>1, ElementOfSeq
      <4> QED BY <3>1, <4>2
    <3>6. gp[k] \o (gq[i] \o q[i + 1]) = (gp[k] \o gq[i]) \o q[i + 1]
      <4> DEFINE x == gp[k]  y == gq[i]  z == q[i + 1]
      <4>1. x \in Seq(S) /\ y \in Seq(S) /\ z \in Seq(S)
        BY <3>5
      <4> HIDE DEF x, y, z
      <4>2. x \o (y \o z) = (x \o y) \o z
        BY <4>1, JoinAssoc
      <4> QED BY <4>2 DEF x, y, z
    <3> QED BY <3>3, <3>4, <3>6
  <2>3. \A i \in Nat : Same(i) => Same(i + 1)
    BY <2>2
  <2> HIDE DEF Same
  <2>4. 0 \in U /\ \A i \in Nat : i \in U => i + 1 \in U
    BY <2>1, <2>3
  <2> HIDE DEF U
  <2> QED BY <1>1, <2>4, NatSetInduction
<1>7. g[k + l] = gp[k] \o gq[l]
  <2>1. Same(l)
    <3> HIDE DEF Same
    <3> QED BY <1>6
  <2> QED BY <1>1, <2>1
<1> QED BY <1>1, <1>2, <1>3, <1>4, <1>7 DEF r

(* Sequences of sequences can be put together in either order. *)
LEMMA FlattenFlatten ==
  ASSUME NEW S, NEW seqs \in Seq(Seq(Seq(S)))
  PROVE  FlattenSeq(FlattenSeq(seqs)) = FlattenSeq([i \in DOMAIN seqs |-> FlattenSeq(seqs[i])])
<1> DEFINE n == Len(seqs)
           flat == [i \in DOMAIN seqs |-> FlattenSeq(seqs[i])]
<1>1. n \in Nat /\ DOMAIN seqs = 1 .. n /\ \A i \in 1 .. n : seqs[i] \in Seq(Seq(S))
  OBVIOUS
<1>2. \A i \in 1 .. n : FlattenSeq(seqs[i]) \in Seq(S)
  BY <1>1, FlattenPlaces
<1>3. flat \in Seq(Seq(S)) /\ Len(flat) = n /\ \A i \in 1 .. n : flat[i] = FlattenSeq(seqs[i])
  BY <1>1, <1>2
<1>4. PICK g \in [0 .. n -> Seq(Seq(S))] :
        /\ g[0] = <<>> /\ FlattenSeq(seqs) = g[n]
        /\ \A i \in 1 .. n : g[i] = g[i - 1] \o seqs[i]
  <2>1. seqs \in Seq(Seq(Seq(S)))
    OBVIOUS
  <2> QED BY <2>1, FlattenSteps
<1>5. PICK h \in [0 .. n -> Seq(S)] :
        /\ h[0] = <<>> /\ FlattenSeq(flat) = h[n]
        /\ \A i \in 1 .. n : h[i] = h[i - 1] \o flat[i]
  <2> HIDE DEF flat, n
  <2> QED BY <1>3, FlattenSteps
<1> HIDE DEF n, flat
<1> DEFINE T == {i \in Nat : i <= n => FlattenSeq(g[i]) = h[i]}
<1>6. 0 \in T
  <2>2. FlattenSeq(<<>>) = <<>>
    BY FlattenNone
  <2> QED BY <1>4, <1>5, <2>2
<1>7. ASSUME NEW i \in Nat, i \in T PROVE i + 1 \in T
  <2> SUFFICES ASSUME i + 1 <= n PROVE FlattenSeq(g[i + 1]) = h[i + 1]
    OBVIOUS
  <2>1. i + 1 \in 1 .. n /\ (i + 1) - 1 = i /\ i \in 0 .. n /\ FlattenSeq(g[i]) = h[i]
    BY <1>1, <1>7
  <2>2. g[i + 1] = g[i] \o seqs[i + 1] /\ h[i + 1] = h[i] \o FlattenSeq(seqs[i + 1])
    BY <1>3, <1>4, <1>5, <2>1
  <2>3. g[i] \in Seq(Seq(S)) /\ seqs[i + 1] \in Seq(Seq(S))
    BY <1>1, <2>1
  <2>4. FlattenSeq(g[i] \o seqs[i + 1]) = FlattenSeq(g[i]) \o FlattenSeq(seqs[i + 1])
    BY <2>3, FlattenJoin
  <2> QED BY <2>1, <2>2, <2>4
<1> HIDE DEF T
<1>8. n \in T
  BY <1>1, <1>6, <1>7, NatSetInduction
<1> QED BY <1>1, <1>4, <1>5, <1>8 DEF T, flat
-----------------------------------------------------------------------------
(***************************************************************************)
(* Numbers and their digits: each is what the other says, whatever the     *)
(* base and however many digits there are.                                 *)
(***************************************************************************)
(* The recursive functions on digits: what each element is. *)
AreShifts(rest, n, base, count) ==
  /\ rest \in [0 .. count -> Int] /\ rest[0] = n
  /\ \A i \in 1 .. count : rest[i] = rest[i - 1] \div base

LEMMA ShiftsAre ==
  ASSUME NEW base \in Nat \ {0}, NEW n \in Int, NEW count \in Nat
  PROVE  AreShifts(Shifts(n, base, count), n, base, count)
<1> DEFINE Solves(g) == g = [i \in 0 .. count |-> IF i = 0 THEN n ELSE g[i - 1] \div base]
           step == [i \in 1 .. count |-> [x \in Int |-> x \div base]]
<1>0. \A x \in Int : x \div base \in Int
  OBVIOUS
<1>1. step \in [1 .. count -> [Int -> Int]]
  BY <1>0
<1>2. PICK g \in [0 .. count -> Int] : Iterates(g, count, n, step)
  <2> HIDE DEF step
  <2> QED BY <1>1, Recursion, Zenon
<1>3. \A i \in 1 .. count : step[i][g[i - 1]] = g[i - 1] \div base
  OBVIOUS
<1>4. Solves(g)
  <2> HIDE DEF step
  <2> QED BY <1>2, <1>3 DEF Iterates
<1> DEFINE rest == CHOOSE f : Solves(f)
<1>5. Shifts(n, base, count) = rest
  BY DEF Shifts
<1>6. Solves(rest)
  <2> HIDE DEF Solves
  <2> QED BY <1>4
<1> HIDE DEF rest
<1> DEFINE T == {k \in Nat : k <= count => rest[k] \in Int}
<1>7. 0 \in T
  BY <1>6
<1>8. \A k \in Nat : k \in T => k + 1 \in T
  <2> SUFFICES ASSUME NEW k \in Nat, k \in T, k + 1 <= count PROVE rest[k + 1] \in Int
    OBVIOUS
  <2>1. rest[k] \in Int /\ k + 1 \in 0 .. count /\ (k + 1) - 1 = k /\ k + 1 # 0
    OBVIOUS
  <2>2. rest[k + 1] = rest[k] \div base
    BY <1>6, <2>1
  <2> HIDE DEF Solves
  <2> QED BY <1>0, <2>1, <2>2
<1> HIDE DEF T
<1>9. Nat \subseteq T
  BY <1>7, <1>8, NatSetInduction
<1>10. \A i \in 0 .. count : rest[i] \in Int
  BY <1>9 DEF T
<1>11. ASSUME NEW i \in 1 .. count PROVE rest[i] = rest[i - 1] \div base
  <2>1. i \in 0 .. count /\ i # 0
    OBVIOUS
  <2> QED BY <1>6, <2>1
<1>12. rest[0] = n /\ rest = [i \in 0 .. count |-> rest[i]]
  BY <1>6
<1> HIDE DEF Solves
<1> QED BY <1>5, <1>10, <1>11, <1>12 DEF AreShifts

LEMMA ShiftsNat ==
  ASSUME NEW base \in Nat \ {0}, NEW n \in Nat, NEW count \in Nat
  PROVE  Shifts(n, base, count) \in [0 .. count -> Nat]
<1>0. n \in Int
  OBVIOUS
<1> DEFINE rest == Shifts(n, base, count)
<1>1. /\ rest \in [0 .. count -> Int] /\ rest[0] = n
      /\ \A i \in 1 .. count : rest[i] = rest[i - 1] \div base
  BY <1>0, ShiftsAre DEF AreShifts
<1> HIDE DEF rest
<1> DEFINE T == {k \in Nat : k <= count => rest[k] \in Nat}
<1>2. 0 \in T
  BY <1>1
<1>3. ASSUME NEW k \in Nat, k \in T PROVE k + 1 \in T
  <2> SUFFICES ASSUME k + 1 <= count PROVE rest[k + 1] \in Nat
    OBVIOUS
  <2>1. rest[k] \in Nat /\ k + 1 \in 1 .. count /\ (k + 1) - 1 = k
    BY <1>3
  <2>2. \A x \in Nat : x \div base \in Nat
    OBVIOUS
  <2> QED BY <1>1, <2>1, <2>2
<1> HIDE DEF T
<1>4. Nat \subseteq T
  BY <1>2, <1>3, NatSetInduction
<1>5. \A k \in 0 .. count : rest[k] \in Nat
  BY <1>4 DEF T
<1> QED BY <1>1, <1>5 DEF rest

AreSums(above, digits, base, count) ==
  /\ above[0] = 0
  /\ \A i \in 1 .. count : above[i] = digits[count + 1 - i] + base * above[i - 1]

LEMMA FromDigitsIs ==
  ASSUME NEW base \in Nat, NEW count \in Nat, NEW digits \in [1 .. count -> Nat]
  PROVE  \E above \in [0 .. count -> Nat] :
           /\ FromDigits(digits, base, count) = above[count]
           /\ AreSums(above, digits, base, count)
<1> DEFINE Solves(g) == g = [i \in 0 .. count |-> IF i = 0 THEN 0
                                                  ELSE digits[count + 1 - i] + base * g[i - 1]]
           step == [i \in 1 .. count |-> [x \in Nat |-> digits[count + 1 - i] + base * x]]
<1>0. ASSUME NEW i \in 1 .. count, NEW x \in Nat PROVE digits[count + 1 - i] + base * x \in Nat
  <2>1. digits[count + 1 - i] \in Nat /\ base * x \in Nat
    OBVIOUS
  <2> QED BY <2>1
<1>1. step \in [1 .. count -> [Nat -> Nat]]
  BY <1>0
<1>2. PICK g \in [0 .. count -> Nat] : Iterates(g, count, 0, step)
  <2>1. 0 \in Nat
    OBVIOUS
  <2> HIDE DEF step
  <2> QED BY <1>1, <2>1, Recursion, Zenon
<1>3. \A i \in 0 .. count : i # 0 => step[i][g[i - 1]] = digits[count + 1 - i] + base * g[i - 1]
  OBVIOUS
<1>4. Solves(g)
  <2> HIDE DEF step
  <2> QED BY <1>2, <1>3 DEF Iterates
<1> DEFINE above == CHOOSE f : Solves(f)
<1>5. FromDigits(digits, base, count) = above[count]
  BY DEF FromDigits
<1>6. Solves(above)
  <2> HIDE DEF Solves
  <2> QED BY <1>4
<1> HIDE DEF above
<1> DEFINE T == {k \in Nat : k <= count => above[k] \in Nat}
<1>7. 0 \in T
  BY <1>6
<1>8. \A k \in Nat : k \in T => k + 1 \in T
  <2> SUFFICES ASSUME NEW k \in Nat, k \in T, k + 1 <= count PROVE above[k + 1] \in Nat
    OBVIOUS
  <2>1. above[k] \in Nat /\ k + 1 \in 0 .. count /\ (k + 1) - 1 = k /\ k + 1 # 0
    OBVIOUS
  <2>2. above[k + 1] = digits[count + 1 - (k + 1)] + base * above[k]
    BY <1>6, <2>1
  <2>3. k + 1 \in 1 .. count
    OBVIOUS
  <2> HIDE DEF Solves
  <2> QED BY <1>0, <2>1, <2>2, <2>3
<1> HIDE DEF T
<1>9. Nat \subseteq T
  BY <1>7, <1>8, NatSetInduction
<1>10. \A i \in 0 .. count : above[i] \in Nat
  BY <1>9 DEF T
<1>11. ASSUME NEW i \in 1 .. count
       PROVE  above[i] = digits[count + 1 - i] + base * above[i - 1]
  <2>1. i \in 0 .. count /\ i # 0
    OBVIOUS
  <2> QED BY <1>6, <2>1
<1>12. above[0] = 0 /\ above = [i \in 0 .. count |-> above[i]]
  BY <1>6
<1> HIDE DEF Solves
<1>13. above \in [0 .. count -> Nat]
  BY <1>10, <1>12
<1> QED BY <1>5, <1>11, <1>12, <1>13 DEF AreSums

LEMMA PowerIs ==
  ASSUME NEW base \in Nat \ {0}, NEW count \in Nat
  PROVE  \E power \in [0 .. count -> Nat \ {0}] :
           /\ power[0] = 1 /\ Power(base, count) = power[count]
           /\ \A i \in 1 .. count : power[i] = base * power[i - 1]
<1> DEFINE Solves(g) == g = [i \in 0 .. count |-> IF i = 0 THEN 1 ELSE base * g[i - 1]]
           P == Nat \ {0}
           step == [i \in 1 .. count |-> [x \in P |-> base * x]]
<1>0. \A x \in P : base * x \in P
  OBVIOUS
<1>1. step \in [1 .. count -> [P -> P]]
  <2> HIDE DEF P
  <2> QED BY <1>0
<1>2. PICK g \in [0 .. count -> P] : Iterates(g, count, 1, step)
  <2>1. 1 \in P
    OBVIOUS
  <2> HIDE DEF step, P
  <2> QED BY <1>1, <2>1, Recursion, Zenon
<1>3. \A i \in 1 .. count : step[i][g[i - 1]] = base * g[i - 1]
  <2> HIDE DEF P
  <2> QED OBVIOUS
<1>4. Solves(g)
  <2> HIDE DEF step
  <2> QED BY <1>2, <1>3 DEF Iterates
<1> DEFINE power == CHOOSE f : Solves(f)
<1>5. Power(base, count) = power[count]
  BY DEF Power
<1>6. Solves(power)
  <2> HIDE DEF Solves
  <2> QED BY <1>4
<1> HIDE DEF power
<1> DEFINE T == {k \in Nat : k <= count => power[k] \in P}
<1>7. 0 \in T
  BY <1>6
<1>8. \A k \in Nat : k \in T => k + 1 \in T
  <2> SUFFICES ASSUME NEW k \in Nat, k \in T, k + 1 <= count PROVE power[k + 1] \in P
    OBVIOUS
  <2>1. power[k] \in P /\ k + 1 \in 0 .. count /\ (k + 1) - 1 = k /\ k + 1 # 0
    OBVIOUS
  <2>2. power[k + 1] = base * power[k]
    BY <1>6, <2>1
  <2> HIDE DEF Solves, P
  <2> QED BY <1>0, <2>1, <2>2
<1> HIDE DEF T
<1>9. Nat \subseteq T
  BY <1>7, <1>8, NatSetInduction
<1>10. \A i \in 0 .. count : power[i] \in P
  BY <1>9 DEF T
<1>11. ASSUME NEW i \in 1 .. count PROVE power[i] = base * power[i - 1]
  <2>1. i \in 0 .. count /\ i # 0
    OBVIOUS
  <2> QED BY <1>6, <2>1
<1>12. power[0] = 1 /\ power = [i \in 0 .. count |-> power[i]]
  BY <1>6
<1> HIDE DEF Solves, P
<1>13. power \in [0 .. count -> P]
  BY <1>10, <1>12
<1> QED BY <1>5, <1>11, <1>12, <1>13 DEF P

LEMMA DigitsType ==
  ASSUME NEW base \in Nat \ {0}, NEW n \in Int, NEW count \in Nat
  PROVE  /\ DigitsOf(n, base, count) \in [1 .. count -> 0 .. base - 1]
         /\ \A i \in 1 .. count :
              DigitsOf(n, base, count)[i] = Shifts(n, base, count)[i - 1] % base
<1> DEFINE rest == Shifts(n, base, count)
<1>1. \A i \in 1 .. count : rest[i - 1] \in Int
  <2>1. rest \in [0 .. count -> Int]
    BY ShiftsAre DEF AreShifts
  <2> HIDE DEF rest
  <2> QED BY <2>1
<1>2. DigitsOf(n, base, count) = [i \in 1 .. count |-> rest[i - 1] % base]
  BY DEF DigitsOf
<1> HIDE DEF rest
<1>3. \A x \in Int : x % base \in 0 .. base - 1
  OBVIOUS
<1> QED BY <1>1, <1>2, <1>3 DEF rest

(* A number of fewer digits is gone after so many shifts. *)
LEMMA ShiftsEnd ==
  ASSUME NEW base \in Nat \ {0}, NEW n \in Nat, NEW count \in Nat, n < Power(base, count)
  PROVE  Shifts(n, base, count)[count] = 0
<1>0. n \in Int
  OBVIOUS
<1> DEFINE rest == Shifts(n, base, count)
<1>1. /\ rest \in [0 .. count -> Nat] /\ rest[0] = n
      /\ \A i \in 1 .. count : rest[i] = rest[i - 1] \div base
  BY <1>0, ShiftsAre, ShiftsNat DEF AreShifts
<1>2. PICK power \in [0 .. count -> Nat \ {0}] :
        /\ power[0] = 1 /\ Power(base, count) = power[count]
        /\ \A i \in 1 .. count : power[i] = base * power[i - 1]
  BY PowerIs
<1> HIDE DEF rest
<1> DEFINE T == {k \in Nat : k <= count => rest[k] * power[k] <= n}
<1>3. 0 \in T
  BY <1>1, <1>2
<1>4. ASSUME NEW k \in Nat, k \in T PROVE k + 1 \in T
  <2> SUFFICES ASSUME k + 1 <= count PROVE rest[k + 1] * power[k + 1] <= n
    OBVIOUS
  <2> DEFINE r == rest[k]  p == power[k]  q == rest[k + 1]
  <2>1. r \in Nat /\ p \in Nat /\ r * p <= n /\ q \in Nat /\ k + 1 \in 1 .. count /\ (k + 1) - 1 = k
    BY <1>1, <1>2, <1>4
  <2>2. q = r \div base /\ power[k + 1] = base * p
    BY <1>1, <1>2, <2>1
  <2> HIDE DEF r, p, q
  <2>3. q * base <= r
    BY <2>1, <2>2
  <2>4. (q * base) * p <= r * p
    BY <2>1, <2>3
  <2>5. q * (base * p) = (q * base) * p
    BY <2>1
  <2>6. q * (base * p) \in Int /\ (q * base) * p \in Int /\ r * p \in Int
    BY <2>1
  <2>7. q * (base * p) <= n
    BY <2>1, <2>4, <2>5, <2>6
  <2> QED BY <2>2, <2>7 DEF q
<1> HIDE DEF T
<1>5. count \in T
  BY <1>3, <1>4, NatSetInduction
<1>6. rest[count] * power[count] <= n
  BY <1>5 DEF T
<1> DEFINE r == rest[count]  p == power[count]
<1>7. r \in Nat /\ p \in Nat /\ n < p
  BY <1>1, <1>2
<1>8. r * p <= n
  BY <1>6
<1> HIDE DEF r, p
<1>9. ASSUME r >= 1 PROVE FALSE
  <2>1. r * p >= p
    BY <1>7, <1>9
  <2> QED BY <1>7, <1>8, <2>1
<1> QED BY <1>7, <1>9 DEF r, rest

(* The first of the shifts do not depend on how many there are. *)
LEMMA ShiftsShorter ==
  ASSUME NEW base \in Nat \ {0}, NEW n \in Nat, NEW count \in Nat, NEW k \in 0 .. count
  PROVE  Shifts(n, base, k)[k] = Shifts(n, base, count)[k]
<1>0. n \in Int
  OBVIOUS
<1> DEFINE f == Shifts(n, base, k)  g == Shifts(n, base, count)
<1>1. /\ f[0] = n /\ \A i \in 1 .. k : f[i] = f[i - 1] \div base
      /\ g[0] = n /\ \A i \in 1 .. count : g[i] = g[i - 1] \div base
  <2>1. k \in Nat
    OBVIOUS
  <2>2. f[0] = n /\ \A i \in 1 .. k : f[i] = f[i - 1] \div base
    BY <2>1, <1>0, ShiftsAre DEF AreShifts
  <2>3. g[0] = n /\ \A i \in 1 .. count : g[i] = g[i - 1] \div base
    BY <1>0, ShiftsAre DEF AreShifts
  <2> HIDE DEF f, g
  <2> QED BY <2>2, <2>3
<1> HIDE DEF f, g
<1> DEFINE T == {i \in Nat : i <= k => f[i] = g[i]}
<1>2. 0 \in T
  BY <1>1
<1>3. ASSUME NEW i \in Nat, i \in T PROVE i + 1 \in T
  <2> SUFFICES ASSUME i + 1 <= k PROVE f[i + 1] = g[i + 1]
    OBVIOUS
  <2>1. f[i] = g[i] /\ i + 1 \in 1 .. k /\ i + 1 \in 1 .. count /\ (i + 1) - 1 = i
    BY <1>3
  <2> QED BY <1>1, <2>1
<1> HIDE DEF T
<1>4. k \in T
  BY <1>2, <1>3, NatSetInduction
<1> QED BY <1>4 DEF T, f, g

(* A number and its digits. *)
LEMMA DigitsBack ==
  ASSUME NEW base \in Nat \ {0}, NEW n \in Nat, NEW count \in Nat,
         Shifts(n, base, count)[count] = 0
  PROVE  FromDigits(DigitsOf(n, base, count), base, count) = n
<1>0. n \in Int
  OBVIOUS
<1> DEFINE rest == Shifts(n, base, count)
<1>1. /\ rest \in [0 .. count -> Nat] /\ rest[0] = n
      /\ \A i \in 1 .. count : rest[i] = rest[i - 1] \div base
  <2>1. AreShifts(rest, n, base, count) /\ rest \in [0 .. count -> Nat]
    BY <1>0, ShiftsAre, ShiftsNat
  <2> QED BY <2>1 DEF AreShifts
<1> DEFINE digits == DigitsOf(n, base, count)
<1>2. /\ digits \in [1 .. count -> 0 .. base - 1]
      /\ \A i \in 1 .. count : digits[i] = rest[i - 1] % base
  BY <1>0, DigitsType
<1>3. digits \in [1 .. count -> Nat]
  <2> HIDE DEF digits
  <2> QED BY <1>2
<1>a. rest[count] = 0
  OBVIOUS
<1> HIDE DEF rest, digits
<1>4. PICK above \in [0 .. count -> Nat] :
        FromDigits(digits, base, count) = above[count] /\ AreSums(above, digits, base, count)
  <2>1. base \in Nat
    OBVIOUS
  <2> QED BY <1>3, <2>1, FromDigitsIs
<1> DEFINE T == {k \in Nat : k <= count => above[k] = rest[count - k]}
<1>5. 0 \in T
  BY <1>a, <1>4 DEF AreSums
<1>6. ASSUME NEW k \in Nat, k \in T PROVE k + 1 \in T
  <2> SUFFICES ASSUME k + 1 <= count PROVE above[k + 1] = rest[count - (k + 1)]
    OBVIOUS
  <2> DEFINE j == count - k  r == rest[j - 1]
  <2>1. /\ j \in 1 .. count /\ j - 1 = count - (k + 1) /\ count + 1 - (k + 1) = j
        /\ k + 1 \in 1 .. count /\ (k + 1) - 1 = k /\ j - 1 \in 0 .. count
    OBVIOUS
  <2>2. above[k] = rest[j]
    BY <1>6
  <2>3. above[k + 1] = digits[j] + base * rest[j]
    BY <1>4, <2>1, <2>2 DEF AreSums
  <2>4. digits[j] = r % base /\ rest[j] = r \div base /\ r \in Nat
    BY <1>1, <1>2, <2>1
  <2> HIDE DEF r
  <2>5. r = (r % base) + base * (r \div base)
    BY <2>4
  <2> QED BY <2>1, <2>3, <2>4, <2>5 DEF r
<1> HIDE DEF T
<1>7. count \in T
  BY <1>5, <1>6, NatSetInduction
<1>8. above[count] = rest[0]
  BY <1>7 DEF T
<1>9. FromDigits(digits, base, count) = n
  BY <1>1, <1>4, <1>8
<1> QED BY <1>9 DEF digits

(* What multiplying and adding a remainder made, dividing takes apart. *)
LEMMA DivideBack ==
  ASSUME NEW base \in Nat \ {0}, NEW a \in Nat, NEW d \in 0 .. base - 1
  PROVE  (d + base * a) \div base = a /\ (d + base * a) % base = d
<1> DEFINE x == d + base * a  q == x \div base  r == x % base
<1>1. x \in Nat /\ base * a \in Int
  <2>1. base * a \in Nat
    OBVIOUS
  <2> QED BY <2>1
<1>2. x = base * q + r /\ q \in Nat /\ r \in 0 .. base - 1
  <2> HIDE DEF x
  <2> QED BY <1>1
<1>3. base * a - base * q = r - d
  <2>1. base * q \in Int
    BY <1>2
  <2>2. base * a + d = base * q + r
    BY <1>2
  <2> HIDE DEF x, q, r
  <2> QED BY <1>1, <1>2, <2>1, <2>2
<1> HIDE DEF x, q, r
<1>4. base * a - base * q = base * (a - q)
  BY <1>2
<1>5. CASE a > q
  <2>1. base * (a - q) >= base
    BY <1>2, <1>5
  <2> QED BY <1>2, <1>3, <1>4, <2>1
<1>6. CASE a < q
  <2>1. base * (q - a) >= base
    BY <1>2, <1>6
  <2>2. base * (a - q) = -(base * (q - a)) /\ base * (q - a) \in Int
    BY <1>2
  <2> QED BY <1>2, <1>3, <1>4, <2>1, <2>2
<1>7. CASE a = q
  <2>1. base * (a - q) = 0
    BY <1>2, <1>7
  <2>2. r = d
    BY <1>2, <1>3, <1>4, <2>1
  <2> QED BY <1>7, <2>2 DEF q, r, x
<1> QED BY <1>2, <1>5, <1>6, <1>7

(* Digits and their number. *)
LEMMA FromDigitsBack ==
  ASSUME NEW base \in Nat \ {0}, NEW count \in Nat, NEW digits \in [1 .. count -> 0 .. base - 1]
  PROVE  /\ FromDigits(digits, base, count) \in 0 .. Power(base, count) - 1
         /\ DigitsOf(FromDigits(digits, base, count), base, count) = digits
<1>0. digits \in [1 .. count -> Nat]
  OBVIOUS
<1>1. PICK above \in [0 .. count -> Nat] :
        FromDigits(digits, base, count) = above[count] /\ AreSums(above, digits, base, count)
  <2>1. base \in Nat
    OBVIOUS
  <2> QED BY <1>0, <2>1, FromDigitsIs
<1>2. PICK power \in [0 .. count -> Nat \ {0}] :
        /\ power[0] = 1 /\ Power(base, count) = power[count]
        /\ \A i \in 1 .. count : power[i] = base * power[i - 1]
  BY PowerIs
<1>3. above[count] < power[count]
  <2> DEFINE T == {k \in Nat : k <= count => above[k] < power[k]}
  <2>1. 0 \in T
    BY <1>1, <1>2 DEF AreSums
  <2>2. ASSUME NEW k \in Nat, k \in T PROVE k + 1 \in T
    <3> SUFFICES ASSUME k + 1 <= count PROVE above[k + 1] < power[k + 1]
      OBVIOUS
    <3> DEFINE a == above[k]  p == power[k]  d == digits[count + 1 - (k + 1)]
    <3>1. a \in Nat /\ p \in Nat /\ a < p /\ k + 1 \in 1 .. count /\ (k + 1) - 1 = k
      BY <1>1, <1>2, <2>2
    <3>2. d \in 0 .. base - 1
      OBVIOUS
    <3>3. above[k + 1] = d + base * a /\ power[k + 1] = base * p
      BY <1>1, <1>2, <3>1 DEF AreSums
    <3> HIDE DEF a, p, d
    <3>4. base * (a + 1) <= base * p /\ base * (a + 1) = base * a + base
      BY <3>1
    <3>5. base * a \in Int /\ base * p \in Int
      BY <3>1
    <3>6. d + base * a < base * p
      BY <3>2, <3>4, <3>5
    <3> QED BY <3>3, <3>6
  <2> HIDE DEF T
  <2>3. count \in T
    BY <2>1, <2>2, NatSetInduction
  <2> QED BY <2>3 DEF T
<1> DEFINE n == FromDigits(digits, base, count)
<1>4. n = above[count] /\ n \in Nat
  BY <1>1
<1>i. n \in Int
  BY <1>4
<1> HIDE DEF n
<1> DEFINE rest == Shifts(n, base, count)
<1>5. /\ rest \in [0 .. count -> Nat] /\ rest[0] = n
      /\ \A i \in 1 .. count : rest[i] = rest[i - 1] \div base
  <2>1. AreShifts(rest, n, base, count) /\ rest \in [0 .. count -> Nat]
    BY <1>4, <1>i, ShiftsAre, ShiftsNat
  <2> QED BY <2>1 DEF AreShifts
<1> DEFINE again == DigitsOf(n, base, count)
<1>6. /\ again \in [1 .. count -> 0 .. base - 1]
      /\ \A i \in 1 .. count : again[i] = rest[i - 1] % base
  BY <1>4, <1>i, DigitsType
<1> HIDE DEF rest, again
<1> DEFINE Shift(j) == LET r == above[count + 1 - j]
                       IN  r \div base = above[count - j] /\ r % base = digits[j]
<1>7. ASSUME NEW j \in 1 .. count PROVE Shift(j)
  <2> DEFINE r == above[count + 1 - j]  a == above[count - j]  d == digits[j]
  <2>1. /\ count + 1 - j \in 1 .. count /\ (count + 1 - j) - 1 = count - j
        /\ count + 1 - (count + 1 - j) = j /\ count - j \in 0 .. count
    OBVIOUS
  <2>2. r = d + base * a
    BY <1>1, <2>1 DEF AreSums
  <2>3. a \in Nat /\ d \in 0 .. base - 1
    <3>1. above \in [0 .. count -> Nat]
      OBVIOUS
    <3> QED BY <2>1, <3>1
  <2> HIDE DEF a, d, r
  <2>4. (d + base * a) \div base = a /\ (d + base * a) % base = d
    BY <2>3, DivideBack
  <2> QED BY <2>2, <2>4 DEF a, d, r
<1> DEFINE T == {k \in Nat : k <= count => rest[k] = above[count - k]}
<1>8. 0 \in T
  BY <1>4, <1>5
<1>9. ASSUME NEW k \in Nat, k \in T PROVE k + 1 \in T
  <2> SUFFICES ASSUME k + 1 <= count PROVE rest[k + 1] = above[count - (k + 1)]
    OBVIOUS
  <2>1. /\ k + 1 \in 1 .. count /\ (k + 1) - 1 = k /\ count + 1 - (k + 1) = count - k
        /\ rest[k] = above[count - k]
    BY <1>9
  <2>2. above[count - k] \div base = above[count - (k + 1)]
    BY <1>7, <2>1
  <2> QED BY <1>5, <2>1, <2>2
<1> HIDE DEF T
<1>10. \A k \in 0 .. count : rest[k] = above[count - k]
  <2>1. Nat \subseteq T
    BY <1>8, <1>9, NatSetInduction
  <2> QED BY <2>1 DEF T
<1>11. \A j \in 1 .. count : again[j] = digits[j]
  <2> TAKE j \in 1 .. count
  <2>1. j - 1 \in 0 .. count /\ count - (j - 1) = count + 1 - j
    OBVIOUS
  <2> QED BY <1>6, <1>7, <1>10, <2>1
<1>12. again = digits
  BY <1>6, <1>11
<1>13. n \in 0 .. Power(base, count) - 1
  BY <1>2, <1>3, <1>4
<1> QED BY <1>12, <1>13 DEF n, again

LEMMA FlattenSome ==
  ASSUME NEW S, NEW seqs \in Seq(Seq(S)), seqs # <<>>, \A i \in 1 .. Len(seqs) : seqs[i] # <<>>
  PROVE  FlattenSeq(seqs) # <<>>
<1> DEFINE n == Len(seqs)
<1>1. PICK g \in [0 .. Len(seqs) -> Seq(S)] :
        /\ g[0] = <<>> /\ FlattenSeq(seqs) = g[Len(seqs)]
        /\ \A i \in 1 .. Len(seqs) : g[i] = g[i - 1] \o seqs[i]
  BY FlattenSteps
<1>2. n \in 1 .. n /\ n - 1 \in 0 .. n /\ n \in Nat
  BY EmptySeq
<1>3. g[n] = g[n - 1] \o seqs[n] /\ g[n - 1] \in Seq(S) /\ seqs[n] \in Seq(S) /\ seqs[n] # <<>>
  <2>1. seqs[n] \in Seq(S)
    BY <1>2, ElementOfSeq
  <2>2. g[n - 1] \in Seq(S)
    BY <1>2
  <2>3. n \in 1 .. Len(seqs)
    BY <1>2
  <2> HIDE DEF n
  <2> QED BY <1>1, <2>1, <2>2, <2>3
<1> DEFINE x == g[n - 1]  y == seqs[n]
<1>4. x \in Seq(S) /\ y \in Seq(S) /\ y # <<>> /\ g[n] = x \o y
  BY <1>3
<1>5. FlattenSeq(seqs) = g[n]
  BY <1>1
<1> HIDE DEF x, y, n
<1>6. Len(x \o y) = Len(x) + Len(y) /\ Len(x) \in Nat /\ Len(y) > 0
  BY <1>4, JoinOn, EmptySeq
<1>7. x \o y # <<>>
  BY <1>6
<1> QED BY <1>4, <1>5, <1>7

(* What is behind the first j of some sequences. *)
RestOf(seqs, j) == FlattenSeq(SubSeq(seqs, j + 1, Len(seqs)))

LEMMA RestOfIs ==
  ASSUME NEW S, NEW seqs \in Seq(Seq(S)), NEW j \in 0 .. Len(seqs)
  PROVE  /\ RestOf(seqs, j) \in Seq(S)
         /\ j = Len(seqs) => RestOf(seqs, j) = <<>>
         /\ j < Len(seqs) => RestOf(seqs, j) = seqs[j + 1] \o RestOf(seqs, j + 1)
<1> DEFINE n == Len(seqs)
           r == SubSeq(seqs, j + 1, n)
           q == SubSeq(seqs, (j + 1) + 1, n)
           s == seqs[j + 1]
<1>1. n \in Nat /\ r \in Seq(Seq(S)) /\ Len(r) = n - j /\ \A i \in 1 .. n - j : r[i] = seqs[j + i]
  BY RestIs
<1>2. FlattenSeq(r) \in Seq(S)
  BY <1>1, FlattenPlaces
<1>3. j = n => FlattenSeq(r) = <<>>
  <2>1. r \in Seq(Seq(S)) /\ (j = n => Len(r) = 0)
    BY <1>1
  <2> HIDE DEF r, n
  <2> QED BY <2>1, FlattenEmpty
<1>4. ASSUME j < n PROVE FlattenSeq(r) = s \o FlattenSeq(q)
  <2>1. j + 1 \in 0 .. n /\ j + 1 \in 1 .. n
    BY <1>1, <1>4
  <2>2. q \in Seq(Seq(S)) /\ Len(q) = n - (j + 1) /\ \A i \in 1 .. n - (j + 1) : q[i] = seqs[(j + 1) + i]
    BY <2>1, RestIs
  <2>3. s \in Seq(S)
    BY <2>1, ElementOfSeq
  <2> HIDE DEF q, s
  <2> DEFINE p == <<s>>
  <2>4. p \in Seq(Seq(S)) /\ Len(p) = 1 /\ p[1] = s
    BY <2>3
  <2>5. r = p \o q
    <3> DEFINE u == p \o q  Q == Seq(S)
    <3> HIDE DEF p, r, n, Q
    <3>1. /\ u \in Seq(Q) /\ Len(u) = 1 + Len(q) /\ u[1] = p[1]
          /\ \A i \in 1 .. Len(q) : u[1 + i] = q[i]
      <4>1. p \in Seq(Q) /\ q \in Seq(Q) /\ Len(p) = 1 /\ 1 \in 1 .. Len(p)
        BY <2>2, <2>4 DEF Q
      <4>2. /\ u \in Seq(Q) /\ Len(u) = Len(p) + Len(q)
            /\ \A i \in 1 .. Len(p) : u[i] = p[i]
            /\ \A i \in 1 .. Len(q) : u[Len(p) + i] = q[i]
        <5> HIDE DEF u
        <5>1. u \in Seq(Q) /\ Joined(u, p, q)
          BY <4>1, JoinedIs DEF u
        <5> QED BY <5>1 DEF Joined
      <4> HIDE DEF u
      <4> QED BY <4>1, <4>2
    <3> HIDE DEF u
    <3>2. Len(u) = n - j /\ Len(r) = n - j
      BY <1>1, <2>1, <2>2, <3>1
    <3>3. ASSUME NEW i \in 1 .. n - j PROVE u[i] = r[i]
      <4>1. CASE i = 1
        BY <1>1, <2>4, <3>1, <4>1 DEF s
      <4>2. CASE i # 1
        <5>1. i - 1 \in 1 .. n - (j + 1) /\ (j + 1) + (i - 1) = j + i /\ 1 + (i - 1) = i
          BY <1>1, <4>2
        <5> QED BY <1>1, <2>2, <3>1, <5>1
      <4> QED BY <4>1, <4>2
    <3>4. u = [i \in 1 .. n - j |-> u[i]] /\ r = [i \in 1 .. n - j |-> r[i]]
      BY <1>1, <3>1, <3>2
    <3> QED BY <3>3, <3>4 DEF u
  <2>6. FlattenSeq(p) = s
    BY <2>3, FlattenFew
  <2> HIDE DEF p, r
  <2> QED BY <2>2, <2>4, <2>5, <2>6, FlattenJoin
<1> QED BY <1>2, <1>3, <1>4 DEF RestOf

LEMMA RestOfAll ==
  ASSUME NEW S, NEW seqs \in Seq(Seq(S))
  PROVE  RestOf(seqs, 0) = FlattenSeq(seqs)
<1>1. SubSeq(seqs, 0 + 1, Len(seqs)) = seqs
  <2>1. 0 + 1 = 1 /\ Len(seqs) \in Nat
    OBVIOUS
  <2> QED BY <2>1, SubSeqFull
<1> QED BY <1>1 DEF RestOf

LEMMA FlattenWidth ==
  ASSUME NEW S, NEW seqs \in Seq(Seq(S)), NEW w \in Nat, \A i \in 1 .. Len(seqs) : Len(seqs[i]) = w
  PROVE  Len(FlattenSeq(seqs)) = w * Len(seqs)
<1> DEFINE n == Len(seqs)
<1>1. PICK offset : Flat(FlattenSeq(seqs), offset, seqs)
  BY FlattenPlaces
<1>2. /\ offset \in [0 .. n -> Nat] /\ offset[0] = 0 /\ Len(FlattenSeq(seqs)) = offset[n]
      /\ \A k \in 1 .. n : offset[k] = offset[k - 1] + w
  BY <1>1 DEF Flat, Offsets
<1>3. n \in Nat
  OBVIOUS
<1> HIDE DEF n
<1> DEFINE T == {k \in Nat : k <= n => offset[k] = w * k}
<1>4. 0 \in T
  BY <1>2
<1>5. ASSUME NEW k \in Nat, k \in T PROVE k + 1 \in T
  <2> SUFFICES ASSUME k + 1 <= n PROVE offset[k + 1] = w * (k + 1)
    OBVIOUS
  <2>1. k + 1 \in 1 .. n /\ (k + 1) - 1 = k /\ k <= n
    BY <1>3
  <2>2. offset[k + 1] = offset[k] + w /\ offset[k] = w * k
    BY <1>2, <1>5, <2>1
  <2>3. w * (k + 1) = w * k + w
    OBVIOUS
  <2> QED BY <2>2, <2>3
<1>6. n \in T
  <2> HIDE DEF T
  <2> QED BY <1>3, <1>4, <1>5, NatSetInduction
<1> QED BY <1>2, <1>3, <1>6 DEF n

(* Where the parts of a flattened sequence are: first[n] elements are before
   part n. *)
Layout(whole, first, parts, F) ==
  /\ first \in [F -> Nat]
  /\ \A n \in F : \A i \in 1 .. Len(parts[n]) :
       first[n] + i \in 1 .. Len(whole) /\ whole[first[n] + i] = parts[n][i]
  /\ \A j \in 1 .. Len(whole) : \E n \in F : \E i \in 1 .. Len(parts[n]) : j = first[n] + i
  /\ \A n, o \in F : n # o => \/ first[n] + Len(parts[n]) <= first[o]
                              \/ first[o] + Len(parts[o]) <= first[n]

LaidOut(whole, parts, F) == \E first : Layout(whole, first, parts, F)

(* A sequence with each of a set once. *)
EachOnce(order, F) ==
  /\ order \in Seq(F)
  /\ \A i, j \in 1 .. Len(order) : order[i] = order[j] => i = j
  /\ \A n \in F : \E i \in 1 .. Len(order) : order[i] = n

LEMMA LayoutExists ==
  ASSUME NEW S, NEW F, NEW parts, parts \in [F -> Seq(S)], NEW order, EachOnce(order, F),
         NEW whole, whole = FlattenSeq([i \in DOMAIN order |-> parts[order[i]]])
  PROVE  whole \in Seq(S) /\ LaidOut(whole, parts, F)
<1> DEFINE seqs == [i \in DOMAIN order |-> parts[order[i]]]
           m == Len(order)
<1>15. /\ order \in Seq(F)
       /\ \A i, j \in 1 .. Len(order) : order[i] = order[j] => i = j
       /\ \A n \in F : \E i \in 1 .. Len(order) : order[i] = n
  BY DEF EachOnce
<1>1. m \in Nat /\ DOMAIN order = 1 .. m /\ \A i \in 1 .. m : order[i] \in F
  BY <1>15, ElementOfSeq
<1>2. seqs \in Seq(Seq(S)) /\ Len(seqs) = m /\ \A i \in 1 .. m : seqs[i] = parts[order[i]]
  <2>1. seqs \in [1 .. m -> Seq(S)]
    BY <1>1
  <2> HIDE DEF m
  <2>2. \A i \in 1 .. m : seqs[i] = parts[order[i]]
    BY <1>1
  <2> HIDE DEF seqs
  <2> QED BY <1>1, <2>1, <2>2
<1>0. whole = FlattenSeq(seqs)
  OBVIOUS
<1> HIDE DEF seqs, m
<1>3. PICK offset : Flat(whole, offset, seqs)
  <2>1. \E offset : Flat(FlattenSeq(seqs), offset, seqs)
    BY <1>2, FlattenPlaces
  <2> QED BY <1>0, <2>1
<1>4. whole \in Seq(S)
  BY <1>0, <1>2, FlattenPlaces
<1> DEFINE at(n) == CHOOSE i \in 1 .. m : order[i] = n
           first == [n \in F |-> offset[at(n) - 1]]
<1>5. \A n \in F : at(n) \in 1 .. m /\ order[at(n)] = n
  <2> TAKE n \in F
  <2>1. \E i \in 1 .. m : order[i] = n
    BY <1>15 DEF m
  <2> QED BY <2>1
<1>6. \A i \in 1 .. m : at(order[i]) = i
  <2> TAKE i \in 1 .. m
  <2>1. order[i] \in F
    BY <1>1
  <2>2. at(order[i]) \in 1 .. m /\ order[at(order[i])] = order[i]
    BY <1>5, <2>1
  <2> HIDE DEF at
  <2> QED BY <1>15, <2>2 DEF m
<1> HIDE DEF at
<1>7. /\ offset \in [0 .. m -> Nat] /\ \A k \in 1 .. m : offset[k] = offset[k - 1] + Len(seqs[k])
      /\ Offsets(offset, seqs) /\ Len(whole) = offset[m]
  BY <1>2, <1>3 DEF Flat, Offsets
<1>8. ASSUME NEW n \in F
      PROVE  first[n] \in Nat /\ parts[n] = seqs[at(n)] /\ first[n] + Len(parts[n]) = offset[at(n)]
  <2>1. at(n) \in 1 .. m /\ order[at(n)] = n /\ at(n) - 1 \in 0 .. m
    BY <1>1, <1>5
  <2> DEFINE k == at(n)
  <2>2. first[n] = offset[k - 1] /\ parts[n] = seqs[k]
    BY <1>2, <2>1
  <2>3. offset[k - 1] \in Nat /\ offset[k] = offset[k - 1] + Len(seqs[k])
    BY <1>7, <2>1
  <2> HIDE DEF k, first
  <2> QED BY <2>2, <2>3 DEF k
<1>9. \A n \in F : \A i \in 1 .. Len(parts[n]) :
        first[n] + i \in 1 .. Len(whole) /\ whole[first[n] + i] = parts[n][i]
  <2> TAKE n \in F
  <2> TAKE i \in 1 .. Len(parts[n])
  <2>1. at(n) \in 1 .. m /\ parts[n] = seqs[at(n)] /\ first[n] = offset[at(n) - 1]
    BY <1>5, <1>8
  <2> DEFINE k == at(n)
  <2>2. k \in 1 .. Len(seqs) /\ i \in 1 .. Len(seqs[k])
    BY <1>2, <2>1
  <2>3. offset[k - 1] + i \in 1 .. Len(whole) /\ whole[offset[k - 1] + i] = seqs[k][i]
    <3> HIDE DEF k
    <3> QED BY <1>3, <2>2 DEF Flat
  <2> HIDE DEF first
  <2> QED BY <2>1, <2>3
<1>10. \A j \in 1 .. Len(whole) : \E n \in F : \E i \in 1 .. Len(parts[n]) : j = first[n] + i
  <2> TAKE j \in 1 .. Len(whole)
  <2>1. PICK k \in 1 .. m : \E i \in 1 .. Len(seqs[k]) : j = offset[k - 1] + i
    BY <1>2, <1>3 DEF Flat
  <2>2. order[k] \in F /\ at(order[k]) = k
    BY <1>1, <1>6
  <2> DEFINE n == order[k]
  <2>3. n \in F /\ parts[n] = seqs[k] /\ first[n] = offset[k - 1]
    BY <1>2, <2>2
  <2>4. PICK i \in 1 .. Len(seqs[k]) : j = offset[k - 1] + i
    BY <2>1
  <2> HIDE DEF first, n
  <2>5. i \in 1 .. Len(parts[n]) /\ j = first[n] + i
    BY <2>3, <2>4
  <2> QED BY <2>3, <2>5
<1>11. ASSUME NEW n \in F, NEW o \in F, at(n) < at(o) PROVE first[n] + Len(parts[n]) <= first[o]
  <2>1. at(n) \in 1 .. m /\ at(o) \in 1 .. m
    BY <1>5
  <2>2. at(o) - 1 \in 0 .. Len(seqs) /\ at(n) \in 0 .. at(o) - 1
    BY <1>1, <1>2, <1>11, <2>1
  <2>3. offset[at(n)] <= offset[at(o) - 1]
    BY <1>2, <1>7, <2>2, OffsetsGrow
  <2> QED BY <1>8, <2>3
<1>12. ASSUME NEW n \in F, NEW o \in F, n # o PROVE at(n) < at(o) \/ at(o) < at(n)
  <2>1. at(n) # at(o) /\ at(n) \in Nat /\ at(o) \in Nat
    BY <1>1, <1>5, <1>12
  <2> QED BY <2>1
<1>13. first \in [F -> Nat]
  BY <1>8
<1> HIDE DEF first
<1>14. Layout(whole, first, parts, F)
  BY <1>9, <1>10, <1>11, <1>12, <1>13 DEF Layout
<1> QED BY <1>4, <1>14 DEF LaidOut

(* One record or none. *)
LEMMA NoneOrOne ==
  ASSUME NEW S, NEW record \in S, NEW values, NEW r,
         (values = <<>> => r = <<>>) /\ (values # <<>> => r = <<record>>)
  PROVE  /\ r \in Seq(S) /\ Len(r) = (IF values = <<>> THEN 0 ELSE 1)
         /\ \A i \in 1 .. Len(r) : i = 1 /\ r[i] = record /\ values # <<>>
<1>1. CASE values = <<>>
  BY <1>1
<1>2. CASE values # <<>>
  <2> DEFINE one == <<record>>
  <2>1. one \in Seq(S) /\ Len(one) = 1 /\ one[1] = record
    OBVIOUS
  <2>2. r = one
    BY <1>2
  <2> HIDE DEF one
  <2>3. r \in Seq(S) /\ Len(r) = 1
    BY <2>1, <2>2
  <2>4. \A i \in 1 .. Len(r) : i = 1 /\ r[i] = record
    <3> TAKE i \in 1 .. Len(r)
    <3>1. r[1] = record
      BY <2>1, <2>2
    <3>2. i = 1
      BY <2>3
    <3> QED BY <3>1, <3>2
  <2> QED BY <1>2, <2>3, <2>4
<1> QED BY <1>1, <1>2
-----------------------------------------------------------------------------
(* What remains of a number after a cast to one of V values. *)
LEMMA Remainder ==
  ASSUME NEW V \in Nat \ {0}, NEW n \in Int
  PROVE  n % V \in 0 .. V - 1 /\ n \div V \in Int /\ n = V * (n \div V) + (n % V)
<1>1. n % V \in 0 .. V - 1
  OBVIOUS
<1>2. n \div V \in Int
  OBVIOUS
<1> DEFINE t == V * (n \div V)
<1>3. n % V = n - t
  OBVIOUS
<1>4. t \in Int
  BY <1>2
<1> HIDE DEF t
<1>5. n = t + (n % V)
  BY <1>1, <1>3, <1>4
<1> QED BY <1>1, <1>2, <1>5 DEF t

LEMMA NoMultiple ==
  ASSUME NEW V \in Nat \ {0}, NEW d \in Int, d * V < V, -V < d * V
  PROVE  d = 0
<1>1. ASSUME d >= 1 PROVE d * V >= V
  BY <1>1
<1>2. ASSUME d <= -1 PROVE d * V <= -V
  BY <1>2
<1> QED BY <1>1, <1>2

LEMMA RemainderOf ==
  ASSUME NEW V \in Nat \ {0}, NEW q \in Int, NEW r \in 0 .. V - 1
  PROVE  (q * V + r) % V = r
<1> DEFINE n == q * V + r
           p == n \div V
           m == n % V
<1>1. n \in Int
  OBVIOUS
<1>2. m \in 0 .. V - 1 /\ p \in Int /\ n = V * p + m
  BY <1>1, Remainder
<1> HIDE DEF p, m
<1>3. (q - p) * V = m - r
  BY <1>2
<1>4. q - p = 0
  BY <1>2, <1>3, NoMultiple
<1>5. m = r
  BY <1>2, <1>3, <1>4
<1> QED BY <1>5 DEF m

(* A cast does not see whole multiples of its values. *)
LEMMA CastShift ==
  ASSUME NEW V \in Nat \ {0}, NEW k \in Int, NEW n \in Int
  PROVE  (n + k * V) % V = n % V
<1> DEFINE p == n \div V
           m == n % V
<1>1. m \in 0 .. V - 1 /\ p \in Int /\ n = V * p + m
  BY Remainder
<1> HIDE DEF p, m
<1>2. n + k * V = (p + k) * V + m
  BY <1>1
<1>3. ((p + k) * V + m) % V = m
  BY <1>1, RemainderOf
<1> QED BY <1>2, <1>3 DEF m
-----------------------------------------------------------------------------
LEMMA Widths ==
  /\ Uint32 \in Nat \ {0} /\ Word \in Nat \ {0} /\ Uint32 = 2 * (IntMax + 1) /\ IntMax \in Nat
  /\ \E k \in Nat \ {0} : Word = k * Uint32
  /\ Uint32 <= Word
  /\ Word \div 2 \in Nat \ {0} /\ Word = 2 * (Word \div 2)
<1>1. Uint32 \in Nat \ {0} /\ Word \in Nat \ {0} /\ Uint32 = 2 * (IntMax + 1) /\ IntMax \in Nat
  BY IntAssumption, WireAssumption DEF Uint32
<1>2. PICK k \in Int : Word = Uint32 * k
  <2>1. Word % Uint32 = 0
    BY ScalarAssumption
  <2>2. Word \in Int /\ Uint32 \in Nat \ {0}
    BY <1>1
  <2>3. Word \div Uint32 \in Int /\ Word = Uint32 * (Word \div Uint32) + (Word % Uint32)
    BY <2>2, Remainder, Zenon
  <2> QED BY <1>1, <2>1, <2>3
<1>3. k >= 1
  <2>1. ASSUME k <= 0 PROVE Uint32 * k <= 0
    BY <1>1, <2>1
  <2> QED BY <1>1, <1>2, <2>1
<1>4. Word = k * Uint32
  BY <1>1, <1>2
<1>5. k * Uint32 >= Uint32
  BY <1>1, <1>3
<1>6. Word = 2 * (k * (IntMax + 1)) /\ k * (IntMax + 1) \in Int
  BY <1>1, <1>2
<1>7. Word \div 2 = k * (IntMax + 1)
  <2> DEFINE h == k * (IntMax + 1)
  <2>1. Word = 2 * h /\ h \in Int
    BY <1>6
  <2> HIDE DEF h
  <2>2. Word \div 2 = h
    BY <2>1
  <2> QED BY <2>2 DEF h
<1>8. Word \div 2 \in Nat \ {0} /\ Word = 2 * (Word \div 2)
  <2>1. Word \div 2 \in Int /\ Word = 2 * (Word \div 2)
    BY <1>6, <1>7
  <2> QED BY <1>1, <2>1
<1> QED BY <1>1, <1>3, <1>4, <1>5, <1>8

(* A cast to a signed type gives back what it stands for. *)
LEMMA SignedOf ==
  ASSUME NEW V \in Nat \ {0}, NEW H \in Nat, V = 2 * H, NEW v \in -H .. H - 1
  PROVE  Signed(v, V) = v /\ \A k \in Int : Signed(v + k * V, V) = v
<1>1. v % V = IF v < 0 THEN v + V ELSE v
  <2>1. CASE v < 0
    <3>1. v + V \in 0 .. V - 1 /\ (-1) * V + (v + V) = v
      BY <2>1
    <3>2. ((-1) * V + (v + V)) % V = v + V
      BY <3>1, RemainderOf
    <3> QED BY <2>1, <3>1, <3>2
  <2>2. CASE ~ (v < 0)
    <3>1. v \in 0 .. V - 1
      BY <2>2
    <3> QED BY <2>2, <3>1
  <2> QED BY <2>1, <2>2
<1>2. \A n \in Int : n % V = v % V => Signed(n, V) = v
  <2> TAKE n \in Int
  <2> HAVE n % V = v % V
  <2> DEFINE low == n % V
  <2>1. low = IF v < 0 THEN v + V ELSE v
    BY <1>1
  <2> HIDE DEF low
  <2>2. (IF 2 * low < V THEN low ELSE low - V) = v
    BY <2>1
  <2> QED BY <2>2 DEF Signed, low
<1>3. ASSUME NEW k \in Int PROVE Signed(v + k * V, V) = v
  <2>1. v + k * V \in Int /\ v \in Int
    OBVIOUS
  <2> DEFINE n == v + k * V
  <2> HIDE DEF n
  <2>2. n \in Int /\ n % V = v % V
    BY <2>1, CastShift DEF n
  <2>3. Signed(n, V) = v
    BY <1>2, <2>2
  <2> QED BY <2>3 DEF n
<1>4. Signed(v, V) = v
  BY <1>2
<1> QED BY <1>3, <1>4

(* The casts of the code: from int and int64_t to uint64_t and back. *)
LEMMA Casts ==
  /\ \A v \in Range32 : Signed(v, Uint32) = v /\ Signed(v % Word, Uint32) = v
  /\ \A v \in Range64 : Signed(v, Word) = v /\ Signed(v % Word, Word) = v
  /\ \A v \in Range32 : v \in Range64
  /\ \A v \in Int : v % Word \in 0 .. Word - 1
<1>1. /\ Uint32 \in Nat \ {0} /\ Word \in Nat \ {0} /\ Uint32 = 2 * (IntMax + 1)
      /\ IntMax + 1 \in Nat /\ Word \div 2 \in Nat /\ Word = 2 * (Word \div 2) /\ Uint32 <= Word
  BY Widths
<1>2. PICK k \in Nat : Word = k * Uint32
  BY Widths
<1>3. Range32 = -(IntMax + 1) .. (IntMax + 1) - 1 /\ Range64 = -(Word \div 2) .. Word \div 2 - 1
  BY <1>1, Widths DEF Range32, Range64
<1>4. ASSUME NEW v \in Range32 PROVE Signed(v, Uint32) = v /\ Signed(v % Word, Uint32) = v
  <2>1. v \in Int /\ v \in -(IntMax + 1) .. (IntMax + 1) - 1
    BY <1>1, <1>3
  <2>2. Signed(v, Uint32) = v /\ \A q \in Int : Signed(v + q * Uint32, Uint32) = v
    BY <1>1, <2>1, SignedOf
  <2>3. (v % Word) % Uint32 = v % Uint32
    <3> DEFINE q == v \div Word
               m == v % Word
    <3>1. m \in 0 .. Word - 1 /\ q \in Int /\ v = Word * q + m
      BY <1>1, <2>1, Remainder
    <3> HIDE DEF q, m
    <3>2. v = m + (k * q) * Uint32 /\ k * q \in Int /\ m \in Int
      BY <1>1, <1>2, <3>1
    <3>3. v % Uint32 = m % Uint32
      BY <1>1, <3>2, CastShift
    <3> QED BY <3>3 DEF m
  <2> QED BY <2>2, <2>3 DEF Signed
<1>5. ASSUME NEW v \in Range64 PROVE Signed(v, Word) = v /\ Signed(v % Word, Word) = v
  <2>1. v \in Int /\ v \in -(Word \div 2) .. Word \div 2 - 1
    BY <1>1, <1>3
  <2>2. Signed(v, Word) = v
    BY <1>1, <2>1, SignedOf
  <2>3. (v % Word) % Word = v % Word
    BY <1>1, <2>1
  <2> QED BY <2>2, <2>3 DEF Signed
<1>6. ASSUME NEW v \in Range32 PROVE v \in Range64
  BY <1>1, <1>3
<1>7. ASSUME NEW v \in Int PROVE v % Word \in 0 .. Word - 1
  <2>1. Word \in Nat \ {0}
    BY <1>1
  <2> QED BY <2>1, Remainder
<1> QED BY <1>4, <1>5, <1>6, <1>7

(* Zigzag: 0, -1, 1, -2, ... become 0, 1, 2, 3, ... *)
LEMMA ZigzagIs ==
  ASSUME NEW V \in Nat \ {0}, NEW H \in Nat, V = 2 * H, NEW v \in -H .. H - 1
  PROVE  zigzag(v, V) = IF v < 0 THEN -2 * v - 1 ELSE 2 * v
<1>1. CASE v < 0
  <2>1. v % V = v + V
    <3>1. v + V \in 0 .. V - 1 /\ (-1) * V + (v + V) = v
      BY <1>1
    <3>2. ((-1) * V + (v + V)) % V = v + V
      BY <3>1, RemainderOf
    <3> QED BY <3>1, <3>2
  <2>2. (2 * (v + V)) % V = 2 * v + V
    <3>1. 2 * v + V \in 0 .. V - 1 /\ 1 * V + (2 * v + V) = 2 * (v + V)
      BY <1>1
    <3>2. (1 * V + (2 * v + V)) % V = 2 * v + V
      BY <3>1, RemainderOf
    <3> QED BY <3>1, <3>2
  <2>3. zigzag(v, V) = V - 1 - (2 * v + V)
    BY <1>1, <2>1, <2>2 DEF zigzag, Complement
  <2> QED BY <1>1, <2>3
<1>2. CASE ~ (v < 0)
  <2>1. v \in 0 .. V - 1 /\ 2 * v \in 0 .. V - 1
    BY <1>2
  <2>2. v % V = v /\ (2 * v) % V = 2 * v
    BY <2>1
  <2> QED BY <1>2, <2>2 DEF zigzag
<1> QED BY <1>1, <1>2

LEMMA UnzigzagIs ==
  ASSUME NEW v \in Int
  PROVE  unzigzag(IF v < 0 THEN -2 * v - 1 ELSE 2 * v) = IF v < 0 THEN v + Word ELSE v
<1>1. CASE v < 0
  <2> DEFINE u == -v - 1
  <2>1. u \in Int /\ -2 * v - 1 = 2 * u + 1
    BY <1>1
  <2>2. (2 * u + 1) % 2 = 1 /\ (2 * u + 1) \div 2 = u
    BY <2>1
  <2>3. Word - 1 - u = v + Word
    BY Widths
  <2> QED BY <1>1, <2>1, <2>2, <2>3 DEF unzigzag, Complement
<1>2. CASE ~ (v < 0)
  <2>1. (2 * v) % 2 = 0 /\ (2 * v) \div 2 = v
    OBVIOUS
  <2> QED BY <1>2, <2>1 DEF unzigzag
<1> QED BY <1>1, <1>2
-----------------------------------------------------------------------------
LEMMA Sint64RoundTrip ==
  ASSUME NEW v \in Range64
  PROVE  sint64_encode(v) \in 0 .. Word - 1 /\ sint64_decode(sint64_encode(v)) = v
<1>1. /\ Word \in Nat \ {0} /\ Word \div 2 \in Nat /\ Word = 2 * (Word \div 2)
      /\ v \in -(Word \div 2) .. Word \div 2 - 1 /\ v \in Int
  BY Widths DEF Range64
<1> DEFINE z == IF v < 0 THEN -2 * v - 1 ELSE 2 * v
<1>2. sint64_encode(v) = z
  BY <1>1, ZigzagIs DEF sint64_encode
<1>3. z \in 0 .. Word - 1
  BY <1>1
<1>4. unzigzag(z) = IF v < 0 THEN v + Word ELSE v
  BY <1>1, UnzigzagIs
<1>5. Signed(v, Word) = v /\ Signed(v + 1 * Word, Word) = v
  BY <1>1, SignedOf
<1>6. 1 * Word = Word
  BY <1>1
<1> HIDE DEF z
<1> QED BY <1>2, <1>3, <1>4, <1>5, <1>6 DEF sint64_decode

LEMMA Sint32RoundTrip ==
  ASSUME NEW v \in Range32
  PROVE  sint32_encode(v) \in 0 .. Word - 1 /\ sint32_decode(sint32_encode(v)) = v
<1>1. /\ Uint32 \in Nat \ {0} /\ Uint32 = 2 * (IntMax + 1) /\ IntMax + 1 \in Nat
      /\ Word \in Nat /\ Uint32 <= Word
      /\ v \in -(IntMax + 1) .. (IntMax + 1) - 1 /\ v \in Int
  BY Widths DEF Range32
<1>2. PICK k \in Nat : Word = k * Uint32
  BY Widths
<1> DEFINE z == IF v < 0 THEN -2 * v - 1 ELSE 2 * v
<1>3. sint32_encode(v) = z
  BY <1>1, ZigzagIs DEF sint32_encode
<1>4. z \in 0 .. Word - 1
  BY <1>1
<1>5. unzigzag(z) = IF v < 0 THEN v + Word ELSE v
  BY <1>1, UnzigzagIs
<1>6. Signed(v, Uint32) = v /\ Signed(v + k * Uint32, Uint32) = v
  BY <1>1, <1>2, SignedOf
<1> HIDE DEF z
<1> QED BY <1>2, <1>3, <1>4, <1>5, <1>6 DEF sint32_decode

(* Single, optional and oneof members of every type that is sent as a varint,
   for every width: what the struct holds is what comes back, at the ends of the
   types too, and through the 64-bit functions that the 32-bit types use. *)
THEOREM MemberRoundTrip ==
  \A type \in VarintTypes : \A v \in Holds(type) :
    ToVarint(type, v) \in 0 .. Word - 1 /\ FromVarint(type, ToVarint(type, v)) = v
<1> SUFFICES ASSUME NEW type \in VarintTypes, NEW v \in Holds(type)
             PROVE  ToVarint(type, v) \in 0 .. Word - 1 /\ FromVarint(type, ToVarint(type, v)) = v
  OBVIOUS
<1>1. Uint32 \in Nat \ {0} /\ Word \in Nat \ {0} /\ Uint32 <= Word /\ 2 <= Uint32
  BY Widths
<1>2. CASE type \in {"int32", "enum"}
  <2>1. v \in Range32 /\ v \in Int
    BY <1>2 DEF Holds, Range32
  <2> QED BY <1>2, <2>1, Casts DEF ToVarint, FromVarint
<1>3. CASE type = "int64"
  <2>1. v \in Range64 /\ v \in Int
    BY <1>3, Widths DEF Holds, Range64
  <2> QED BY <1>3, <2>1, Casts DEF ToVarint, FromVarint
<1>4. CASE type = "uint32"
  <2>1. v \in 0 .. Uint32 - 1
    BY <1>4 DEF Holds
  <2>2. v % Uint32 = v /\ v \in 0 .. Word - 1
    BY <1>1, <2>1
  <2> QED BY <1>4, <2>2 DEF ToVarint, FromVarint
<1>5. CASE type = "uint64"
  BY <1>5 DEF Holds, ToVarint, FromVarint
<1>6. CASE type = "sint32"
  <2>1. v \in Range32 /\ v \in Range64
    BY <1>6, Casts DEF Holds
  <2>2. Signed(v, Uint32) = v
    BY <2>1, Casts
  <2> QED BY <1>6, <2>1, <2>2, Sint64RoundTrip DEF ToVarint, FromVarint
<1>7. CASE type = "sint64"
  <2>1. v \in Range64
    BY <1>7 DEF Holds
  <2> QED BY <1>7, <2>1, Sint64RoundTrip DEF ToVarint, FromVarint
<1>8. CASE type = "bool"
  <2>1. v \in {0, 1} /\ v \in Range32
    <3>1. v \in {0, 1}
      BY <1>8 DEF Holds
    <3> QED BY <3>1, IntAssumption DEF Range32
  <2>2. v % Word = v /\ v \in 0 .. Word - 1
    BY <1>1, <2>1
  <2>3. Signed(v, Uint32) = v
    BY <2>1, Casts
  <2> QED BY <1>8, <2>1, <2>2, <2>3 DEF ToVarint, FromVarint, Bool
<1> QED BY <1>2, <1>3, <1>4, <1>5, <1>6, <1>7, <1>8 DEF VarintTypes, Varint32Types

(* The same for the items of repeated fields, whose sint32 and bool go through
   other functions. *)
THEOREM ItemRoundTrip ==
  \A type \in VarintTypes : \A v \in Holds(type) :
    ItemToVarint(type, v) \in 0 .. Word - 1 /\ ItemFromVarint(type, ItemToVarint(type, v)) = v
<1> SUFFICES ASSUME NEW type \in VarintTypes, NEW v \in Holds(type)
             PROVE  /\ ItemToVarint(type, v) \in 0 .. Word - 1
                    /\ ItemFromVarint(type, ItemToVarint(type, v)) = v
  OBVIOUS
<1>1. CASE type = "sint32"
  <2>1. v \in Range32
    BY <1>1 DEF Holds
  <2> QED BY <1>1, <2>1, Sint32RoundTrip DEF ItemToVarint, ItemFromVarint
<1>2. CASE type = "bool"
  <2>1. v \in {0, 1}
    BY <1>2 DEF Holds
  <2>2. Word \in Nat /\ 2 <= Word
    <3>1. /\ Uint32 \in Nat /\ Word \in Nat /\ Uint32 = 2 * (IntMax + 1) /\ IntMax \in Nat
          /\ Uint32 <= Word
      BY Widths
    <3> QED BY <3>1
  <2>3. v % Word = v /\ v \in 0 .. Word - 1
    BY <2>1, <2>2
  <2> QED BY <1>2, <2>1, <2>3 DEF ItemToVarint, ItemFromVarint, ToVarint, Bool
<1>3. CASE type \notin {"sint32", "bool"}
  BY <1>3, MemberRoundTrip DEF ItemToVarint, ItemFromVarint
<1> QED BY <1>1, <1>2, <1>3
-----------------------------------------------------------------------------
(* A decoder in use, one that met an error, and those of an input of a length. *)
Live(d) == 0 <= d.pos /\ d.pos <= d.size /\ d.size <= IntMax

Dead(d) == d.size = d.pos /\ -d.pos \in Errors

Windows(total) ==
  {d \in Decoders : /\ Live(d) \/ Dead(d)
                    /\ d.size > 0 => 0 <= d.base /\ d.base + d.size <= total}

(* e is what an operation may make of d. *)
Runs(d, e, total) ==
  /\ e \in Windows(total)
  /\ Dead(d) => e = d
  /\ Live(d) => Dead(e) \/ (e.base = d.base /\ e.size = d.size /\ d.pos <= e.pos)

Advanced(d, n) == [base |-> d.base, size |-> d.size, pos |-> d.pos + n]

LEMMA LiveOrDead ==
  ASSUME NEW total, NEW d \in Windows(total)
  PROVE  /\ d.base \in Int /\ d.size \in Int /\ d.pos \in Int /\ d \in Decoders
         /\ d = [base |-> d.base, size |-> d.size, pos |-> d.pos]
         /\ Live(d) \/ Dead(d)
         /\ Live(d) <=> 0 <= d.pos
         /\ Dead(d) <=> d.pos < 0
         /\ Dead(d) => d.pos \in -8 .. -1
         /\ Live(d) => 0 <= decoder_left(d) /\ decoder_left(d) <= IntMax
         /\ Dead(d) => decoder_left(d) = 0
         /\ pbtools_decoder_available(d) <=> Live(d) /\ decoder_left(d) > 0
         /\ decoder_left(d) \in Nat
<1>1. d \in Decoders /\ (Live(d) \/ Dead(d))
  BY DEF Windows
<1>2. d = [base |-> d.base, size |-> d.size, pos |-> d.pos]
  BY <1>1 DEF Decoders
<1> QED
  BY <1>1, <1>2, IntAssumption DEF Decoders, Live, Dead, Errors, decoder_left, pbtools_decoder_available

LEMMA DeadWindow ==
  ASSUME NEW total, NEW base \in Int, NEW error \in Errors
  PROVE  LET d == [base |-> base, size |-> -error, pos |-> -error]
         IN  d \in Windows(total) /\ Dead(d)
<1>1. -error \in Int /\ -(-error) = error /\ ~ (-error > 0)
  BY DEF Errors
<1> QED
  BY <1>1 DEF Windows, Decoders, Dead

LEMMA AbortRuns ==
  ASSUME NEW total, NEW d \in Windows(total), NEW error \in Errors
  PROVE  /\ Runs(d, decoder_abort(d, error), total) /\ Dead(decoder_abort(d, error))
         /\ Live(d) => decoder_abort(d, error).pos = -error
<1> DEFINE a == [base |-> d.base, size |-> -error, pos |-> -error]
<1>1. CASE Dead(d)
  <2>1. decoder_abort(d, error) = d /\ ~ Live(d)
    BY <1>1, LiveOrDead DEF decoder_abort
  <2> QED
    BY <1>1, <2>1 DEF Runs
<1>2. CASE Live(d)
  <2>1. decoder_abort(d, error) = [d EXCEPT !.size = -error, !.pos = -error] /\ ~ Dead(d)
    BY <1>2, LiveOrDead DEF decoder_abort
  <2>2. decoder_abort(d, error) = a
    BY <2>1, LiveOrDead DEF Decoders
  <2>3. a \in Windows(total) /\ Dead(a) /\ a.pos = -error
    BY LiveOrDead, DeadWindow
  <2> QED
    BY <1>2, <2>1, <2>2, <2>3 DEF Runs
<1> QED
  BY <1>1, <1>2, LiveOrDead

LEMMA MovedRuns ==
  ASSUME NEW total, NEW d \in Windows(total), Live(d), NEW n \in Nat, n <= decoder_left(d)
  PROVE  /\ Advanced(d, n) \in Windows(total) /\ Live(Advanced(d, n)) /\ Runs(d, Advanced(d, n), total)
         /\ [d EXCEPT !.pos = @ + n] = Advanced(d, n)
<1>1. [d EXCEPT !.pos = @ + n] = Advanced(d, n)
  BY LiveOrDead DEF Decoders, Advanced
<1>2. Live(Advanced(d, n)) /\ ~ Dead(d)
  BY LiveOrDead DEF Live, Advanced, decoder_left
<1>3. Advanced(d, n) \in Windows(total)
  BY <1>2, LiveOrDead DEF Windows, Advanced, Decoders
<1> QED
  BY <1>1, <1>2, <1>3, LiveOrDead DEF Runs, Advanced

(* decoder_seek: an amount that is there, or the end of the decoder. *)
LEMMA SeekRuns ==
  ASSUME NEW total, NEW d \in Windows(total),
         NEW offset \in Int, offset >= 0 \/ -offset \in Errors
  PROVE  LET e == decoder_seek(d, offset)
         IN  /\ Runs(d, e, total)
             /\ Live(e) => Live(d) /\ 0 <= offset /\ offset <= decoder_left(d)
             /\ Live(d) /\ 0 <= offset /\ offset <= decoder_left(d) => Live(e) /\ e = Advanced(d, offset)
             /\ Live(d) /\ offset < 0 => e.pos = offset
<1> DEFINE e == decoder_seek(d, offset)
<1>1. CASE Dead(d)
  <2>1. e = d /\ ~ Live(d)
    BY <1>1, LiveOrDead DEF decoder_seek
  <2> QED
    BY <1>1, <2>1 DEF Runs
<1>2. CASE Live(d) /\ offset < 0
  <2>1. e = decoder_abort(d, -offset) /\ -offset \in Errors /\ -(-offset) = offset
    BY <1>2, LiveOrDead DEF decoder_seek
  <2>2. Runs(d, e, total) /\ Dead(e) /\ e.pos = offset
    BY <1>2, <2>1, AbortRuns
  <2>3. ~ Live(e)
    BY <2>2, LiveOrDead DEF Runs
  <2> QED
    BY <1>2, <2>2, <2>3
<1>3. CASE Live(d) /\ offset >= 0 /\ offset <= decoder_left(d)
  <2>1. d.pos + offset <= d.size /\ d.size <= IntMax /\ ~ (d.pos < 0)
    BY <1>3, LiveOrDead DEF decoder_left, Live
  <2>2. e = [d EXCEPT !.pos = @ + offset]
    BY <1>3, <2>1, LiveOrDead, IntAssumption DEF decoder_seek
  <2>3. offset \in Nat
    BY <1>3
  <2> QED
    BY <1>3, <2>2, <2>3, MovedRuns
<1>4. CASE Live(d) /\ offset >= 0 /\ ~ (offset <= decoder_left(d))
  <2>1. d.pos + offset > d.size /\ ~ (d.pos < 0)
    BY <1>4, LiveOrDead DEF decoder_left
  <2>2. e \in {decoder_abort(d, SEEK_OVERFLOW), decoder_abort(d, OUT_OF_DATA)}
    BY <1>4, <2>1, LiveOrDead DEF decoder_seek
  <2>3. SEEK_OVERFLOW \in Errors /\ OUT_OF_DATA \in Errors
    BY DEF SEEK_OVERFLOW, OUT_OF_DATA, Errors
  <2>4. Runs(d, e, total) /\ Dead(e)
    BY <2>2, <2>3, AbortRuns
  <2>5. ~ Live(e)
    BY <2>4, LiveOrDead DEF Runs
  <2> QED
    BY <1>4, <2>4, <2>5
<1> QED
  BY <1>1, <1>2, <1>3, <1>4, LiveOrDead

(* decoder_read does the same with an amount that is not negative. *)
LEMMA ReadRuns ==
  ASSUME NEW total, NEW d \in Windows(total), NEW size \in Nat
  PROVE  LET e == decoder_read(d, size)
         IN  /\ Runs(d, e, total)
             /\ Live(e) => e = decoder_seek(d, size)
             /\ Live(d) /\ size > decoder_left(d) => e.pos = -OUT_OF_DATA
<1> DEFINE e == decoder_read(d, size)
<1>1. CASE decoder_left(d) >= size /\ Live(d)
  <2>1. e = [d EXCEPT !.pos = @ + size]
    BY <1>1 DEF decoder_read
  <2>2. Runs(d, e, total) /\ e = Advanced(d, size)
    BY <1>1, <2>1, MovedRuns
  <2>3. decoder_seek(d, size) = Advanced(d, size) /\ size \in Int /\ ~ (size > decoder_left(d))
    BY <1>1, SeekRuns, LiveOrDead
  <2> QED
    BY <2>2, <2>3
<1>2. CASE decoder_left(d) >= size /\ Dead(d)
  <2>1. size = 0
    BY <1>2, LiveOrDead
  <2>2. e = d
    <3>1. e = [d EXCEPT !.pos = @ + 0]
      BY <1>2, <2>1 DEF decoder_read
    <3>2. d.pos + 0 = d.pos
      BY LiveOrDead
    <3> QED
      BY <3>1, <3>2, LiveOrDead DEF Decoders
  <2>3. ~ Live(d)
    BY <1>2, LiveOrDead
  <2> QED
    BY <1>2, <2>2, <2>3 DEF Runs
<1>3. CASE ~ (decoder_left(d) >= size)
  <2>1. e = decoder_abort(d, OUT_OF_DATA) /\ OUT_OF_DATA \in Errors
    BY <1>3 DEF decoder_read, OUT_OF_DATA, Errors
  <2>2. Runs(d, e, total) /\ Dead(e) /\ (Live(d) => e.pos = -OUT_OF_DATA)
    BY <2>1, AbortRuns
  <2>3. ~ Live(e)
    BY <2>2, LiveOrDead DEF Runs
  <2> QED
    BY <2>2, <2>3
<1> QED
  BY <1>1, <1>2, <1>3, LiveOrDead

LEMMA SliceRuns ==
  ASSUME NEW total \in Int, NEW d \in Windows(total), NEW size \in 0 .. IntMax
  PROVE  LET s == decoder_init_slice(d, size)
         IN  /\ s \in Windows(total)
             /\ Live(s) <=> size <= decoder_left(d)
             /\ Live(s) => s = [base |-> d.base + d.pos, size |-> size, pos |-> 0]
<1> DEFINE s == decoder_init_slice(d, size)
<1>0. size \in Int /\ 0 <= size /\ size <= IntMax
  BY IntAssumption
<1>1. CASE size <= decoder_left(d)
  <2>1. s = [base |-> d.base + d.pos, size |-> size, pos |-> 0]
    BY <1>1 DEF decoder_init_slice, Slice
  <2>2. s \in Decoders /\ Live(s)
    BY <1>0, <2>1, LiveOrDead DEF Decoders, Live
  <2>3. size > 0 => 0 <= d.base + d.pos /\ d.base + d.pos + size <= total
    <3> SUFFICES ASSUME size > 0 PROVE 0 <= d.base + d.pos /\ d.base + d.pos + size <= total
      OBVIOUS
    <3>1. Live(d) /\ d.size > 0 /\ d.pos + size <= d.size
      BY <1>0, <1>1, LiveOrDead DEF decoder_left, Live
    <3>2. 0 <= d.base /\ d.base + d.size <= total
      BY <3>1 DEF Windows
    <3>3. d.base + d.pos + size <= d.base + d.size
      BY <1>0, <3>1, LiveOrDead
    <3>4. 0 <= d.base + d.pos
      BY <3>1, <3>2, LiveOrDead DEF Live
    <3>5. d.base + d.pos + size \in Int /\ d.base + d.size \in Int
      BY <1>0, LiveOrDead
    <3> QED
      BY <3>2, <3>3, <3>4, <3>5
  <2> QED
    BY <1>1, <2>1, <2>2, <2>3 DEF Windows
<1>2. CASE ~ (size <= decoder_left(d))
  <2>1. s = [base |-> d.base + d.pos, size |-> -OUT_OF_DATA, pos |-> -OUT_OF_DATA]
    BY <1>2 DEF decoder_init_slice, Slice
  <2>2. d.base + d.pos \in Int /\ OUT_OF_DATA \in Errors
    BY LiveOrDead DEF OUT_OF_DATA, Errors
  <2>3. s \in Windows(total) /\ Dead(s)
    BY <2>1, <2>2, DeadWindow
  <2>4. ~ Live(s)
    <3> HIDE DEF s
    <3> QED
      BY <2>3, LiveOrDead
  <2> QED
    BY <1>2, <2>3, <2>4
<1> QED
  BY <1>1, <1>2
-----------------------------------------------------------------------------
(* What a window of bytes reads as is a number. *)
LEMMA GroupsNat ==
  ASSUME NEW in, NEW start \in Int, NEW n \in Nat, \A k \in 1 .. n : in[start + k] \in Byte
  PROVE  GroupsValue(in, start, n) \in 0 .. Word - 1 /\ (n = 0 => GroupsValue(in, start, n) = 0)
<1> DEFINE digits == [i \in 1 .. n |-> in[start + i] % Base]
<1>1. Base \in Nat /\ Word \in Nat \ {0} /\ \A x \in Byte : x % Base \in Nat
  BY WireAssumption DEF Byte
<1>2. digits \in [1 .. n -> Nat]
  BY <1>1
<1>3. GroupsValue(in, start, n) = FromDigits(digits, Base, n) % Word
  BY DEF GroupsValue
<1> HIDE DEF digits
<1>4. PICK above \in [0 .. n -> Nat] :
        FromDigits(digits, Base, n) = above[n] /\ AreSums(above, digits, Base, n)
  BY <1>1, <1>2, FromDigitsIs
<1>5. above[n] \in Nat /\ (n = 0 => above[n] = 0)
  BY <1>4 DEF AreSums
<1>6. \A x \in Nat : x % Word \in 0 .. Word - 1
  BY <1>1
<1>7. 0 % Word = 0
  BY <1>1
<1> QED BY <1>3, <1>4, <1>5, <1>6, <1>7

(* The bytes that are left in a window are bytes of the input. *)
LEMMA WindowBytes ==
  ASSUME NEW in \in Seq(Byte), NEW d \in Windows(Len(in))
  PROVE  \A i \in 1 .. decoder_left(d) :
           d.base + d.pos + i \in 1 .. Len(in) /\ in[d.base + d.pos + i] \in Byte
<1> TAKE i \in 1 .. decoder_left(d)
<1>1. d.base \in Int /\ d.pos \in Int /\ d.size \in Int /\ Len(in) \in Nat
  BY LiveOrDead
<1>2. Live(d) /\ i \in Nat /\ i >= 1 /\ d.pos + i <= d.size /\ 0 <= d.pos
  BY <1>1, LiveOrDead DEF decoder_left
<1>3. 0 <= d.base /\ d.base + d.size <= Len(in)
  BY <1>1, <1>2 DEF Windows
<1>4. d.base + d.pos + i \in 1 .. Len(in)
  <2> DEFINE b == d.base  p == d.pos  s == d.size
  <2>1. b \in Int /\ p \in Int /\ s \in Int /\ i \in Int /\ Len(in) \in Int
        /\ i >= 1 /\ p + i <= s /\ 0 <= p /\ 0 <= b /\ b + s <= Len(in)
    BY <1>1, <1>2, <1>3
  <2> HIDE DEF b, p, s
  <2>2. b + p + i \in 1 .. Len(in)
    BY <2>1
  <2> QED
    BY <2>2 DEF b, p
<1> QED
  BY <1>4

(* How an operation on d may end: in the same window, with an error of its own
   that is not OUT_OF_MEMORY, or as it was. *)
Reads(d, e, total) ==
  Runs(d, e, total) /\ (e.pos = -OUT_OF_MEMORY => d.pos = -OUT_OF_MEMORY)

LEMMA AbortReads ==
  ASSUME NEW total, NEW d \in Windows(total), NEW error \in Errors \ {OUT_OF_MEMORY}
  PROVE  Reads(d, decoder_abort(d, error), total) /\ ~ Live(decoder_abort(d, error))
<1>1. error \in Errors /\ error \in Int /\ -error # -OUT_OF_MEMORY
  BY DEF Errors, OUT_OF_MEMORY
<1>2. Runs(d, decoder_abort(d, error), total) /\ Dead(decoder_abort(d, error))
  BY <1>1, AbortRuns
<1>3. CASE Live(d)
  BY <1>1, <1>2, <1>3, AbortRuns, LiveOrDead DEF Runs, Reads
<1>4. CASE Dead(d)
  BY <1>2, <1>4, LiveOrDead DEF Runs, Reads
<1> QED
  BY <1>3, <1>4, LiveOrDead

LEMMA MovedReads ==
  ASSUME NEW total, NEW d \in Windows(total), Live(d), NEW n \in Nat, n <= decoder_left(d)
  PROVE  Reads(d, Advanced(d, n), total)
<1>1. Runs(d, Advanced(d, n), total) /\ Live(Advanced(d, n))
  BY MovedRuns
<1>2. Advanced(d, n).pos >= 0
  BY <1>1, LiveOrDead DEF Runs
<1> QED
  BY <1>1, <1>2 DEF Reads, OUT_OF_MEMORY

(* decoder_read_varint: a number, and a byte or more of the window. *)
LEMMA VarintReads ==
  ASSUME NEW in \in Seq(Byte), NEW d \in Windows(Len(in))
  PROVE  LET r == decoder_read_varint(in, d)
         IN  /\ r.value \in 0 .. Word - 1
             /\ Reads(d, r.dec, Len(in))
             /\ Live(r.dec) => d.pos < r.dec.pos
<1> DEFINE room == VarintRoom(d)
           ends == VarintEnds(in, d)
           k == Min(ends \cup {room})
           r == decoder_read_varint(in, d)
<1>1. room \in Nat /\ room <= decoder_left(d)
  <2>1. CASE pbtools_decoder_available(d)
    <3>1. decoder_left(d) \in Nat /\ MaxGroups \in Nat
      BY LiveOrDead, WireAssumption
    <3>2. Min({decoder_left(d), MaxGroups}) \in {decoder_left(d), MaxGroups}
          /\ \A x \in {decoder_left(d), MaxGroups} : Min({decoder_left(d), MaxGroups}) <= x
      BY <3>1, MinExists
    <3> QED
      BY <2>1, <3>1, <3>2 DEF VarintRoom
  <2>2. CASE ~ pbtools_decoder_available(d)
    BY <2>2, LiveOrDead DEF VarintRoom
  <2> QED
    BY <2>1, <2>2
<1>2. ends \subseteq 1 .. room
  BY DEF VarintEnds
<1>3. k \in Nat /\ k <= room
  <2>1. ends \cup {room} \in SUBSET Nat /\ ends \cup {room} # {}
    BY <1>1, <1>2
  <2> HIDE DEF ends, room
  <2>2. k \in ends \cup {room} /\ \A x \in ends \cup {room} : k <= x
    BY <2>1, MinExists
  <2> QED
    BY <2>1, <2>2
<1> HIDE DEF room, ends
<1>4. GroupsValue(in, d.base + d.pos, k) \in 0 .. Word - 1
  <2>1. d.base + d.pos \in Int /\ decoder_left(d) \in Nat
    BY LiveOrDead
  <2>2. 1 .. k \subseteq 1 .. decoder_left(d)
    BY <1>1, <1>3, <2>1
  <2>3. \A i \in 1 .. k : in[d.base + d.pos + i] \in Byte
    BY <2>2, WindowBytes
  <2> HIDE DEF k
  <2> QED
    BY <1>3, <2>1, <2>3, GroupsNat
<1> HIDE DEF k
<1>5. r = IF ends = {} /\ room = MaxGroups
          THEN [dec |-> decoder_abort(d, VARINT_OVERFLOW), value |-> 0]
          ELSE [dec   |-> IF ends = {} THEN decoder_abort(d, OUT_OF_DATA)
                                       ELSE [d EXCEPT !.pos = @ + Min(ends)],
                value |-> GroupsValue(in, d.base + d.pos, k)]
  BY DEF decoder_read_varint, VarintRead, ends, room, k
<1>6. r.value \in 0 .. Word - 1
  BY <1>4, <1>5, WireAssumption
<1>7. CASE ends = {}
  <2>1. r.dec \in {decoder_abort(d, VARINT_OVERFLOW), decoder_abort(d, OUT_OF_DATA)}
    BY <1>5, <1>7
  <2>2. {VARINT_OVERFLOW, OUT_OF_DATA} \subseteq Errors \ {OUT_OF_MEMORY}
    BY DEF VARINT_OVERFLOW, OUT_OF_DATA, Errors, OUT_OF_MEMORY
  <2>3. Reads(d, r.dec, Len(in)) /\ ~ Live(r.dec)
    <3> HIDE DEF r
    <3> QED
      BY <2>1, <2>2, AbortReads
  <2> QED
    BY <1>6, <2>3
<1>8. CASE ends # {}
  <2>1. ends \in SUBSET Nat
    BY <1>2
  <2>2. Min(ends) \in ends
    BY <1>8, <2>1, MinExists
  <2>3. Min(ends) \in Nat /\ Min(ends) >= 1 /\ Min(ends) <= decoder_left(d)
    BY <1>1, <1>2, <2>2, LiveOrDead
  <2>4. Live(d)
    BY <2>3, LiveOrDead
  <2>5. r.dec = [d EXCEPT !.pos = @ + Min(ends)]
    BY <1>5, <1>8
  <2>6. r.dec = Advanced(d, Min(ends)) /\ Reads(d, r.dec, Len(in))
    BY <2>3, <2>4, <2>5, MovedRuns, MovedReads
  <2>7. d.pos < r.dec.pos
    BY <2>3, <2>6, LiveOrDead DEF Advanced
  <2> QED
    BY <1>6, <2>6, <2>7
<1> QED
  BY <1>7, <1>8

(* One operation after the other. *)
LEMMA RunsOn ==
  ASSUME NEW total, NEW d \in Windows(total), NEW e, Runs(d, e, total),
         NEW f, Runs(e, f, total)
  PROVE  Runs(d, f, total)
<1>1. e \in Windows(total) /\ f \in Windows(total)
  BY DEF Runs
<1>2. CASE Dead(d)
  BY <1>2 DEF Runs
<1>3. CASE Live(d) /\ Dead(e)
  BY <1>1, <1>3, LiveOrDead DEF Runs
<1>4. CASE Live(d) /\ Live(e)
  <2>1. e.base = d.base /\ e.size = d.size /\ d.pos <= e.pos
    BY <1>1, <1>4, LiveOrDead DEF Runs
  <2>2. Dead(f) \/ (f.base = d.base /\ f.size = d.size /\ d.pos <= f.pos)
    BY <1>1, <1>4, <2>1, LiveOrDead DEF Runs
  <2>3. ~ Dead(d)
    BY <1>4, LiveOrDead
  <2> QED
    BY <1>1, <1>4, <2>2, <2>3 DEF Runs
<1> QED
  BY <1>1, <1>2, <1>3, <1>4, LiveOrDead

LEMMA ReadsOn ==
  ASSUME NEW total, NEW d \in Windows(total), NEW e, Reads(d, e, total),
         NEW f, Reads(e, f, total)
  PROVE  Reads(d, f, total)
BY RunsOn DEF Reads

LEMMA IntOfInt == \A n \in 0 .. IntMax : int(n) = n
BY IntAssumption DEF int

LEMMA CheckedReads ==
  ASSUME NEW in \in Seq(Byte), NEW d \in Windows(Len(in)), NEW wire_type, NEW expected
  PROVE  LET r == read_varint_check_wire_type(in, d, wire_type, expected)
         IN  /\ r.value \in 0 .. Word - 1
             /\ Reads(d, r.dec, Len(in))
             /\ Live(r.dec) => d.pos < r.dec.pos
             /\ Live(r.dec) => r = decoder_read_varint(in, d) /\ wire_type = expected
<1> DEFINE r == read_varint_check_wire_type(in, d, wire_type, expected)
<1>1. CASE wire_type = expected
  <2>1. r = decoder_read_varint(in, d)
    BY <1>1 DEF read_varint_check_wire_type
  <2> QED
    BY <1>1, <2>1, VarintReads
<1>2. CASE wire_type # expected
  <2>1. r = [dec |-> decoder_abort(d, BAD_WIRE_TYPE), value |-> 0]
    BY <1>2 DEF read_varint_check_wire_type
  <2>2. BAD_WIRE_TYPE \in Errors \ {OUT_OF_MEMORY}
    BY DEF BAD_WIRE_TYPE, Errors, OUT_OF_MEMORY
  <2>3. Reads(d, r.dec, Len(in)) /\ ~ Live(r.dec)
    BY <2>1, <2>2, AbortReads
  <2> QED
    BY <2>1, <2>3, WireAssumption
<1> QED
  BY <1>1, <1>2

(* The length that is read is kept by the cast to int. *)
LEMMA LengthReads ==
  ASSUME NEW in \in Seq(Byte), NEW d \in Windows(Len(in)), NEW wire_type
  PROVE  LET r == decoder_read_length_delimited(in, d, wire_type)
         IN  /\ r.value \in 0 .. IntMax - 1 /\ int(r.value) = r.value
             /\ Reads(d, r.dec, Len(in))
             /\ Live(r.dec) => d.pos < r.dec.pos
             /\ Live(r.dec) => r = decoder_read_varint(in, d) /\ wire_type = LENGTH_DELIMITED
<1> DEFINE q == read_varint_check_wire_type(in, d, wire_type, LENGTH_DELIMITED)
           r == decoder_read_length_delimited(in, d, wire_type)
<1>1. /\ q.value \in 0 .. Word - 1
      /\ Reads(d, q.dec, Len(in))
      /\ Live(q.dec) => d.pos < q.dec.pos
      /\ Live(q.dec) => q = decoder_read_varint(in, d) /\ wire_type = LENGTH_DELIMITED
  BY CheckedReads
<1> HIDE DEF q
<1>2. r = IF q.value < IntMax THEN q
          ELSE [dec |-> decoder_abort(q.dec, LENGTH_DELIMITED_OVERFLOW), value |-> 0]
  BY DEF decoder_read_length_delimited, LengthOf, q
<1>3. r.value \in 0 .. IntMax - 1
  BY <1>1, <1>2, IntAssumption, WireAssumption
<1>4. int(r.value) = r.value
  <2>1. r.value \in 0 .. IntMax
    BY <1>3, IntAssumption
  <2> QED
    BY <2>1, IntOfInt
<1>5. CASE q.value < IntMax
  BY <1>1, <1>2, <1>3, <1>4, <1>5
<1>6. CASE ~ (q.value < IntMax)
  <2>1. q.dec \in Windows(Len(in)) /\ LENGTH_DELIMITED_OVERFLOW \in Errors \ {OUT_OF_MEMORY}
    BY <1>1 DEF LENGTH_DELIMITED_OVERFLOW, Errors, OUT_OF_MEMORY, Reads, Runs
  <2>2. Reads(q.dec, r.dec, Len(in)) /\ ~ Live(r.dec)
    BY <1>2, <1>6, <2>1, AbortReads
  <2>3. Reads(d, r.dec, Len(in))
    BY <1>1, <2>1, <2>2, ReadsOn
  <2> QED
    BY <1>3, <1>4, <2>2, <2>3
<1> QED
  BY <1>5, <1>6

(* A tag: its parts are numbers, and a byte or more was read. *)
LEMMA TagReads ==
  ASSUME NEW in \in Seq(Byte), NEW d \in Windows(Len(in))
  PROVE  LET t == pbtools_decoder_read_tag(in, d)
         IN  /\ t.field_number \in Nat /\ t.wire_type \in 0 .. 7
             /\ Reads(d, t.dec, Len(in))
             /\ Live(t.dec) => d.pos < t.dec.pos
             /\ Live(t.dec) => t.dec = decoder_read_varint(in, d).dec
<1> DEFINE r == decoder_read_varint(in, d)
           v == r.value % (2 * (IntMax + 1))
           t == pbtools_decoder_read_tag(in, d)
<1>1. /\ r.value \in 0 .. Word - 1
      /\ Reads(d, r.dec, Len(in))
      /\ Live(r.dec) => d.pos < r.dec.pos
  BY VarintReads
<1> HIDE DEF r
<1>2. v \in Nat
  <2>1. 2 * (IntMax + 1) \in Nat \ {0} /\ r.value \in Int
    BY <1>1, IntAssumption
  <2> DEFINE w == 2 * (IntMax + 1)
  <2> HIDE DEF w
  <2>2. r.value % w \in Nat
    BY <2>1 DEF w
  <2> QED
    BY <2>2 DEF w
<1> HIDE DEF v
<1>3. t = [dec |-> IF v < 8 THEN decoder_abort(r.dec, BAD_FIELD_NUMBER) ELSE r.dec,
           field_number |-> v \div 8, wire_type |-> v % 8]
  BY DEF pbtools_decoder_read_tag, TagRead, TagOf, r, v
<1>4. t.field_number \in Nat /\ t.wire_type \in 0 .. 7
  BY <1>2, <1>3
<1>5. CASE v < 8
  <2>1. t.dec = decoder_abort(r.dec, BAD_FIELD_NUMBER) /\ r.dec \in Windows(Len(in))
    BY <1>1, <1>3, <1>5 DEF Reads, Runs
  <2>2. BAD_FIELD_NUMBER \in Errors \ {OUT_OF_MEMORY}
    BY DEF BAD_FIELD_NUMBER, Errors, OUT_OF_MEMORY
  <2>3. Reads(r.dec, t.dec, Len(in)) /\ ~ Live(t.dec)
    BY <2>1, <2>2, AbortReads
  <2>4. Reads(d, t.dec, Len(in))
    BY <1>1, <2>3, ReadsOn
  <2> QED
    BY <1>4, <2>3, <2>4
<1>6. CASE ~ (v < 8)
  <2>1. t.dec = r.dec
    BY <1>3, <1>6
  <2> QED
    BY <1>1, <1>4, <2>1 DEF r
<1> QED
  BY <1>5, <1>6

LEMMA SeekReads ==
  ASSUME NEW total, NEW d \in Windows(total), NEW offset \in Nat
  PROVE  Reads(d, decoder_seek(d, offset), total)
<1>1. offset \in Int /\ offset >= 0
  OBVIOUS
<1> DEFINE e == decoder_seek(d, offset)
<1>2. /\ Runs(d, e, total)
      /\ Live(d) /\ offset <= decoder_left(d) => Live(e)
  BY <1>1, SeekRuns
<1>3. e.pos = -OUT_OF_MEMORY => d.pos = -OUT_OF_MEMORY
  <2>1. d.pos < 0 => e = d
    BY DEF decoder_seek
  <2>2. CASE d.pos >= 0 /\ d.pos + offset <= d.size
    <3>1. Live(d) /\ offset <= decoder_left(d)
      BY <2>2, LiveOrDead DEF decoder_left
    <3>2. e.pos >= 0
      BY <1>2, <3>1 DEF Live
    <3> QED
      BY <3>2 DEF OUT_OF_MEMORY
  <2>3. CASE d.pos >= 0 /\ d.pos + offset > d.size
    <3>1. e \in {decoder_abort(d, SEEK_OVERFLOW), decoder_abort(d, OUT_OF_DATA)}
      BY <1>1, <2>3, LiveOrDead DEF decoder_seek
    <3>2. {SEEK_OVERFLOW, OUT_OF_DATA} \subseteq Errors \ {OUT_OF_MEMORY}
      BY DEF SEEK_OVERFLOW, OUT_OF_DATA, Errors, OUT_OF_MEMORY
    <3> QED
      BY <3>1, <3>2, AbortReads DEF Reads
  <2> QED
    BY <2>1, <2>2, <2>3, LiveOrDead
<1> QED
  BY <1>2, <1>3 DEF Reads

(* A field that is not read: its payload is stepped over. *)
LEMMA SkipReads ==
  ASSUME NEW in \in Seq(Byte), NEW d \in Windows(Len(in)), NEW wire_type
  PROVE  Reads(d, pbtools_decoder_skip_field(in, d, wire_type), Len(in))
<1> DEFINE r == decoder_read_length_delimited(in, d, wire_type)
<1>1. Reads(d, r.dec, Len(in)) /\ r.value \in Nat
  BY LengthReads
<1> HIDE DEF r
<1>2. Reads(d, decoder_seek(r.dec, r.value), Len(in))
  <2>1. r.dec \in Windows(Len(in))
    BY <1>1 DEF Reads, Runs
  <2> QED
    BY <1>1, <2>1, SeekReads, ReadsOn
<1>3. Fixed32 \in Nat /\ Fixed64 \in Nat
  BY WireAssumption
<1>4. Reads(d, decoder_abort(d, BAD_WIRE_TYPE), Len(in))
  BY AbortReads DEF BAD_WIRE_TYPE, Errors, OUT_OF_MEMORY
<1>5. pbtools_decoder_skip_field(in, d, wire_type) \in
        {decoder_read_varint(in, d).dec, decoder_seek(d, Fixed64), decoder_seek(d, Fixed32),
         decoder_seek(r.dec, r.value), decoder_abort(d, BAD_WIRE_TYPE)}
  BY DEF pbtools_decoder_skip_field, SkipPayload, r, VARINT, WIRE_64_BIT, WIRE_32_BIT, LENGTH_DELIMITED
<1>6. Reads(d, decoder_read_varint(in, d).dec, Len(in))
  BY VarintReads
<1>7. Reads(d, decoder_seek(d, Fixed64), Len(in)) /\ Reads(d, decoder_seek(d, Fixed32), Len(in))
  BY <1>3, SeekReads
<1> QED
  BY <1>2, <1>4, <1>5, <1>6, <1>7
-----------------------------------------------------------------------------
(* A loop that goes on while something is available: what read does to a
   decoder, over and over.  after[i] is the decoder after i turns. *)
Turning(read, total) ==
  \A e \in Windows(total) : /\ Reads(e, read[e].dec, total)
                            /\ Live(read[e].dec) => e.pos < read[e].dec.pos

Loop(after, d, read) ==
  after = [i \in 0 .. decoder_left(d) |-> IF i = 0 THEN d ELSE read[after[i - 1]].dec]

Turns(after) == Min({i \in DOMAIN after : ~ pbtools_decoder_available(after[i])})

LEMMA LoopExists ==
  ASSUME NEW total, NEW d \in Windows(total), NEW read, Turning(read, total)
  PROVE  \E after : Loop(after, d, read)
<1> DEFINE n == decoder_left(d)
           step == [i \in 1 .. n |-> [e \in Windows(total) |-> read[e].dec]]
<1>1. n \in Nat
  BY LiveOrDead
<1> HIDE DEF n
<1>2. \A e \in Windows(total) : read[e].dec \in Windows(total)
  BY DEF Turning, Reads, Runs
<1>3. step \in [1 .. n -> [Windows(total) -> Windows(total)]]
  BY <1>2
<1>4. PICK g \in [0 .. n -> Windows(total)] : Iterates(g, n, d, step)
  <2> HIDE DEF step
  <2> QED
    BY <1>1, <1>3, Recursion
<1>5. ASSUME NEW i \in 0 .. n, i # 0
      PROVE  step[i][g[i - 1]] = read[g[i - 1]].dec
  <2>1. i \in 1 .. n /\ i - 1 \in 0 .. n
    BY <1>1, <1>5
  <2>2. g[i - 1] \in Windows(total)
    <3> HIDE DEF step
    <3>1. g \in [0 .. n -> Windows(total)]
      OBVIOUS
    <3> QED
      BY <2>1, <3>1
  <2> QED
    BY <2>1, <2>2
<1>6. g = [i \in 0 .. n |-> IF i = 0 THEN d ELSE read[g[i - 1]].dec]
  BY <1>4, <1>5 DEF Iterates
<1> QED
  BY <1>6 DEF Loop, n

(* Every turn takes a byte or ends the loop, so that it does end. *)
LEMMA LoopReads ==
  ASSUME NEW total, NEW d \in Windows(total), NEW read, Turning(read, total),
         NEW after, Loop(after, d, read)
  PROVE  /\ \A i \in 0 .. decoder_left(d) : Reads(d, after[i], total)
         /\ Turns(after) \in 0 .. decoder_left(d)
         /\ ~ pbtools_decoder_available(after[Turns(after)])
         /\ \A i \in 0 .. Turns(after) - 1 : pbtools_decoder_available(after[i])
<1> DEFINE n == decoder_left(d)
           T == {i \in Nat : i <= n =>
                   /\ Reads(d, after[i], total)
                   /\ pbtools_decoder_available(after[i]) => decoder_left(after[i]) <= n - i}
           ends == {i \in DOMAIN after : ~ pbtools_decoder_available(after[i])}
<1>1. n \in Nat
  BY LiveOrDead
<1>2. 0 \in 0 .. n /\ after[0] = d
  BY <1>1 DEF Loop
<1>3. ASSUME NEW i \in Nat, i + 1 <= n PROVE after[i + 1] = read[after[i]].dec
  <2>1. i + 1 \in 0 .. n /\ i + 1 # 0 /\ (i + 1) - 1 = i
    BY <1>1, <1>3
  <2> QED
    BY <2>1 DEF Loop
<1>4. 0 \in T
  <2>1. Reads(d, d, total)
    BY LiveOrDead DEF Reads, Runs
  <2> QED
    BY <1>1, <1>2, <2>1
<1>5. \A i \in Nat : i \in T => i + 1 \in T
  <2> SUFFICES ASSUME NEW i \in Nat, i \in T, i + 1 <= n
               PROVE  /\ Reads(d, after[i + 1], total)
                      /\ pbtools_decoder_available(after[i + 1]) =>
                           decoder_left(after[i + 1]) <= n - (i + 1)
    OBVIOUS
  <2> DEFINE a == after[i]  b == after[i + 1]
  <2>1. /\ Reads(d, a, total)
        /\ pbtools_decoder_available(a) => decoder_left(a) <= n - i
    BY <1>1
  <2>2. a \in Windows(total) /\ b = read[a].dec
    BY <1>3, <2>1 DEF Reads, Runs
  <2> HIDE DEF a, b, n, T
  <2>3. Reads(a, b, total) /\ (Live(b) => a.pos < b.pos)
    BY <2>2 DEF Turning
  <2>4. Reads(d, b, total) /\ b \in Windows(total)
    BY <2>1, <2>3, ReadsOn DEF Reads, Runs
  <2>5. pbtools_decoder_available(b) => decoder_left(b) <= n - (i + 1)
    <3> SUFFICES ASSUME pbtools_decoder_available(b) PROVE decoder_left(b) <= n - (i + 1)
      OBVIOUS
    <3>1. Live(b) /\ ~ Dead(b)
      BY <2>4, LiveOrDead
    <3>2. Live(a)
      BY <2>2, <2>3, <3>1, LiveOrDead DEF Reads, Runs
    <3>3. b.size = a.size /\ a.pos < b.pos
      BY <2>3, <3>1, <3>2 DEF Reads, Runs
    <3>4. a.pos < a.size /\ a.pos \in Int /\ b.pos \in Int /\ a.size \in Int
      BY <2>2, <2>4, <3>3, <3>1, LiveOrDead DEF Live
    <3>5. pbtools_decoder_available(a)
      BY <3>4 DEF pbtools_decoder_available
    <3> QED
      BY <1>1, <2>1, <3>3, <3>4, <3>5 DEF decoder_left
  <2> QED
    BY <2>4, <2>5 DEF b
<1> HIDE DEF T
<1>6. \A i \in Nat : i \in T
  BY <1>4, <1>5, NatSetInduction
<1>7. ASSUME NEW i \in 0 .. n
      PROVE  /\ Reads(d, after[i], total)
             /\ pbtools_decoder_available(after[i]) => decoder_left(after[i]) <= n - i
  BY <1>1, <1>6 DEF T
<1>8. DOMAIN after = 0 .. n
  BY DEF Loop
<1>9. ~ pbtools_decoder_available(after[n])
  <2>1. after[n] \in Windows(total) /\ n \in 0 .. n
    BY <1>1, <1>7 DEF Reads, Runs
  <2>2. pbtools_decoder_available(after[n]) => decoder_left(after[n]) <= 0
    BY <1>1, <1>7, <2>1
  <2> HIDE DEF n
  <2> QED
    BY <2>1, <2>2, LiveOrDead
<1>10. n \in ends /\ ends \in SUBSET Nat
  BY <1>1, <1>8, <1>9
<1>11. Turns(after) \in ends /\ \A x \in ends : Turns(after) <= x
  <2>1. Turns(after) = Min(ends)
    BY DEF Turns
  <2> HIDE DEF ends
  <2> QED
    BY <1>10, <2>1, MinExists
<1>12. Turns(after) \in 0 .. n /\ ~ pbtools_decoder_available(after[Turns(after)])
  BY <1>8, <1>11
<1>13. ASSUME NEW i \in 0 .. Turns(after) - 1 PROVE pbtools_decoder_available(after[i])
  <2>1. i \in 0 .. n /\ ~ (Turns(after) <= i)
    BY <1>1, <1>12
  <2> QED
    BY <1>8, <1>11, <2>1
<1> QED
  BY <1>7, <1>12, <1>13

(* Turns of a fixed width: all of the window, or one more to find that a value
   is cut off. *)
LEMMA FixedLoop ==
  ASSUME NEW total, NEW d \in Windows(total), NEW read, Turning(read, total),
         NEW w \in Nat \ {0}, \A e \in Windows(total) : read[e].dec = decoder_read(e, w),
         NEW after, Loop(after, d, read)
  PROVE  /\ Live(d) => decoder_left(d) \div w <= Turns(after)
         /\ \/ Turns(after) <= decoder_left(d) \div w
            \/ /\ Turns(after) = (decoder_left(d) \div w) + 1
               /\ after[Turns(after)].pos = -OUT_OF_DATA
<1> DEFINE n == decoder_left(d)
           k == n \div w
           T == {i \in Nat : i <= k => i * w <= n /\ i <= n /\ after[i] = Advanced(d, i * w)}
<1>1. n \in Nat /\ w \in Nat /\ w >= 1
  BY LiveOrDead
<1>2. k \in Nat /\ k * w <= n /\ n < (k + 1) * w
  <2> HIDE DEF n
  <2>1. k \in Nat /\ n = w * (n \div w) + (n % w) /\ n % w \in 0 .. (w - 1)
    BY <1>1
  <2> DEFINE m == w * k
  <2>2. k * w = m /\ (k + 1) * w = m + w /\ m \in Int
    BY <1>1, <2>1
  <2> HIDE DEF k, m
  <2> QED
    BY <1>1, <2>1, <2>2 DEF k, m
<1> HIDE DEF n, k
<1>3. CASE Dead(d)
  <2>1. n = 0
    BY <1>3, LiveOrDead DEF n
  <2>2. Turns(after) \in 0 .. n
    BY LoopReads DEF n
  <2>3. Turns(after) <= k /\ ~ Live(d)
    BY <1>2, <1>3, <2>1, <2>2, LiveOrDead
  <2> QED
    BY <2>3 DEF n, k
<1>4. CASE Live(d)
  <2>1. ASSUME NEW i \in Nat, i + 1 <= n PROVE after[i + 1] = read[after[i]].dec
    <3>1. i + 1 \in 0 .. n /\ i + 1 # 0 /\ (i + 1) - 1 = i
      BY <1>1, <2>1
    <3> QED
      BY <3>1 DEF Loop, n
  <2>2. 0 \in T
    <3>1. after[0] = d /\ 0 * w = 0
      BY <1>1 DEF Loop, n
    <3>2. Advanced(d, 0) = d
      BY LiveOrDead DEF Advanced
    <3> QED
      BY <1>1, <3>1, <3>2
  <2>3. \A i \in Nat : i \in T => i + 1 \in T
    <3> SUFFICES ASSUME NEW i \in Nat, i \in T, i + 1 <= k
                 PROVE  /\ (i + 1) * w <= n /\ i + 1 <= n
                        /\ after[i + 1] = Advanced(d, (i + 1) * w)
      OBVIOUS
    <3>1. i * w <= n /\ i <= n /\ after[i] = Advanced(d, i * w)
      BY <1>2
    <3>2. i * w \in Nat /\ (i + 1) * w = i * w + w /\ (i + 1) * w \in Nat
      BY <1>1
    <3>3. (i + 1) * w <= k * w
      BY <1>1, <1>2
    <3>4. i + 1 <= (i + 1) * w
      BY <1>1
    <3>5. (i + 1) * w <= n /\ i + 1 <= n
      BY <1>1, <1>2, <3>2, <3>3, <3>4
    <3> DEFINE a == Advanced(d, i * w)  m == i * w
    <3>6. a \in Windows(total) /\ Live(a)
      BY <1>4, <3>1, <3>2, MovedRuns DEF n
    <3>7. after[i + 1] = decoder_read(a, w)
      BY <2>1, <3>1, <3>5, <3>6
    <3>8. m \in Nat /\ m + w <= n
      BY <1>1, <3>2, <3>5
    <3> HIDE DEF m
    <3>9. a = Advanced(d, m)
      BY DEF m
    <3>10. decoder_left(a) >= w
      BY <1>1, <3>8, <3>9, LiveOrDead DEF Advanced, decoder_left, n
    <3>11. decoder_read(a, w) = [a EXCEPT !.pos = @ + w]
      BY <3>10 DEF decoder_read
    <3>12. [a EXCEPT !.pos = @ + w] = Advanced(d, m + w)
      BY <1>1, <3>8, <3>9, LiveOrDead DEF Advanced
    <3> QED
      BY <3>2, <3>5, <3>7, <3>11, <3>12 DEF m
  <2> HIDE DEF T
  <2>4. k \in T /\ \A i \in Nat : i \in T
    BY <1>2, <2>2, <2>3, NatSetInduction
  <2> DEFINE a == Advanced(d, k * w)
  <2>5. k <= n /\ after[k] = a
    BY <1>2, <2>4 DEF T
  <2>6. /\ Turns(after) \in 0 .. n
        /\ \A i \in 0 .. Turns(after) - 1 : pbtools_decoder_available(after[i])
    BY LoopReads DEF n
  <2>7. k * w \in Nat /\ (k + 1) * w = k * w + w
    BY <1>1, <1>2
  <2>8. a \in Windows(total) /\ Live(a) /\ decoder_left(a) = n - k * w
    <3>1. a \in Windows(total) /\ Live(a)
      BY <1>2, <1>4, <2>7, MovedRuns DEF n
    <3>2. decoder_left(a) = n - k * w
      BY <2>7, LiveOrDead DEF Advanced, decoder_left, n
    <3> QED
      BY <3>1, <3>2
  <2>8a. k <= Turns(after)
    <3> SUFFICES ASSUME Turns(after) < k PROVE FALSE
      BY <1>2, <2>6
    <3> DEFINE t == Turns(after)
    <3>1. t \in Nat /\ t + 1 <= k /\ t \in T
      BY <1>1, <1>2, <2>4, <2>6
    <3> HIDE DEF t
    <3>2. after[t] = Advanced(d, t * w) /\ t * w \in Nat
      BY <1>1, <1>2, <3>1 DEF T
    <3>3. (t + 1) * w <= k * w /\ (t + 1) * w = t * w + w
      BY <1>1, <1>2, <3>1
    <3>4. t * w < n
      BY <1>1, <1>2, <2>7, <3>2, <3>3
    <3>5. pbtools_decoder_available(after[t])
      BY <1>4, <3>2, <3>4, LiveOrDead DEF Advanced, pbtools_decoder_available, decoder_left, n
    <3>6. ~ pbtools_decoder_available(after[t])
      BY LoopReads DEF t
    <3> QED
      BY <3>5, <3>6
  <2>9. SUFFICES ASSUME Turns(after) > k
                 PROVE  Turns(after) = k + 1 /\ after[Turns(after)].pos = -OUT_OF_DATA
    BY <1>2, <2>6, <2>8a DEF n, k
  <2>10. after[k + 1] = decoder_read(a, w) /\ k + 1 <= n
    <3>1. k + 1 <= n
      BY <1>1, <1>2, <2>6, <2>9
    <3>2. after[k + 1] = read[after[k]].dec
      BY <1>2, <2>1, <3>1
    <3> QED
      BY <2>5, <2>8, <3>1, <3>2
  <2>11. after[k + 1].pos = -OUT_OF_DATA
    <3>1. w > decoder_left(a) /\ w \in Nat
      BY <1>1, <1>2, <2>7, <2>8
    <3> QED
      BY <2>8, <2>10, <3>1, ReadRuns
  <2>12. ~ (k + 1 \in 0 .. Turns(after) - 1)
    <3>1. after[k + 1] \in Windows(total)
      BY <1>2, <2>10, LoopReads DEF n, Reads, Runs
    <3>2. ~ pbtools_decoder_available(after[k + 1])
      BY <2>11, <3>1, LiveOrDead DEF OUT_OF_DATA
    <3> QED
      BY <2>6, <3>2
  <2>13. Turns(after) = k + 1
    BY <1>1, <1>2, <2>6, <2>9, <2>12
  <2> QED
    BY <2>11, <2>13
<1> QED
  BY <1>3, <1>4, LiveOrDead
-----------------------------------------------------------------------------
(* What decides about the operations that follow: the place in the input and the
   bytes left from there, if there are any. *)
NothingAsked == [base |-> 0, size |-> 0, pos |-> 0]

Canon(d) ==
  IF pbtools_decoder_available(d)
  THEN [base |-> d.base + d.pos, size |-> decoder_left(d), pos |-> 0] ELSE NothingAsked

LEMMA CanonIs ==
  ASSUME NEW total \in Int, NEW d \in Windows(total)
  PROVE  /\ Canon(d) \in Windows(total) /\ Canon(Canon(d)) = Canon(d)
         /\ pbtools_decoder_available(Canon(d)) <=> pbtools_decoder_available(d)
<1>1. CASE pbtools_decoder_available(d)
  <2>1. Live(d) /\ decoder_left(d) > 0 /\ decoder_left(d) \in 0 .. IntMax
    BY <1>1, LiveOrDead, IntAssumption
  <2>2. Canon(d) = decoder_init_slice(d, decoder_left(d))
    BY <1>1, <2>1 DEF Canon, decoder_init_slice, Slice
  <2>3. Canon(d) \in Windows(total)
    BY <2>1, <2>2, SliceRuns
  <2>4. Canon(d) = [base |-> d.base + d.pos, size |-> decoder_left(d), pos |-> 0]
    BY <1>1 DEF Canon
  <2>5. d.base + d.pos \in Int
    BY LiveOrDead
  <2>6. pbtools_decoder_available(Canon(d))
    BY <2>1, <2>4 DEF pbtools_decoder_available
  <2>7. Canon(d).base + Canon(d).pos = d.base + d.pos /\ decoder_left(Canon(d)) = decoder_left(d)
    BY <2>1, <2>4, <2>5 DEF decoder_left
  <2>8. Canon(Canon(d)) = [base |-> Canon(d).base + Canon(d).pos, size |-> decoder_left(Canon(d)),
                           pos |-> 0]
    BY <2>6 DEF Canon
  <2> QED
    BY <1>1, <2>3, <2>4, <2>6, <2>7, <2>8
<1>2. CASE ~ pbtools_decoder_available(d)
  <2>1. Canon(d) = NothingAsked
    BY <1>2 DEF Canon
  <2>2. NothingAsked \in Windows(total) /\ ~ pbtools_decoder_available(NothingAsked)
    BY IntAssumption DEF NothingAsked, Windows, Decoders, Live, pbtools_decoder_available
  <2>3. Canon(NothingAsked) = NothingAsked
    BY <2>2 DEF Canon
  <2> QED
    BY <1>2, <2>1, <2>2, <2>3
<1> QED
  BY <1>1, <1>2

Alike(c, d) == Canon(c) = Canon(d)

LEMMA AlikeIs ==
  ASSUME NEW total, NEW c \in Windows(total), NEW d \in Windows(total)
  PROVE  Alike(c, d) <=>
           \/ ~ pbtools_decoder_available(c) /\ ~ pbtools_decoder_available(d)
           \/ /\ pbtools_decoder_available(c) /\ pbtools_decoder_available(d)
              /\ c.base + c.pos = d.base + d.pos /\ decoder_left(c) = decoder_left(d)
<1>1. /\ pbtools_decoder_available(c) => decoder_left(c) > 0
      /\ pbtools_decoder_available(d) => decoder_left(d) > 0
  BY LiveOrDead
<1> QED
  BY <1>1 DEF Alike, Canon, NothingAsked

(* Nothing available: nothing is read. *)
LEMMA VarintNone ==
  ASSUME NEW in \in Seq(Byte), NEW d \in Windows(Len(in)), ~ pbtools_decoder_available(d)
  PROVE  decoder_read_varint(in, d).value = 0 /\ ~ Live(decoder_read_varint(in, d).dec)
<1>1. VarintRoom(d) = 0 /\ VarintEnds(in, d) = {}
  BY DEF VarintRoom, VarintEnds
<1>2. Min({} \cup {0}) = 0
  <2>1. {} \cup {0} \in SUBSET Nat /\ {} \cup {0} # {}
    OBVIOUS
  <2>2. Min({} \cup {0}) \in {} \cup {0}
    BY <2>1, MinExists
  <2> QED
    BY <2>2
<1>3. MaxGroups # 0
  BY WireAssumption
<1>4. decoder_read_varint(in, d) =
        [dec |-> decoder_abort(d, OUT_OF_DATA), value |-> GroupsValue(in, d.base + d.pos, 0)]
  BY <1>1, <1>2, <1>3 DEF decoder_read_varint, VarintRead
<1>5. GroupsValue(in, d.base + d.pos, 0) = 0
  <2>1. d.base + d.pos \in Int /\ \A k \in 1 .. 0 : in[d.base + d.pos + k] \in Byte
    BY LiveOrDead
  <2> QED
    BY <2>1, GroupsNat
<1>6. ~ Live(decoder_abort(d, OUT_OF_DATA))
  BY AbortReads DEF OUT_OF_DATA, Errors, OUT_OF_MEMORY
<1> QED
  BY <1>4, <1>5, <1>6

(* Aborted decoders, and the same step on in both, are alike. *)
LEMMA AlikeDead ==
  ASSUME NEW total, NEW c \in Windows(total), NEW d \in Windows(total), ~ Live(c), ~ Live(d)
  PROVE  Alike(c, d)
BY LiveOrDead, AlikeIs

LEMMA AlikeMoved ==
  ASSUME NEW total, NEW c \in Windows(total), NEW d \in Windows(total), Alike(c, d),
         pbtools_decoder_available(c), NEW n \in Nat, n <= decoder_left(c)
  PROVE  Alike(Advanced(c, n), Advanced(d, n))
<1>1. /\ pbtools_decoder_available(d) /\ Live(c) /\ Live(d)
      /\ c.base + c.pos = d.base + d.pos /\ decoder_left(c) = decoder_left(d)
  BY AlikeIs, LiveOrDead
<1>2. Advanced(c, n) \in Windows(total) /\ Advanced(d, n) \in Windows(total)
  BY <1>1, MovedRuns
<1>3. /\ decoder_left(Advanced(c, n)) = decoder_left(c) - n
      /\ decoder_left(Advanced(d, n)) = decoder_left(d) - n
      /\ Advanced(c, n).base + Advanced(c, n).pos = c.base + c.pos + n
      /\ Advanced(d, n).base + Advanced(d, n).pos = d.base + d.pos + n
  BY LiveOrDead DEF Advanced, decoder_left
<1>4. /\ pbtools_decoder_available(Advanced(c, n)) <=> decoder_left(Advanced(c, n)) > 0
      /\ pbtools_decoder_available(Advanced(d, n)) <=> decoder_left(Advanced(d, n)) > 0
  BY LiveOrDead DEF Advanced, decoder_left, pbtools_decoder_available
<1> QED
  BY <1>1, <1>2, <1>3, <1>4, AlikeIs

LEMMA AlikeAbort ==
  ASSUME NEW total, NEW c \in Windows(total), NEW d \in Windows(total),
         NEW error \in Errors \ {OUT_OF_MEMORY}
  PROVE  Alike(decoder_abort(c, error), decoder_abort(d, error))
<1>1. /\ decoder_abort(c, error) \in Windows(total) /\ ~ Live(decoder_abort(c, error))
      /\ decoder_abort(d, error) \in Windows(total) /\ ~ Live(decoder_abort(d, error))
  BY AbortReads DEF Reads, Runs
<1> QED
  BY <1>1, AlikeDead

LEMMA AlikeSeek ==
  ASSUME NEW total, NEW c \in Windows(total), NEW d \in Windows(total), Alike(c, d),
         NEW n \in Nat
  PROVE  Alike(decoder_seek(c, n), decoder_seek(d, n))
<1>1. n \in Int /\ n >= 0
  OBVIOUS
<1>2. decoder_seek(c, n) \in Windows(total) /\ decoder_seek(d, n) \in Windows(total)
  BY <1>1, SeekRuns DEF Runs
<1>3. CASE pbtools_decoder_available(c) /\ n <= decoder_left(c)
  <2>1. Live(c) /\ Live(d) /\ n <= decoder_left(d)
    BY <1>3, AlikeIs, LiveOrDead
  <2>2. decoder_seek(c, n) = Advanced(c, n) /\ decoder_seek(d, n) = Advanced(d, n)
    BY <1>1, <1>3, <2>1, SeekRuns
  <2> QED
    BY <1>3, <2>2, AlikeMoved
<1>4. CASE pbtools_decoder_available(c) /\ ~ (n <= decoder_left(c))
  <2>1. ~ (n <= decoder_left(d))
    BY <1>4, AlikeIs
  <2>2. ~ Live(decoder_seek(c, n)) /\ ~ Live(decoder_seek(d, n))
    BY <1>1, <1>4, <2>1, SeekRuns
  <2> QED
    BY <1>2, <2>2, AlikeDead
<1>5. CASE ~ pbtools_decoder_available(c)
  <2>1. ~ pbtools_decoder_available(d)
    BY <1>5, AlikeIs
  <2>2. ASSUME NEW e \in Windows(total), ~ pbtools_decoder_available(e)
        PROVE  ~ pbtools_decoder_available(decoder_seek(e, n))
    <3> DEFINE f == decoder_seek(e, n)
    <3>1. f \in Windows(total) /\ Runs(e, f, total) /\ (Live(f) => Live(e) /\ n <= decoder_left(e))
          /\ (Live(e) /\ n <= decoder_left(e) => f = Advanced(e, n))
      BY <1>1, SeekRuns DEF Runs
    <3> HIDE DEF f
    <3>2. CASE Live(f)
      <4>1. decoder_left(e) = 0 /\ n = 0 /\ f = Advanced(e, n)
        BY <2>2, <3>1, <3>2, LiveOrDead
      <4>2. decoder_left(f) = 0
        BY <4>1, LiveOrDead DEF Advanced, decoder_left
      <4> QED
        BY <3>1, <4>2, LiveOrDead DEF f
    <3>3. CASE ~ Live(f)
      BY <3>1, <3>3, LiveOrDead DEF f
    <3> QED
      BY <3>2, <3>3
  <2> QED
    BY <1>2, <1>5, <2>1, <2>2, AlikeIs
<1> QED
  BY <1>3, <1>4, <1>5

LEMMA AlikeVarint ==
  ASSUME NEW in \in Seq(Byte), NEW c \in Windows(Len(in)), NEW d \in Windows(Len(in)), Alike(c, d)
  PROVE  LET r == decoder_read_varint(in, c)  s == decoder_read_varint(in, d)
         IN  r.value = s.value /\ Alike(r.dec, s.dec)
<1> DEFINE r == decoder_read_varint(in, c)  s == decoder_read_varint(in, d)
<1> SUFFICES r.value = s.value /\ Alike(r.dec, s.dec)
  OBVIOUS
<1>1. r.dec \in Windows(Len(in)) /\ s.dec \in Windows(Len(in))
  BY VarintReads DEF Reads, Runs
<1>2. CASE ~ pbtools_decoder_available(c)
  <2>1. ~ pbtools_decoder_available(d)
    BY <1>2, AlikeIs
  <2>2. r.value = 0 /\ s.value = 0 /\ ~ Live(r.dec) /\ ~ Live(s.dec)
    BY <1>2, <2>1, VarintNone
  <2> HIDE DEF r, s
  <2> QED
    BY <1>1, <2>2, AlikeDead
<1>3. CASE pbtools_decoder_available(c)
  <2> DEFINE room == VarintRoom(c)  ends == VarintEnds(in, c)
  <2>1. /\ pbtools_decoder_available(d) /\ Live(c) /\ Live(d)
        /\ c.base + c.pos = d.base + d.pos /\ decoder_left(c) = decoder_left(d)
    BY <1>3, AlikeIs, LiveOrDead
  <2>2. VarintRoom(d) = room
    BY <1>3, <2>1 DEF VarintRoom
  <2>3. VarintEnds(in, d) = ends
    BY <2>1, <2>2 DEF VarintEnds
  <2>4. r = VarintRead(in, c, room, ends) /\ s = VarintRead(in, d, room, ends)
    BY <2>2, <2>3 DEF decoder_read_varint
  <2>5. ends \subseteq 1 .. room /\ room \in Nat /\ room <= decoder_left(c)
    <3>1. decoder_left(c) \in Nat /\ MaxGroups \in Nat
      BY LiveOrDead, WireAssumption
    <3>2. Min({decoder_left(c), MaxGroups}) \in {decoder_left(c), MaxGroups}
          /\ \A x \in {decoder_left(c), MaxGroups} : Min({decoder_left(c), MaxGroups}) <= x
      BY <3>1, MinExists
    <3> QED
      BY <1>3, <3>1, <3>2 DEF VarintEnds, VarintRoom
  <2> HIDE DEF room, ends, r, s
  <2>6. CASE ends = {}
    <3>1. PICK error \in {VARINT_OVERFLOW, OUT_OF_DATA} :
            /\ r.dec = decoder_abort(c, error) /\ s.dec = decoder_abort(d, error)
            /\ r.value = s.value
      BY <2>1, <2>4, <2>6 DEF VarintRead
    <3>2. error \in Errors \ {OUT_OF_MEMORY}
      BY DEF VARINT_OVERFLOW, OUT_OF_DATA, Errors, OUT_OF_MEMORY
    <3> QED
      BY <3>1, <3>2, AlikeAbort
  <2>7. CASE ends # {}
    <3>1. Min(ends) \in ends
      BY <2>5, <2>7, MinExists
    <3>2. Min(ends) \in Nat /\ Min(ends) <= decoder_left(c)
      BY <2>5, <3>1, LiveOrDead
    <3>3. /\ r.dec = [c EXCEPT !.pos = @ + Min(ends)] /\ s.dec = [d EXCEPT !.pos = @ + Min(ends)]
          /\ r.value = s.value
      BY <2>1, <2>4, <2>7 DEF VarintRead
    <3>4. r.dec = Advanced(c, Min(ends)) /\ s.dec = Advanced(d, Min(ends))
      BY <2>1, <3>2, <3>3, MovedRuns
    <3> QED
      BY <1>3, <3>2, <3>3, <3>4, AlikeMoved
  <2> QED
    BY <2>6, <2>7 DEF r, s
<1> QED
  BY <1>2, <1>3

LEMMA AlikeLength ==
  ASSUME NEW in \in Seq(Byte), NEW c \in Windows(Len(in)), NEW d \in Windows(Len(in)), Alike(c, d),
         NEW wire_type
  PROVE  LET r == decoder_read_length_delimited(in, c, wire_type)
             s == decoder_read_length_delimited(in, d, wire_type)
         IN  r.value = s.value /\ Alike(r.dec, s.dec)
<1> DEFINE p == read_varint_check_wire_type(in, c, wire_type, LENGTH_DELIMITED)
           q == read_varint_check_wire_type(in, d, wire_type, LENGTH_DELIMITED)
<1>1. p.value = q.value /\ Alike(p.dec, q.dec)
  <2>1. CASE wire_type = LENGTH_DELIMITED
    BY <2>1, AlikeVarint DEF read_varint_check_wire_type
  <2>2. CASE wire_type # LENGTH_DELIMITED
    <3>1. BAD_WIRE_TYPE \in Errors \ {OUT_OF_MEMORY}
      BY DEF BAD_WIRE_TYPE, Errors, OUT_OF_MEMORY
    <3> QED
      BY <2>2, <3>1, AlikeAbort DEF read_varint_check_wire_type
  <2> QED
    BY <2>1, <2>2
<1>2. p.dec \in Windows(Len(in)) /\ q.dec \in Windows(Len(in))
  BY CheckedReads DEF Reads, Runs
<1>3. LENGTH_DELIMITED_OVERFLOW \in Errors \ {OUT_OF_MEMORY}
  BY DEF LENGTH_DELIMITED_OVERFLOW, Errors, OUT_OF_MEMORY
<1>4. Alike(decoder_abort(p.dec, LENGTH_DELIMITED_OVERFLOW),
            decoder_abort(q.dec, LENGTH_DELIMITED_OVERFLOW))
  BY <1>2, <1>3, AlikeAbort
<1> QED
  BY <1>1, <1>4 DEF decoder_read_length_delimited, LengthOf

LEMMA AlikeTag ==
  ASSUME NEW in \in Seq(Byte), NEW c \in Windows(Len(in)), NEW d \in Windows(Len(in)), Alike(c, d)
  PROVE  LET t == pbtools_decoder_read_tag(in, c)  u == pbtools_decoder_read_tag(in, d)
         IN  t.field_number = u.field_number /\ t.wire_type = u.wire_type /\ Alike(t.dec, u.dec)
<1> DEFINE r == decoder_read_varint(in, c)  s == decoder_read_varint(in, d)
<1>1. r.value = s.value /\ Alike(r.dec, s.dec)
  BY AlikeVarint
<1>2. r.dec \in Windows(Len(in)) /\ s.dec \in Windows(Len(in))
  BY VarintReads DEF Reads, Runs
<1>3. BAD_FIELD_NUMBER \in Errors \ {OUT_OF_MEMORY}
  BY DEF BAD_FIELD_NUMBER, Errors, OUT_OF_MEMORY
<1>4. Alike(decoder_abort(r.dec, BAD_FIELD_NUMBER), decoder_abort(s.dec, BAD_FIELD_NUMBER))
  BY <1>2, <1>3, AlikeAbort
<1> HIDE DEF r, s
<1>5. /\ pbtools_decoder_read_tag(in, c) = TagOf(r.dec, r.value % (2 * (IntMax + 1)))
      /\ pbtools_decoder_read_tag(in, d) = TagOf(s.dec, s.value % (2 * (IntMax + 1)))
  BY DEF pbtools_decoder_read_tag, TagRead, r, s
<1> DEFINE v == s.value % (2 * (IntMax + 1))
<1>6. /\ pbtools_decoder_read_tag(in, c) = TagOf(r.dec, v)
      /\ pbtools_decoder_read_tag(in, d) = TagOf(s.dec, v)
  BY <1>1, <1>5
<1> HIDE DEF v
<1> QED
  BY <1>1, <1>4, <1>6 DEF TagOf

LEMMA AlikeSkip ==
  ASSUME NEW in \in Seq(Byte), NEW c \in Windows(Len(in)), NEW d \in Windows(Len(in)), Alike(c, d),
         NEW wire_type
  PROVE  Alike(pbtools_decoder_skip_field(in, c, wire_type),
               pbtools_decoder_skip_field(in, d, wire_type))
<1> DEFINE r == decoder_read_length_delimited(in, c, wire_type)
           s == decoder_read_length_delimited(in, d, wire_type)
<1>1. Alike(decoder_seek(r.dec, r.value), decoder_seek(s.dec, s.value))
  <2>1. r.value = s.value /\ Alike(r.dec, s.dec)
    BY AlikeLength
  <2>2. r.dec \in Windows(Len(in)) /\ s.dec \in Windows(Len(in)) /\ r.value \in Nat
    BY LengthReads DEF Reads, Runs
  <2> HIDE DEF r, s
  <2> QED
    BY <2>1, <2>2, AlikeSeek
<1>2. /\ Alike(decoder_seek(c, Fixed64), decoder_seek(d, Fixed64))
      /\ Alike(decoder_seek(c, Fixed32), decoder_seek(d, Fixed32))
  <2>1. Fixed32 \in Nat /\ Fixed64 \in Nat
    BY WireAssumption
  <2> QED
    BY <2>1, AlikeSeek
<1>3. Alike(decoder_read_varint(in, c).dec, decoder_read_varint(in, d).dec)
  BY AlikeVarint
<1>4. Alike(decoder_abort(c, BAD_WIRE_TYPE), decoder_abort(d, BAD_WIRE_TYPE))
  BY AlikeAbort DEF BAD_WIRE_TYPE, Errors, OUT_OF_MEMORY
<1>5. CASE wire_type \in {VARINT, WIRE_64_BIT, WIRE_32_BIT, LENGTH_DELIMITED}
  BY <1>1, <1>2, <1>3, <1>5
  DEF pbtools_decoder_skip_field, SkipPayload, VARINT, WIRE_64_BIT, WIRE_32_BIT, LENGTH_DELIMITED
<1>6. CASE wire_type \notin {VARINT, WIRE_64_BIT, WIRE_32_BIT, LENGTH_DELIMITED}
  BY <1>4, <1>6 DEF pbtools_decoder_skip_field
<1> QED
  BY <1>5, <1>6

(* The same slice, or none. *)
LEMMA AlikeSlice ==
  ASSUME NEW total \in Int, NEW c \in Windows(total), NEW d \in Windows(total), Alike(c, d),
         NEW n \in 0 .. IntMax
  PROVE  LET r == decoder_init_slice(c, n)  s == decoder_init_slice(d, n)
         IN  r = s \/ (~ pbtools_decoder_available(r) /\ ~ pbtools_decoder_available(s))
<1> DEFINE r == decoder_init_slice(c, n)  s == decoder_init_slice(d, n)
<1>1. CASE pbtools_decoder_available(c)
  <2>1. c.base + c.pos = d.base + d.pos /\ decoder_left(c) = decoder_left(d)
    BY <1>1, AlikeIs
  <2> QED
    BY <2>1 DEF decoder_init_slice, Slice
<1>2. CASE ~ pbtools_decoder_available(c)
  <2>1. ASSUME NEW e \in Windows(total), ~ pbtools_decoder_available(e)
        PROVE  ~ pbtools_decoder_available(decoder_init_slice(e, n))
    <3>1. decoder_left(e) = 0
      BY <2>1, LiveOrDead
    <3>2. n \in Int /\ n >= 0
      BY IntAssumption
    <3> QED
      BY <3>1, <3>2 DEF decoder_init_slice, Slice, pbtools_decoder_available, OUT_OF_DATA
  <2> QED
    BY <1>2, <2>1, AlikeIs
<1> QED
  BY <1>1, <1>2
-----------------------------------------------------------------------------
(***************************************************************************)
(* The encoder.  Either the end of the buffer holds the bytes asked for,   *)
(* or the encoder has aborted and they do not fit (Good).                  *)
(***************************************************************************)
EncType(b) == [size : Int, pos : Int, buf : [0 .. b - 1 -> Byte]]

Alive(e, b) == e.size = b /\ e.pos \in -1 .. b - 1 /\ (e.pos = -1 => b = 0)

Full(e) == e.size = -ENCODE_BUFFER_FULL /\ e.pos = -ENCODE_BUFFER_FULL

(* The end of the buffer of e, of size b, holds a. *)
EndHolds(e, a, b) ==
  /\ Len(a) = b - 1 - e.pos
  /\ \A i \in 1 .. Len(a) : e.buf[e.pos + i] = a[i]

Good(e, a, b) ==
  \/ Alive(e, b) /\ EndHolds(e, a, b)
  \/ Full(e) /\ Len(a) + 1 > b

LEMMA ByteFacts == Base \in Nat /\ Base >= 2 /\ 0 \in Byte /\ MaxGroups \in Nat /\ MaxGroups >= 1
BY WireAssumption DEF Byte

(* A varint is a sequence of bytes, whatever its value. *)
LEMMA VarintLengthIs ==
  ASSUME NEW v
  PROVE  /\ VarintLength(v) \in 1 .. MaxGroups
         /\ VarintLength(v) < MaxGroups => Shifts(v, Base, MaxGroups)[VarintLength(v)] = 0
         /\ \A n \in 1 .. VarintLength(v) - 1 : Shifts(v, Base, MaxGroups)[n] # 0
<1> DEFINE ends == {n \in 1 .. MaxGroups : Shifts(v, Base, MaxGroups)[n] = 0}
           S == {MaxGroups} \cup ends
<1>1. S \in SUBSET Nat /\ S # {} /\ S \subseteq 1 .. MaxGroups
  BY ByteFacts
<1>2. VarintLength(v) = Min(S)
  BY DEF VarintLength
<1>3. Min(S) \in S /\ \A x \in S : Min(S) <= x
  <2> HIDE DEF S
  <2> QED BY <1>1, MinExists
<1> DEFINE k == Min(S)
<1>4. k \in 1 .. MaxGroups /\ (k < MaxGroups => k \in ends)
  <2>1. k \in S
    BY <1>3
  <2> HIDE DEF k
  <2>2. k \in 1 .. MaxGroups /\ MaxGroups \in Nat
    BY <1>1, <2>1, ByteFacts
  <2> QED BY <2>1, <2>2
<1>5. ASSUME NEW n \in 1 .. k - 1, n \in ends PROVE FALSE
  <2>1. k <= n
    BY <1>3, <1>5
  <2> HIDE DEF k
  <2>2. k \in Int
    BY <1>4
  <2> QED BY <2>1, <2>2
<1>6. \A n \in 1 .. k - 1 : n \in 1 .. MaxGroups
  <2> HIDE DEF k
  <2> QED BY <1>4, ByteFacts
<1> HIDE DEF S
<1>7. k < MaxGroups => Shifts(v, Base, MaxGroups)[k] = 0
  BY <1>4
<1>8. \A n \in 1 .. k - 1 : Shifts(v, Base, MaxGroups)[n] # 0
  <2> HIDE DEF k
  <2> QED BY <1>5, <1>6
<1> QED BY <1>2, <1>4, <1>7, <1>8

LEMMA VarintLen == ASSUME NEW v PROVE Len(VarintBytes(v)) = VarintLength(v)
<1> DEFINE n == VarintLength(v)
           h(i) == DigitsOf(v, Base, n)[i] + (IF i < n THEN Base ELSE 0)
<1>1. n \in Nat
  BY VarintLengthIs, ByteFacts
<1>2. VarintBytes(v) = [i \in 1 .. n |-> h(i)]
  BY DEF VarintBytes
<1> HIDE DEF n, h
<1>3. Len([i \in 1 .. n |-> h(i)]) = n
  BY <1>1
<1> QED
  BY <1>2, <1>3 DEF n

LEMMA VarintBytesType ==
  ASSUME NEW v \in Int
  PROVE  VarintBytes(v) \in Seq(Byte) /\ VarintBytes(v) # <<>>
<1> DEFINE n == VarintLength(v)
           g(i) == DigitsOf(v, Base, n)[i]
           h(i) == g(i) + (IF i < n THEN Base ELSE 0)
<1>1. n \in Nat \ {0}
  BY VarintLengthIs, ByteFacts
<1>2. ASSUME NEW i \in 1 .. n PROVE g(i) \in 0 .. Base - 1
  <2>1. Base \in Nat \ {0} /\ n \in Nat
    BY <1>1, ByteFacts
  <2> HIDE DEF n
  <2>2. DigitsOf(v, Base, n) \in [1 .. n -> 0 .. Base - 1]
    BY <2>1, DigitsType
  <2> QED BY <2>2
<1>3. ASSUME NEW i \in 1 .. n PROVE h(i) \in Byte
  <2> HIDE DEF g
  <2> QED BY <1>2, ByteFacts DEF Byte
<1>4. VarintBytes(v) = [i \in 1 .. n |-> h(i)]
  BY DEF VarintBytes
<1> HIDE DEF n, h
<1>5. [i \in 1 .. n |-> h(i)] \in [1 .. n -> Byte]
  BY <1>3
<1>6. VarintBytes(v) \in Seq(Byte) /\ Len(VarintBytes(v)) = n
  BY <1>1, <1>4, <1>5, SeqDef
<1> QED
  BY <1>1, <1>6

LEMMA ConcatAssoc ==
  ASSUME NEW t \in Seq(Byte), NEW v \in Seq(Byte), NEW a \in Seq(Byte)
  PROVE  t \o (v \o a) = (t \o v) \o a
OBVIOUS

LEMMA ConcatBytes ==
  ASSUME NEW c \in Seq(Byte), NEW a \in Seq(Byte)
  PROVE  /\ c \o a \in Seq(Byte) /\ Len(c \o a) = Len(c) + Len(a)
         /\ \A i \in 1 .. Len(c \o a) :
              (c \o a)[i] = IF i <= Len(c) THEN c[i] ELSE a[i - Len(c)]
BY ConcatProperties

(* One chunk: it joins what is held, or the encoder aborts because it does not
   fit. *)
LEMMA AbortForm ==
  ASSUME NEW b \in Nat, NEW e \in EncType(b), e.size >= 0
  PROVE  /\ encoder_abort(e, ENCODE_BUFFER_FULL) \in EncType(b)
         /\ encoder_abort(e, ENCODE_BUFFER_FULL).size = -4
         /\ encoder_abort(e, ENCODE_BUFFER_FULL).pos = -4
<1> DEFINE B == [0 .. b - 1 -> Byte]
           m == -ENCODE_BUFFER_FULL
<1>1. encoder_abort(e, ENCODE_BUFFER_FULL) = [e EXCEPT !.size = m, !.pos = m]
  BY DEF encoder_abort
<1>2. m = -4 /\ m \in Int
  BY DEF ENCODE_BUFFER_FULL
<1>3. e \in [size : Int, pos : Int, buf : B]
  BY DEF EncType
<1> HIDE DEF B, m
<1>4. /\ [e EXCEPT !.size = m, !.pos = m] \in [size : Int, pos : Int, buf : B]
      /\ [e EXCEPT !.size = m, !.pos = m].size = m
      /\ [e EXCEPT !.size = m, !.pos = m].pos = m
  BY ONLY <1>2, <1>3
<1> QED BY <1>1, <1>2, <1>4 DEF EncType, B

LEMMA CopiedOK ==
  ASSUME NEW b \in Nat, NEW e \in EncType(b), NEW a \in Seq(Byte), NEW c \in Seq(Byte),
         Alive(e, b), EndHolds(e, a, b), e.pos >= Len(c)
  PROVE  /\ Copied(e, c) \in EncType(b)
         /\ Alive(Copied(e, c), b) /\ EndHolds(Copied(e, c), c \o a, b)
<1> DEFINE n == Len(c)
           q == e.pos
           p == q - n
           buf == e.buf
           f == [i \in 0 .. b - 1 |-> IF i \in p + 1 .. q THEN c[i - p] ELSE buf[i]]
<1>1. n \in Nat /\ Len(a) \in Nat
  OBVIOUS
<1>2. q \in 0 .. b - 1 /\ n <= q
  BY <1>1 DEF Alive
<1>3. buf \in [0 .. b - 1 -> Byte]
  BY DEF EncType
<1>5. Len(a) = b - 1 - q /\ \A i \in 1 .. Len(a) : buf[q + i] = a[i]
  BY DEF EndHolds
<1>6. \A j \in 1 .. n : c[j] \in Byte
  BY ElementOfSeq
<1>7. Len(c \o a) = n + Len(a)
  BY ConcatBytes
<1>8. \A i \in 1 .. n + Len(a) : (c \o a)[i] = IF i <= n THEN c[i] ELSE a[i - n]
  BY ConcatBytes, <1>7
<1> HIDE DEF n, q, buf
<1>9. p \in 0 .. b - 1 /\ p \in Int /\ q \in Int /\ p = q - n
  BY <1>1, <1>2
<1>10. f \in [0 .. b - 1 -> Byte]
  <2>1. \A i \in 0 .. b - 1 : i \in p + 1 .. q => i - p \in 1 .. n
    BY <1>1, <1>9
  <2> HIDE DEF p
  <2> QED BY <1>3, <1>6, <2>1
<1>11. ASSUME NEW i \in 1 .. n + Len(a) PROVE f[p + i] = (c \o a)[i]
  <2>1. p + i \in 0 .. b - 1 /\ i \in Int
    BY <1>1, <1>2, <1>5
  <2> HIDE DEF p
  <2>2. PICK j \in 0 .. b - 1 : j = p + i
    BY <2>1
  <2>3. f[j] = IF j \in p + 1 .. q THEN c[j - p] ELSE buf[j]
    OBVIOUS
  <2> HIDE DEF f
  <2>4. CASE i <= n
    <3>1. j \in p + 1 .. q /\ j - p = i
      BY <1>1, <1>9, <2>1, <2>2, <2>4
    <3> QED BY <1>8, <2>2, <2>3, <2>4, <3>1
  <2>5. CASE ~ (i <= n)
    <3>1. ~ (j \in p + 1 .. q)
      BY <1>1, <1>9, <2>1, <2>2, <2>5
    <3>2. i - n \in 1 .. Len(a) /\ j = q + (i - n)
      BY <1>1, <1>9, <2>1, <2>2, <2>5
    <3>3. buf[j] = a[i - n]
      BY <1>5, <3>2
    <3> QED BY <1>8, <2>2, <2>3, <2>5, <3>1, <3>3
  <2> QED BY <2>4, <2>5
<1> HIDE DEF f
<1>12. n + Len(a) = b - 1 - p
  BY <1>1, <1>5, <1>9
<1> HIDE DEF p
<1>13. /\ Copied(e, c) \in EncType(b)
       /\ Copied(e, c).size = b /\ Copied(e, c).pos = p /\ Copied(e, c).buf = f
  <2>1. e.size = b
    BY DEF Alive
  <2>2. DOMAIN e.buf = 0 .. b - 1
    BY DEF EncType
  <2>3. Copied(e, c) = [e EXCEPT !.pos = p, !.buf = f]
    BY <2>2 DEF Copied, f, p, q, n, buf
  <2> DEFINE B == [0 .. b - 1 -> Byte]
  <2>4. e \in [size : Int, pos : Int, buf : B] /\ f \in B /\ p \in Int
    BY <1>9, <1>10 DEF EncType
  <2> HIDE DEF B
  <2>5. /\ [e EXCEPT !.pos = p, !.buf = f] \in [size : Int, pos : Int, buf : B]
        /\ [e EXCEPT !.pos = p, !.buf = f].size = e.size
        /\ [e EXCEPT !.pos = p, !.buf = f].pos = p
        /\ [e EXCEPT !.pos = p, !.buf = f].buf = f
    BY ONLY <2>4
  <2>6. /\ Copied(e, c) \in [size : Int, pos : Int, buf : B]
        /\ Copied(e, c).size = b /\ Copied(e, c).pos = p /\ Copied(e, c).buf = f
    BY ONLY <2>1, <2>3, <2>5
  <2> QED BY <2>6 DEF EncType, B
<1>14. Alive(Copied(e, c), b)
  BY <1>9, <1>13 DEF Alive
<1>15. EndHolds(Copied(e, c), c \o a, b)
  BY <1>7, <1>11, <1>12, <1>13 DEF EndHolds
<1> QED BY <1>13, <1>14, <1>15

LEMMA FullStays ==
  ASSUME NEW b, NEW e \in EncType(b), Full(e), NEW c, Len(c) \in Nat
  PROVE  encoder_write(e, c) = e
<1>1. ~ (e.pos >= Len(c)) /\ ~ (e.size >= 0)
  BY DEF Full, ENCODE_BUFFER_FULL
<1> QED BY <1>1 DEF encoder_write, encoder_abort

LEMMA WriteOK ==
  ASSUME NEW b \in Nat, NEW e \in EncType(b), NEW a \in Seq(Byte), NEW c \in Seq(Byte),
         Good(e, a, b)
  PROVE  encoder_write(e, c) \in EncType(b) /\ Good(encoder_write(e, c), c \o a, b)
<1>1. Len(c) \in Nat /\ Len(a) \in Nat /\ Len(c \o a) = Len(c) + Len(a)
  BY ConcatBytes
<1>2. CASE Alive(e, b) /\ EndHolds(e, a, b) /\ e.pos >= Len(c)
  BY <1>2, CopiedOK DEF encoder_write, Good
<1>3. CASE Alive(e, b) /\ EndHolds(e, a, b) /\ ~ (e.pos >= Len(c))
  <2>1. encoder_write(e, c) = encoder_abort(e, ENCODE_BUFFER_FULL)
    BY <1>3 DEF encoder_write
  <2>2. e.size >= 0
    BY <1>3 DEF Alive
  <2>3. encoder_write(e, c) \in EncType(b)
    BY <2>1, <2>2, AbortForm
  <2>4. Full(encoder_write(e, c))
    BY <2>1, <2>2, AbortForm DEF Full, ENCODE_BUFFER_FULL
  <2>7. Len(c \o a) + 1 > b
    BY <1>1, <1>3 DEF Alive, EndHolds
  <2> QED BY <2>3, <2>4, <2>7 DEF Good
<1>4. CASE Full(e) /\ Len(a) + 1 > b
  <2>1. encoder_write(e, c) = e
    BY <1>1, <1>4, FullStays
  <2> QED BY <1>1, <1>4, <2>1 DEF Good
<1> QED BY <1>2, <1>3, <1>4 DEF Good

(* A tag and the varint after it. *)
LEMMA HeaderOK ==
  ASSUME NEW b \in Nat, NEW e \in EncType(b), NEW a \in Seq(Byte), Good(e, a, b),
         NEW field \in Nat, NEW wire_type \in Nat, NEW value \in Nat
  PROVE  LET w == encoder_write_tagged_varint_always(e, field, wire_type, value)
             h == VarintBytes(Tag(field, wire_type)) \o VarintBytes(value)
         IN  h \in Seq(Byte) /\ w \in EncType(b) /\ Good(w, h \o a, b)
<1> DEFINE v == VarintBytes(value)
           t == VarintBytes(Tag(field, wire_type))
           w1 == encoder_write(e, v)
<1>1. v \in Seq(Byte) /\ t \in Seq(Byte)
  <2>1. Tag(field, wire_type) \in Nat
    BY DEF Tag
  <2> QED BY <2>1, VarintBytesType
<1>2. encoder_write_tagged_varint_always(e, field, wire_type, value) = encoder_write(w1, t)
  BY DEF encoder_write_tagged_varint_always, encoder_write_tag, encoder_write_varint
<1> HIDE DEF v, t, w1
<1>4. w1 \in EncType(b) /\ Good(w1, v \o a, b)
  BY <1>1, WriteOK DEF w1
<1>5. v \o a \in Seq(Byte) /\ t \o v \in Seq(Byte)
  BY <1>1, ConcatBytes
<1>6. encoder_write(w1, t) \in EncType(b) /\ Good(encoder_write(w1, t), t \o (v \o a), b)
  BY <1>1, <1>4, <1>5, WriteOK
<1>7. t \o (v \o a) = (t \o v) \o a
  BY <1>1, ConcatAssoc
<1> QED BY <1>2, <1>5, <1>6, <1>7 DEF t, v

LEMMA FullHeader ==
  ASSUME NEW b, NEW e \in EncType(b), Full(e), NEW field, NEW wire_type, NEW value
  PROVE  encoder_write_tagged_varint_always(e, field, wire_type, value) = e
<1>1. encoder_write(e, VarintBytes(value)) = e
  BY FullStays, VarintLen, VarintLengthIs, ByteFacts
<1>2. encoder_write(e, VarintBytes(Tag(field, wire_type))) = e
  BY FullStays, VarintLen, VarintLengthIs, ByteFacts
<1> QED BY <1>1, <1>2
     DEF encoder_write_tagged_varint_always, encoder_write_tag, encoder_write_varint
-----------------------------------------------------------------------------
(* What an encoder wrote, read by a decoder. *)
(* What is left of d, a decoder in use, is s. *)
Left(in, d, s) ==
  /\ d \in Decoders /\ Live(d) /\ decoder_left(d) = Len(s)
  /\ \A i \in 1 .. Len(s) : in[d.base + d.pos + i] = s[i]

LEMMA LeftIs ==
  ASSUME NEW S, NEW s \in Seq(S), NEW in, NEW d, Left(in, d, s)
  PROVE  /\ d.base \in Int /\ d.size \in Int /\ d.pos \in Nat /\ d.size <= IntMax
         /\ d.size = d.pos + Len(s) /\ Len(s) \in Nat
         /\ d = [base |-> d.base, size |-> d.size, pos |-> d.pos]
         /\ pbtools_decoder_available(d) <=> s # <<>>
<1>1. d \in Decoders /\ Live(d) /\ decoder_left(d) = Len(s) /\ Len(s) \in Nat
  BY DEF Left
<1>2. d.base \in Int /\ d.size \in Int /\ d.pos \in Int /\ d = [base |-> d.base, size |-> d.size, pos |-> d.pos]
  BY <1>1 DEF Decoders
<1>3. Len(s) = 0 <=> s = <<>>
  BY EmptySeq
<1> QED BY <1>1, <1>2, <1>3, IntAssumption DEF Live, decoder_left, pbtools_decoder_available

LEMMA LeftTaken ==
  ASSUME NEW S, NEW a \in Seq(S), NEW b \in Seq(S), NEW in, NEW d, Left(in, d, a \o b)
  PROVE  /\ Left(in, Advanced(d, Len(a)), b)
         /\ \A i \in 1 .. Len(a) : in[d.base + d.pos + i] = a[i]
         /\ Len(a) \in Nat /\ Len(a) <= decoder_left(d)
<1> DEFINE s == a \o b
           e == Advanced(d, Len(a))
<1>1. /\ s \in Seq(S) /\ Len(s) = Len(a) + Len(b) /\ Len(a) \in Nat /\ Len(b) \in Nat
      /\ \A i \in 1 .. Len(a) : s[i] = a[i]
      /\ \A i \in 1 .. Len(b) : s[Len(a) + i] = b[i]
  BY JoinOn
<1> HIDE DEF s
<1>2. Left(in, d, s)
  BY DEF s
<1>3. /\ d.base \in Int /\ d.size \in Int /\ d.pos \in Nat /\ d.size <= IntMax
      /\ d.size = d.pos + Len(s)
  BY <1>1, <1>2, LeftIs
<1>4. \A i \in 1 .. Len(s) : in[d.base + d.pos + i] = s[i]
  BY <1>2 DEF Left
<1>5. e = [base |-> d.base, size |-> d.size, pos |-> d.pos + Len(a)]
  BY DEF Advanced
<1>6. e \in Decoders /\ Live(e) /\ decoder_left(e) = Len(b)
  BY <1>1, <1>3, <1>5 DEF Decoders, Live, decoder_left
<1>7. ASSUME NEW i \in 1 .. Len(b) PROVE in[e.base + e.pos + i] = b[i]
  <2>1. Len(a) + i \in 1 .. Len(s) /\ e.base + e.pos + i = d.base + d.pos + (Len(a) + i)
    BY <1>1, <1>3, <1>5
  <2> HIDE DEF e
  <2> QED BY <1>1, <1>4, <2>1
<1>8. \A i \in 1 .. Len(a) : in[d.base + d.pos + i] = a[i]
  <2> TAKE i \in 1 .. Len(a)
  <2>1. i \in 1 .. Len(s)
    BY <1>1
  <2> QED BY <1>1, <1>4, <2>1
<1>9. Len(a) <= decoder_left(d)
  BY <1>1, <1>3 DEF decoder_left
<1> HIDE DEF e
<1> QED BY <1>1, <1>6, <1>7, <1>8, <1>9 DEF Left, e

(* The digits of a varint: every byte but the last has the continuation bit. *)
LEMMA VarintDigits ==
  ASSUME NEW v \in 0 .. Word - 1
  PROVE  LET n == VarintLength(v)
         IN  /\ n \in 1 .. MaxGroups /\ Len(VarintBytes(v)) = n
             /\ FromDigits(DigitsOf(v, Base, n), Base, n) = v
             /\ DigitsOf(v, Base, n) \in [1 .. n -> 0 .. Base - 1]
             /\ \A i \in 1 .. n :
                  VarintBytes(v)[i] = DigitsOf(v, Base, n)[i] + (IF i < n THEN Base ELSE 0)
<1> DEFINE n == VarintLength(v)
           digits == DigitsOf(v, Base, n)
<1>1. n \in 1 .. MaxGroups /\ Len(VarintBytes(v)) = n
  BY VarintLengthIs, VarintLen
<1>2. v \in Nat /\ v \in Int /\ Base \in Nat \ {0} /\ MaxGroups \in Nat /\ v < Power(Base, MaxGroups)
  <2>1. Word \in Nat /\ Word <= Power(Base, MaxGroups) /\ Base \in Nat \ {0} /\ MaxGroups \in Nat
    BY WireAssumption, ScalarAssumption
  <2>2. PICK power \in [0 .. MaxGroups -> Nat \ {0}] : Power(Base, MaxGroups) = power[MaxGroups]
    BY <2>1, PowerIs
  <2>3. Power(Base, MaxGroups) \in Nat
    BY <2>1, <2>2
  <2> QED BY <2>1, <2>3
<1>3. Shifts(v, Base, MaxGroups)[MaxGroups] = 0
  BY <1>2, ShiftsEnd
<1>4. Shifts(v, Base, MaxGroups)[n] = 0
  <2>1. n < MaxGroups => Shifts(v, Base, MaxGroups)[n] = 0
    BY VarintLengthIs
  <2>2. n < MaxGroups \/ n = MaxGroups
    BY <1>1, <1>2
  <2> QED BY <1>3, <2>1, <2>2
<1>5. VarintBytes(v) = [i \in 1 .. n |-> digits[i] + (IF i < n THEN Base ELSE 0)]
  BY DEF VarintBytes
<1> HIDE DEF n
<1>6. n \in Nat /\ n \in 0 .. MaxGroups
  BY <1>1, <1>2
<1>7. Shifts(v, Base, n)[n] = 0
  BY <1>2, <1>4, <1>6, ShiftsShorter
<1>8. FromDigits(digits, Base, n) = v
  BY <1>2, <1>6, <1>7, DigitsBack
<1>9. digits \in [1 .. n -> 0 .. Base - 1]
  BY <1>2, <1>6, DigitsType
<1> HIDE DEF digits
<1>10. \A i \in 1 .. n : VarintBytes(v)[i] = digits[i] + (IF i < n THEN Base ELSE 0)
  BY <1>5
<1> QED BY <1>1, <1>8, <1>9, <1>10 DEF n, digits

(* What encoder_write_varint writes, decoder_read_varint reads, every value of
   uint64_t, from as many bytes as were written. *)
THEOREM VarintRoundTrip ==
  ASSUME NEW v \in 0 .. Word - 1, NEW rest \in Seq(Byte), NEW in, NEW d,
         Left(in, d, VarintBytes(v) \o rest)
  PROVE  /\ decoder_read_varint(in, d) = [dec |-> Advanced(d, Len(VarintBytes(v))), value |-> v]
         /\ Left(in, Advanced(d, Len(VarintBytes(v))), rest)
<1> DEFINE s == VarintBytes(v)
           n == Len(s)
           digits == DigitsOf(v, Base, n)
           at == d.base + d.pos
           room == VarintRoom(d)
           ends == VarintEnds(in, d)
<1>1. s \in Seq(Byte) /\ s # <<>>
  <2>1. v \in Int
    BY WireAssumption
  <2> QED BY <2>1, VarintBytesType
<1>2. /\ n \in 1 .. MaxGroups /\ FromDigits(digits, Base, n) = v
      /\ digits \in [1 .. n -> 0 .. Base - 1]
      /\ \A i \in 1 .. n : s[i] = digits[i] + (IF i < n THEN Base ELSE 0)
  BY VarintDigits
<1> HIDE DEF s
<1>3. /\ Left(in, Advanced(d, n), rest) /\ n \in Nat /\ n <= decoder_left(d)
      /\ \A i \in 1 .. n : in[at + i] = s[i]
  BY <1>1, LeftTaken DEF s
<1>4. /\ d.base \in Int /\ d.size \in Int /\ d.pos \in Nat /\ decoder_left(d) \in Nat
      /\ d = [base |-> d.base, size |-> d.size, pos |-> d.pos]
  <2>1. s \o rest \in Seq(Byte) /\ Left(in, d, s \o rest)
    BY <1>1, JoinOn DEF s
  <2> DEFINE w == s \o rest
  <2> HIDE DEF w
  <2>2. /\ d.base \in Int /\ d.size \in Int /\ d.pos \in Nat /\ Len(w) \in Nat
        /\ d = [base |-> d.base, size |-> d.size, pos |-> d.pos] /\ decoder_left(d) = Len(w)
    <3>1. w \in Seq(Byte) /\ Left(in, d, w)
      BY <2>1 DEF w
    <3>2. decoder_left(d) = Len(w)
      BY <3>1 DEF Left
    <3> QED BY <3>1, <3>2, LeftIs
  <2> QED BY <2>2
<1>5. Base \in Nat /\ Base >= 2 /\ MaxGroups \in Nat /\ n >= 1 /\ n <= MaxGroups
  BY <1>2, ByteFacts
<1> HIDE DEF n, digits, at
<1>6. room \in Nat /\ n <= room
  <2>1. pbtools_decoder_available(d)
    BY <1>3, <1>4, <1>5 DEF pbtools_decoder_available, decoder_left
  <2>2. Min({decoder_left(d), MaxGroups}) \in {decoder_left(d), MaxGroups}
    BY <1>4, <1>5, MinExists
  <2> QED BY <1>3, <1>4, <1>5, <2>1, <2>2 DEF VarintRoom
<1>7. \A i \in 1 .. n : in[at + i] < Base <=> i = n
  <2> TAKE i \in 1 .. n
  <2>1. in[at + i] = digits[i] + (IF i < n THEN Base ELSE 0) /\ digits[i] \in 0 .. Base - 1
    BY <1>2, <1>3
  <2> QED BY <1>3, <1>5, <2>1
<1>8. ends = {i \in 1 .. room : in[at + i] < Base}
  BY DEF VarintEnds, at
<1> HIDE DEF room, ends
<1>9. /\ n \in ends /\ ends \subseteq Nat /\ \A i \in ends : n <= i
  <2>1. \A i \in ends : i \in 1 .. n => i = n
    BY <1>7, <1>8
  <2> QED BY <1>3, <1>5, <1>6, <1>7, <1>8, <2>1
<1>10. Min(ends) = n /\ Min(ends \cup {room}) = n
  <2>1. Min(ends) \in ends /\ \A x \in ends : Min(ends) <= x
    BY <1>9, MinExists
  <2>2. ends \cup {room} \in SUBSET Nat /\ ends \cup {room} # {}
    BY <1>6, <1>9
  <2>3. Min(ends \cup {room}) \in ends \cup {room} /\ \A x \in ends \cup {room} : Min(ends \cup {room}) <= x
    BY <2>2, MinExists
  <2> DEFINE p == Min(ends)  q == Min(ends \cup {room})
  <2>4. p \in Nat /\ p <= n /\ n <= p
    BY <1>9, <2>1
  <2>5. q \in Nat /\ q <= n /\ n <= q
    BY <1>6, <1>9, <2>2, <2>3
  <2> HIDE DEF p, q
  <2>6. p = n /\ q = n
    BY <1>3, <2>4, <2>5
  <2> QED BY <2>6 DEF p, q
<1>11. GroupsValue(in, at, n) = v
  <2>1. ASSUME NEW i \in 1 .. n PROVE in[at + i] % Base = digits[i]
    <3>1. in[at + i] = digits[i] + (IF i < n THEN Base ELSE 0) /\ digits[i] \in 0 .. Base - 1
      BY <1>2, <1>3
    <3> DEFINE x == digits[i]
    <3>2. PICK a \in Nat : in[at + i] = x + Base * a /\ x \in 0 .. Base - 1
      <4>1. Base * 0 = 0 /\ Base * 1 = Base
        BY <1>5
      <4>2. x + Base * 0 = x
        BY <3>1, <4>1
      <4> QED BY <3>1, <4>1, <4>2
    <3> HIDE DEF x
    <3>3. Base \in Nat \ {0}
      BY <1>5
    <3> QED BY <3>2, <3>3, DivideBack DEF x
  <2>2. [i \in 1 .. n |-> in[at + i] % Base] = digits
    BY <1>2, <2>1
  <2>3. v % Word = v
    BY WireAssumption
  <2> QED BY <1>2, <2>2, <2>3 DEF GroupsValue
<1>12. decoder_read_varint(in, d) = [dec |-> [d EXCEPT !.pos = @ + Min(ends)],
                                     value |-> GroupsValue(in, at, Min(ends \cup {room}))]
  <2>1. ends # {}
    BY <1>9
  <2> QED BY <2>1 DEF decoder_read_varint, VarintRead, ends, room, at
<1>13. [d EXCEPT !.pos = @ + n] = Advanced(d, n)
  BY <1>4 DEF Advanced
<1> QED BY <1>3, <1>10, <1>11, <1>12, <1>13 DEF n, s

LEMMA TagIs ==
  ASSUME NEW n \in Nat \ {0}, NEW w \in 0 .. 7
  PROVE  Tag(n, w) \in Nat /\ Tag(n, w) >= 8 /\ Tag(n, w) \div 8 = n /\ Tag(n, w) % 8 = w
BY DEF Tag

(* The tag of a field comes back with its number and its wire type. *)
THEOREM TagRoundTrip ==
  ASSUME NEW n \in Nat \ {0}, NEW w \in 0 .. 7, Tag(n, w) < Uint32,
         NEW rest \in Seq(Byte), NEW in, NEW d, Left(in, d, VarintBytes(Tag(n, w)) \o rest)
  PROVE  LET e == Advanced(d, Len(VarintBytes(Tag(n, w))))
         IN  /\ pbtools_decoder_read_tag(in, d) = [dec |-> e, field_number |-> n, wire_type |-> w]
             /\ Left(in, e, rest)
<1> DEFINE v == Tag(n, w)
           e == Advanced(d, Len(VarintBytes(v)))
<1>1. v \in Nat /\ v >= 8 /\ v \div 8 = n /\ v % 8 = w /\ v < Uint32
  BY TagIs
<1>2. Uint32 \in Nat /\ Uint32 <= Word /\ Word \in Nat /\ Uint32 = 2 * (IntMax + 1)
  BY Widths
<1> HIDE DEF v
<1>3. v \in 0 .. Word - 1 /\ v % (2 * (IntMax + 1)) = v
  BY <1>1, <1>2
<1>4. decoder_read_varint(in, d) = [dec |-> e, value |-> v] /\ Left(in, e, rest)
  BY <1>3, VarintRoundTrip DEF v
<1> HIDE DEF e
<1>5. pbtools_decoder_read_tag(in, d) = TagOf(e, v)
  BY <1>3, <1>4 DEF pbtools_decoder_read_tag, TagRead
<1>6. TagOf(e, v) = [dec |-> e, field_number |-> n, wire_type |-> w]
  <2>1. ~ (v < 8)
    BY <1>1
  <2> QED BY <1>1, <2>1 DEF TagOf
<1> QED BY <1>4, <1>5, <1>6 DEF e, v

(* So does the length of a content, below INT_MAX. *)
THEOREM LengthRoundTrip ==
  ASSUME NEW n \in 0 .. IntMax - 1, NEW rest \in Seq(Byte), NEW in, NEW d,
         Left(in, d, VarintBytes(n) \o rest)
  PROVE  LET e == Advanced(d, Len(VarintBytes(n)))
         IN  /\ decoder_read_length_delimited(in, d, LENGTH_DELIMITED) = [dec |-> e, value |-> n]
             /\ Left(in, e, rest)
<1>1. Uint32 \in Nat /\ Uint32 <= Word /\ Word \in Nat /\ Uint32 = 2 * (IntMax + 1) /\ IntMax \in Nat
  BY Widths, IntAssumption
<1>2. n \in 0 .. Word - 1 /\ n < IntMax
  BY <1>1
<1> DEFINE e == Advanced(d, Len(VarintBytes(n)))
<1>3. decoder_read_varint(in, d) = [dec |-> e, value |-> n] /\ Left(in, e, rest)
  BY <1>2, VarintRoundTrip
<1> HIDE DEF e
<1> QED BY <1>2, <1>3 DEF decoder_read_length_delimited, read_varint_check_wire_type, LengthOf, e

(* A seek, a read and a slice of so many bytes as are there. *)
LEMMA SeekTakes ==
  ASSUME NEW S, NEW a \in Seq(S), NEW b \in Seq(S), NEW in, NEW d, Left(in, d, a \o b)
  PROVE  /\ decoder_seek(d, Len(a)) = Advanced(d, Len(a))
         /\ decoder_read(d, Len(a)) = Advanced(d, Len(a))
         /\ int(Len(a)) = Len(a)
<1> DEFINE s == a \o b
           n == Len(a)
<1>1. s \in Seq(S) /\ Left(in, d, s)
  BY JoinOn
<1>2. n \in Nat /\ n <= decoder_left(d)
  BY LeftTaken
<1> HIDE DEF s, n
<1>3. /\ d.pos \in Nat /\ d.size \in Int /\ d.size <= IntMax
      /\ d = [base |-> d.base, size |-> d.size, pos |-> d.pos]
  BY <1>1, LeftIs
<1>4. d.pos + n <= d.size /\ n \in 0 .. IntMax /\ IntMax \in Nat
  BY <1>2, <1>3, IntAssumption DEF decoder_left
<1>5. [d EXCEPT !.pos = @ + n] = Advanced(d, n)
  BY <1>3 DEF Advanced
<1>6. decoder_seek(d, n) = [d EXCEPT !.pos = @ + n]
  BY <1>3, <1>4 DEF decoder_seek
<1>7. decoder_read(d, n) = [d EXCEPT !.pos = @ + n]
  BY <1>2 DEF decoder_read
<1>8. int(n) = n
  BY <1>4, IntOfInt
<1> QED BY <1>5, <1>6, <1>7, <1>8 DEF n

LEMMA SliceTakes ==
  ASSUME NEW S, NEW a \in Seq(S), NEW b \in Seq(S), NEW in, NEW d, Left(in, d, a \o b)
  PROVE  LET e == decoder_init_slice(d, Len(a))
         IN  Left(in, e, a) /\ e.pos = 0 /\ e.size = Len(a)
<1> DEFINE s == a \o b
           n == Len(a)
           e == decoder_init_slice(d, n)
<1>1. s \in Seq(S) /\ Left(in, d, s)
  BY JoinOn
<1>2. n \in Nat /\ n <= decoder_left(d) /\ \A i \in 1 .. n : in[d.base + d.pos + i] = a[i]
  BY LeftTaken
<1> HIDE DEF s, n
<1>3. d.base \in Int /\ d.size \in Int /\ d.pos \in Nat /\ d.size <= IntMax
  BY <1>1, LeftIs
<1>4. e = [base |-> d.base + d.pos, size |-> n, pos |-> 0]
  BY <1>2 DEF decoder_init_slice, Slice
<1>5. e \in Decoders /\ Live(e) /\ decoder_left(e) = n
  <2>1. n <= IntMax /\ d.base + d.pos \in Int
    <3>1. n \in Nat /\ n <= d.size - d.pos
      BY <1>2 DEF decoder_left
    <3> QED BY <1>3, <3>1, IntAssumption
  <2>2. e.base = d.base + d.pos /\ e.size = n /\ e.pos = 0
    BY <1>4
  <2>3. e \in Decoders
    BY <1>2, <1>4, <2>1 DEF Decoders
  <2> HIDE DEF e
  <2> QED BY <1>2, <2>1, <2>2, <2>3 DEF Live, decoder_left
<1>6. \A i \in 1 .. n : in[e.base + e.pos + i] = a[i]
  <2> TAKE i \in 1 .. n
  <2>1. e.base + e.pos + i = d.base + d.pos + i
    BY <1>3, <1>4
  <2> QED BY <1>2, <2>1
<1> HIDE DEF e
<1> QED BY <1>4, <1>5, <1>6 DEF Left, e, n

(* The slice of all that is left. *)
LEMMA SliceOfAll ==
  ASSUME NEW S, NEW s \in Seq(S), NEW in, NEW d, Left(in, d, s)
  PROVE  LET e == decoder_init_slice(d, decoder_left(d))
         IN  Left(in, e, s) /\ e.pos = 0 /\ e.size = Len(s)
<1>1. s \o <<>> = s /\ <<>> \in Seq(S)
  BY ConcatEmptySeq
<1>2. Left(in, d, s \o <<>>)
  BY <1>1
<1>3. decoder_left(d) = Len(s)
  BY DEF Left
<1> QED BY <1>1, <1>2, <1>3, SliceTakes
=============================================================================
