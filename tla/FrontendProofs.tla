--------------------------- MODULE FrontendProofs ---------------------------
(***************************************************************************)
(* The order of declarations, for messages of any number that use one      *)
(* another in any way.  The list being sorted has every message placed so  *)
(* far once (Placed).  A new one goes behind the last of its users, and    *)
(* only to the front if it has none; whom it uses itself is then behind it *)
(* when the order in the file guarantees it.                               *)
(*                                                                         *)
(* Then the comments, for every text over any characters.  What has come   *)
(* out so far is the text up to where the scan last went into code or a    *)
(* comment (CodeOK, CommentOK); between two markers the way a character is *)
(* read does not change.                                                   *)
(*                                                                         *)
(* Then the types of fields, for every file.  Where a name is looked up is *)
(* read off the namespaces one by one (InScope, Qualified), and what is    *)
(* found there is the type of that full name (Denoted), or what the        *)
(* property says of the other cases; KindsInv carries that along.          *)
(*                                                                         *)
(* Last, the order of the messages of a file.  While it is being sorted,   *)
(* every list holds the messages of its path once (OrderInv), used ones    *)
(* first where the file guarantees it (SortedGroup).  Two messages part in *)
(* one of the lists, which is the order of their structs (HeldIsFirst).    *)
(***************************************************************************)
EXTENDS Frontend, OperatorProofs

Placed ==
  /\ reversed_sorted \in Seq(Nat)
  /\ \A i \in 1 .. Len(reversed_sorted) : reversed_sorted[i] \in 1 .. Len(reversed_sorted)

SortInv == Placed /\ DeclaredFirst

Users(message) == {i \in DOMAIN reversed_sorted : <<reversed_sorted[i], message>> \in uses}

(* insert_index is no users' position, or the last of them. *)
LEMMA InsertIndex ==
  ASSUME Placed, NEW message
  PROVE  LET k == insert_index(message)
         IN  /\ k \in 0 .. Len(reversed_sorted)
             /\ \A i \in Users(message) : i <= k
             /\ Users(message) = {} => k = 0
<1> DEFINE S == Users(message)
<1>1. Len(reversed_sorted) \in Nat /\ DOMAIN reversed_sorted = 1 .. Len(reversed_sorted)
  BY DEF Placed
<1>2. S \in SUBSET (1 .. Len(reversed_sorted))
  BY <1>1 DEF Users
<1>3. insert_index(message) = IF S = {} THEN 0 ELSE Max(S)
  BY DEF insert_index, Users
<1>4. CASE S = {}
  BY <1>1, <1>3, <1>4
<1>5. CASE S # {}
  <2>1. Max(S) \in S /\ \A x \in S : x <= Max(S)
    <3> HIDE DEF S
    <3> QED BY <1>1, <1>2, <1>5, MaxExists
  <2> QED
    BY <1>1, <1>2, <1>3, <1>5, <2>1
<1> QED
  BY <1>4, <1>5

LEMMA InsertAtIs ==
  ASSUME NEW q, NEW j, NEW x, NEW n, n = j - 1
  PROVE  InsertAt(q, j, x) = SubSeq(q, 1, n) \o <<x>> \o SubSeq(q, j, Len(q))
BY DEF InsertAt

(* What InsertAt leaves where. *)
LEMMA Inserted ==
  ASSUME NEW s \in Seq(Nat), NEW k \in 0 .. Len(s), NEW m \in Nat
  PROVE  LET r == InsertAt(s, k + 1, m)
         IN  /\ r \in Seq(Nat) /\ Len(r) = Len(s) + 1
             /\ \A i \in 1 .. Len(s) + 1 :
                  r[i] = IF i <= k THEN s[i] ELSE IF i = k + 1 THEN m ELSE s[i - 1]
<1> DEFINE a == SubSeq(s, 1, k)
           b == SubSeq(s, k + 1, Len(s))
<1>1. a \in Seq(Nat) /\ Len(a) = k /\ \A i \in 1 .. k : a[i] = s[i]
  <2>1. CASE k = 0
    BY <2>1
  <2>2. CASE k > 0
    BY <2>2
  <2> QED
    BY <2>1, <2>2
<1>2. b \in Seq(Nat) /\ Len(b) = Len(s) - k /\ \A i \in 1 .. Len(s) - k : b[i] = s[k + i]
  <2>1. k \in Nat /\ k + 1 \in Int /\ Len(s) \in Nat /\ \A i \in k + 1 .. Len(s) : s[i] \in Nat
    OBVIOUS
  <2>2. /\ b \in Seq(Nat)
        /\ Len(b) = IF k + 1 <= Len(s) THEN Len(s) - (k + 1) + 1 ELSE 0
        /\ \A i \in 1 .. Len(s) - (k + 1) + 1 : b[i] = s[k + 1 + i - 1]
    BY <2>1, SubSeqProperties
  <2>4. \A i \in 1 .. Len(s) - k : b[i] = s[k + i]
    <3> TAKE i \in 1 .. Len(s) - k
    <3>1. k + 1 + i - 1 = k + i /\ i \in 1 .. Len(s) - (k + 1) + 1
      BY <2>1
    <3> HIDE DEF b
    <3> QED
      BY <2>2, <3>1
  <2>5. Len(b) = Len(s) - k
    BY <2>1, <2>2
  <2> QED
    BY <2>2, <2>4, <2>5
<1>3. InsertAt(s, k + 1, m) = a \o <<m>> \o b
  <2>1. k = (k + 1) - 1
    OBVIOUS
  <2> QED
    BY <2>1, InsertAtIs
<1> HIDE DEF a, b
<1>4. \A i \in 1 .. k + 1 : (a \o <<m>>)[i] = IF i <= k THEN s[i] ELSE m
  BY <1>1
<1>5. a \o <<m>> \in Seq(Nat) /\ Len(a \o <<m>>) = k + 1
  BY <1>1
<1> DEFINE c == a \o <<m>>
<1> HIDE DEF c
<1>6. /\ c \o b \in Seq(Nat) /\ Len(c \o b) = Len(s) + 1
      /\ \A i \in 1 .. Len(s) + 1 : (c \o b)[i] = IF i <= k + 1 THEN c[i] ELSE b[i - (k + 1)]
  <2>1. c \in Seq(Nat) /\ Len(c) = k + 1
    BY <1>5 DEF c
  <2>2. /\ c \o b \in Seq(Nat) /\ Len(c \o b) = Len(c) + Len(b)
        /\ \A i \in 1 .. Len(c) + Len(b) :
             (c \o b)[i] = IF i <= Len(c) THEN c[i] ELSE b[i - Len(c)]
    BY <1>2, <2>1, ConcatProperties, Zenon
  <2>3. Len(c) + Len(b) = Len(s) + 1
    BY <1>2, <2>1
  <2> QED
    BY <2>1, <2>2, <2>3, Zenon
<1>7. \A i \in k + 2 .. Len(s) + 1 : b[i - (k + 1)] = s[i - 1]
  <2> TAKE i \in k + 2 .. Len(s) + 1
  <2>1. i - (k + 1) \in 1 .. Len(s) - k /\ k + (i - (k + 1)) = i - 1
    OBVIOUS
  <2> QED
    BY <1>2, <2>1
<1>8. InsertAt(s, k + 1, m) = c \o b
  BY <1>3 DEF c
<1>9. \A i \in 1 .. k + 1 : c[i] = IF i <= k THEN s[i] ELSE m
  BY <1>4 DEF c
<1> DEFINE r == c \o b
<1>10. /\ r \in Seq(Nat) /\ Len(r) = Len(s) + 1
       /\ \A i \in 1 .. Len(s) + 1 : r[i] = IF i <= k + 1 THEN c[i] ELSE b[i - (k + 1)]
  BY <1>6
<1> HIDE DEF r
<1>11. ASSUME NEW i \in 1 .. Len(s) + 1
       PROVE  r[i] = IF i <= k THEN s[i] ELSE IF i = k + 1 THEN m ELSE s[i - 1]
  <2>1. Len(s) \in Nat /\ k \in Nat /\ k <= Len(s)
    OBVIOUS
  <2>2. CASE i <= k + 1
    <3>1. i \in 1 .. k + 1 /\ (~ (i <= k) => i = k + 1)
      BY <2>1, <2>2
    <3>2. r[i] = c[i]
      BY <1>10, <2>2
    <3>3. c[i] = IF i <= k THEN s[i] ELSE m
      BY <1>9, <3>1
    <3> QED
      BY <3>1, <3>2, <3>3
  <2>3. CASE i > k + 1
    <3>1. i \in k + 2 .. Len(s) + 1
      BY <2>1, <2>3
    <3>2. r[i] = b[i - (k + 1)]
      BY <1>10, <2>3
    <3>3. b[i - (k + 1)] = s[i - 1]
      BY <1>7, <3>1
    <3>4. r[i] = s[i - 1] /\ ~ (i <= k) /\ i # k + 1
      BY <2>1, <2>3, <3>2, <3>3
    <3> QED
      BY <3>4
  <2> QED
    BY <2>1, <2>2, <2>3
<1>12. r = InsertAt(s, k + 1, m)
  BY <1>8 DEF r
<1> QED
  BY <1>10, <1>11, <1>12

(* Placing the next message keeps the list and the order right. *)
LEMMA InsertStep == SortInv /\ InsertMessage => SortInv'
<1> SUFFICES ASSUME SortInv, InsertMessage PROVE SortInv'
  OBVIOUS
<1> DEFINE s == reversed_sorted
           m == Len(s) + 1
           k == insert_index(m)
           r == reversed_sorted'
<1>1. /\ s \in Seq(Nat) /\ Len(s) \in Nat /\ m \in Nat
      /\ \A i \in 1 .. Len(s) : s[i] \in 1 .. Len(s)
  BY DEF SortInv, Placed
<1>2. /\ k \in 0 .. Len(s) /\ \A i \in Users(m) : i <= k
      /\ Users(m) = {} => k = 0
  BY InsertIndex DEF SortInv
<1>3. r = InsertAt(s, k + 1, m) /\ uses' = uses
  BY DEF InsertMessage
<1>a. \A i \in 1 .. Len(s) : <<s[i], m>> \in uses => i \in Users(m)
  BY <1>1 DEF Users
<1>b. (\A i \in 1 .. Len(s) : <<s[i], m>> \notin uses) => Users(m) = {}
  BY <1>1 DEF Users
<1>c. \A i, j \in 1 .. Len(s) :
        /\ s[i] # s[j] /\ <<s[i], s[j]>> \in uses
        /\ s[i] < s[j] \/ \A earlier \in 1 .. s[i] - 1 : <<earlier, s[i]>> \notin uses
        => i < j
  BY <1>1 DEF SortInv, DeclaredFirst, Guaranteed
<1> HIDE DEF k, r, s
<1>4. /\ r \in Seq(Nat) /\ Len(r) = m
      /\ \A i \in 1 .. m : r[i] = IF i <= k THEN s[i] ELSE IF i = k + 1 THEN m ELSE s[i - 1]
  <2>1. k \in 0 .. Len(s) /\ s \in Seq(Nat) /\ m \in Nat
    BY <1>1, <1>2
  <2>2. LET q == InsertAt(s, k + 1, m)
        IN  /\ q \in Seq(Nat) /\ Len(q) = Len(s) + 1
            /\ \A i \in 1 .. Len(s) + 1 :
                 q[i] = IF i <= k THEN s[i] ELSE IF i = k + 1 THEN m ELSE s[i - 1]
    BY <2>1, Inserted, SMTT(30)
  <2>3. Len(s) + 1 = m
    OBVIOUS
  <2> QED
    BY <1>3, <2>2, <2>3, Zenon
<1> DEFINE old(h) == IF h <= k THEN h ELSE h - 1
<1>d. ASSUME NEW h \in 1 .. m, h # k + 1
      PROVE  old(h) \in 1 .. Len(s) /\ r[h] = s[old(h)]
  <2>1. r[h] = IF h <= k THEN s[h] ELSE s[h - 1]
    BY <1>4, <1>d
  <2>2. old(h) \in 1 .. Len(s)
    BY <1>1, <1>2, <1>d
  <2> QED
    BY <2>1, <2>2
<1>e. k + 1 \in 1 .. m /\ r[k + 1] = m
  BY <1>1, <1>2, <1>4
<1>5. Placed'
  <2>1. ASSUME NEW i \in 1 .. m PROVE r[i] \in 1 .. m
    <3>1. CASE i = k + 1
      BY <1>1, <1>e, <3>1
    <3>2. CASE i # k + 1
      <4>1. old(i) \in 1 .. Len(s) /\ r[i] = s[old(i)]
        BY <1>d, <3>2
      <4> HIDE DEF old
      <4> QED
        BY <1>1, <4>1
    <3> QED
      BY <3>1, <3>2
  <2> QED
    BY <1>4, <2>1 DEF Placed, r
<1>6. DeclaredFirst'
  <2> SUFFICES ASSUME NEW i \in 1 .. m, NEW j \in 1 .. m, r[i] # r[j],
                      <<r[i], r[j]>> \in uses,
                      r[i] < r[j] \/ \A earlier \in 1 .. r[i] - 1 : <<earlier, r[i]>> \notin uses
               PROVE  i < j
    BY <1>3, <1>4 DEF DeclaredFirst, Guaranteed, r
  <2>1. CASE i # k + 1 /\ j # k + 1
    <3>1. /\ old(i) \in 1 .. Len(s) /\ r[i] = s[old(i)]
          /\ old(j) \in 1 .. Len(s) /\ r[j] = s[old(j)]
      BY <1>d, <2>1
    <3> HIDE DEF old
    <3>2. old(i) < old(j)
      BY <1>c, <3>1
    <3> QED
      BY <1>1, <1>2, <2>1, <3>2 DEF old
  <2>2. CASE i # k + 1 /\ j = k + 1
    <3>1. /\ old(i) \in 1 .. Len(s) /\ r[i] = s[old(i)] /\ r[j] = m
      BY <1>d, <1>e, <2>2
    <3> HIDE DEF old, m
    <3>2. old(i) \in Users(m)
      BY <1>a, <3>1
    <3>3. old(i) <= k
      BY <1>2, <3>2
    <3> QED
      BY <1>2, <2>2, <3>3 DEF old
  <2>3. CASE i = k + 1 /\ j # k + 1
    <3>1. r[i] = m /\ r[j] \in 1 .. Len(s)
      BY <1>1, <1>d, <1>e, <2>3
    <3>2. \A earlier \in 1 .. Len(s) : <<earlier, m>> \notin uses
      BY <1>1, <3>1
    <3>3. \A h \in 1 .. Len(s) : <<s[h], m>> \notin uses
      BY <1>1, <3>2
    <3>4. k = 0
      BY <1>2, <1>b, <3>3
    <3> QED
      BY <2>3, <3>4
  <2>4. CASE i = k + 1 /\ j = k + 1
    BY <2>4
  <2> QED
    BY <2>1, <2>2, <2>3, <2>4
<1> QED
  BY <1>5, <1>6 DEF SortInv

LEMMA SortStart == reversed_sorted = <<>> => SortInv
BY DEF SortInv, Placed, DeclaredFirst

LEMMA SortUnchanged == SortInv /\ UNCHANGED sorting => SortInv'
BY DEF SortInv, Placed, DeclaredFirst, Guaranteed, sorting

LEMMA SortInductive == SortInv /\ [Next]_frontend => SortInv'
<1> SUFFICES ASSUME SortInv, [Next]_frontend PROVE SortInv'
  OBVIOUS
<1>1. CASE UNCHANGED sorting
  BY <1>1, SortUnchanged
<1>2. CASE ProtoNext
  <2>1. CASE sort_messages_by_usage
    <3>1. reversed_sorted' = <<>>
      BY <2>1 DEF sort_messages_by_usage
    <3> QED
      BY <3>1 DEF SortInv, Placed, DeclaredFirst
  <2>2. CASE SortStep
    BY <2>2, InsertStep DEF SortStep
  <2>3. CASE Load \/ resolve_messages_fields_types \/ resolve_messages_fields_type_kinds \/ Reversed \/ Declare
    BY <1>1, <2>3 DEF Load, resolve_messages_fields_types, resolve_messages_fields_type_kinds,
                      Reversed, Declare
  <2> QED
    BY <1>2, <2>1, <2>2, <2>3 DEF ProtoNext
<1> QED
  BY <1>1, <1>2 DEF Next, Parse, frontend, sorting

(* sort_messages_by_usage: for every file, every group of messages in it and every
   way they use one another, what the order in the file guarantees to be declared
   before its user is. *)
THEOREM FrontendDeclaredFirst == Spec => []DeclaredFirst
<1>1. Init => SortInv
  BY SortStart DEF Init, ProtoInit, SortInit
<1>2. SortInv => DeclaredFirst
  BY DEF SortInv
<1> QED
  BY <1>1, <1>2, SortInductive, PTL DEF Spec
-----------------------------------------------------------------------------
(* States, the recursion made explicit. *)
ReadStates == {"code", "line", "opening", "block", "closing", "passed", "slashes", "nested"}

LEMMA StatesAre ==
  ASSUME text \in Seq(Characters)
  PROVE  /\ States[1] = "code"
         /\ \A i \in 1 .. Len(text) : States[i + 1] = After(States[i], i)
<1> DEFINE n == Len(text)
           step == [i \in 1 .. n |-> [s \in ReadStates |-> After(s, i)]]
           Scans(f) == f = [i \in 1 .. n + 1 |-> IF i = 1 THEN "code" ELSE After(f[i - 1], i - 1)]
           f == CHOOSE w : Scans(w)
<1>1. n \in Nat
  OBVIOUS
<1>2. \A s \in ReadStates, i \in 1 .. n : After(s, i) \in ReadStates
  BY DEF After, ReadStates
<1>3. step \in [1 .. n -> [ReadStates -> ReadStates]] /\ "code" \in ReadStates
  <2>1. "code" \in ReadStates
    BY DEF ReadStates
  <2> QED
    BY <1>2, <2>1
<1>4. PICK g \in [0 .. n -> ReadStates] : Iterates(g, n, "code", step)
  <2> HIDE DEF n, step
  <2> QED
    BY <1>1, <1>3, Recursion, Zenon
<1> DEFINE h == [i \in 1 .. n + 1 |-> g[i - 1]]
<1>5. \A i \in 1 .. n + 1 : h[i] = IF i = 1 THEN "code" ELSE After(h[i - 1], i - 1)
  <2>1. g = [i \in 0 .. n |-> IF i = 0 THEN "code" ELSE step[i][g[i - 1]]]
    BY <1>4 DEF Iterates
  <2> TAKE i \in 1 .. n + 1
  <2> DEFINE j == i - 1
  <2>2. j \in 0 .. n /\ h[i] = g[j] /\ (i = 1 <=> j = 0)
    BY <1>1
  <2>3. CASE i = 1
    BY <2>1, <2>2, <2>3
  <2>4. CASE i # 1
    <3>1. j \in 1 .. n /\ j - 1 \in 0 .. n /\ h[j] = g[j - 1]
      BY <1>1, <2>4
    <3> HIDE DEF j
    <3>2. g[j] = step[j][g[j - 1]] /\ g[j - 1] \in ReadStates
      <4>1. j \in 0 .. n /\ j # 0
        BY <1>1, <3>1
      <4> HIDE DEF n, step
      <4> QED
        BY <2>1, <3>1, <4>1
    <3>3. step[j][g[j - 1]] = After(g[j - 1], j)
      BY <3>1, <3>2
    <3> HIDE DEF h, step
    <3>4. h[i] = After(h[j], j)
      BY <2>2, <3>1, <3>2, <3>3
    <3> QED
      BY <2>4, <3>4 DEF j
  <2> QED
    BY <2>3, <2>4
<1>6. Scans(h)
  <2> HIDE DEF n
  <2> QED
    BY <1>5
<1>7. Scans(f)
  <2> HIDE DEF Scans, h
  <2> QED
    BY <1>6
<1>8. f = States
  BY DEF States
<1> HIDE DEF f
<1>9. \A i \in 1 .. n + 1 : f[i] = IF i = 1 THEN "code" ELSE After(f[i - 1], i - 1)
  <2> HIDE DEF n
  <2> QED
    BY <1>7
<1>10. 1 \in 1 .. n + 1 /\ f[1] = "code"
  BY <1>1, <1>9
<1>11. ASSUME NEW i \in 1 .. n PROVE f[i + 1] = After(f[i], i)
  <2> DEFINE j == i + 1
  <2>1. j \in 1 .. n + 1 /\ j # 1 /\ j - 1 = i
    BY <1>1
  <2> HIDE DEF j
  <2>2. f[j] = After(f[i], i)
    BY <1>9, <2>1
  <2> QED
    BY <2>2 DEF j
<1> QED
  BY <1>8, <1>10, <1>11

(* A set of reading states that is not left. *)
LEMMA Staying ==
  ASSUME text \in Seq(Characters), NEW S,
         NEW a \in 0 .. Len(text), NEW b \in a .. Len(text), States[a + 1] \in S,
         \A i \in a + 1 .. b : States[i] \in S => After(States[i], i) \in S
  PROVE  \A i \in a + 1 .. b + 1 : States[i] \in S
<1> DEFINE T == {d \in Nat : a + d <= b => States[a + d + 1] \in S}
<1>1. 0 \in T
  <2>1. a + 0 + 1 = a + 1
    OBVIOUS
  <2> QED
    BY <2>1
<1>2. ASSUME NEW d \in Nat, d \in T PROVE d + 1 \in T
  <2> DEFINE i == a + d + 1
  <2> SUFFICES ASSUME a + (d + 1) <= b PROVE States[a + (d + 1) + 1] \in S
    OBVIOUS
  <2>1. /\ i \in a + 1 .. b /\ i \in 1 .. Len(text) /\ a + d <= b
        /\ a + (d + 1) + 1 = i + 1
    OBVIOUS
  <2>2. States[i] \in S
    BY <1>2, <2>1
  <2> HIDE DEF i
  <2>3. States[i + 1] = After(States[i], i)
    BY <2>1, StatesAre
  <2> QED
    BY <2>1, <2>2, <2>3
<1> HIDE DEF T
<1>3. Nat \subseteq T
  BY <1>1, <1>2, NatSetInduction
<1> TAKE i \in a + 1 .. b + 1
<1>4. i - 1 - a \in Nat /\ a + (i - 1 - a) <= b /\ a + (i - 1 - a) + 1 = i
  OBVIOUS
<1> QED
  BY <1>3, <1>4 DEF T

Kinds == {Begin, End, Line, <<NL>>}

(* Two characters, or one. *)
LEMMA SliceIs ==
  ASSUME text \in Seq(Characters), NEW a \in 0 .. Len(text), NEW b \in Nat, a <= b
  PROVE  LET n == Min({b, Len(text)})
         IN  /\ n \in a .. Len(text) /\ (b <= Len(text) => n = b) /\ (b > Len(text) => n = Len(text))
             /\ Piece(a, b) \in Seq(Characters) /\ Len(Piece(a, b)) = n - a
             /\ \A i \in 1 .. n - a : Piece(a, b)[i] = text[a + i]
<1> DEFINE n == Min({b, Len(text)})
<1>1. n = IF b <= Len(text) THEN b ELSE Len(text)
  <2>1. {b, Len(text)} \in SUBSET Nat /\ {b, Len(text)} # {}
    OBVIOUS
  <2>2. n \in {b, Len(text)} /\ \A x \in {b, Len(text)} : n <= x
    BY <2>1, MinExists
  <2> HIDE DEF n
  <2> QED
    BY <2>2
<1> HIDE DEF n
<1>2. n \in a .. Len(text) /\ n \in Nat /\ a + 1 \in Nat
  BY <1>1
<1>3. Piece(a, b) = SubSeq(text, a + 1, n)
  BY DEF Piece, n
<1> DEFINE s == SubSeq(text, a + 1, n)
<1>4. /\ s \in Seq(Characters) /\ Len(s) = IF a + 1 <= n THEN n - (a + 1) + 1 ELSE 0
      /\ \A i \in 1 .. n - (a + 1) + 1 : s[i] = text[a + 1 + i - 1]
  <2>1. \A i \in a + 1 .. n : text[i] \in Characters
    BY <1>2
  <2> QED
    BY <1>2, <2>1, SubSeqProperties
<1> HIDE DEF s
<1>5. Len(s) = n - a /\ \A i \in 1 .. n - a : s[i] = text[a + i]
  <2>1. Len(s) = n - a
    BY <1>2, <1>4
  <2>2. ASSUME NEW i \in 1 .. n - a PROVE s[i] = text[a + i]
    <3>1. i \in 1 .. n - (a + 1) + 1 /\ a + 1 + i - 1 = a + i
      BY <1>2
    <3> QED
      BY <1>4, <3>1
  <2> QED
    BY <2>1, <2>2
<1>6. Piece(a, b) = s
  BY <1>3 DEF s
<1>7. (b <= Len(text) => n = b) /\ (b > Len(text) => n = Len(text))
  BY <1>1
<1> QED
  BY <1>2, <1>4, <1>5, <1>6, <1>7 DEF n

LEMMA TwoIs ==
  ASSUME text \in Seq(Characters), NEW i \in 1 .. Len(text)
  PROVE  /\ \A x, y : Two(i) = <<x, y>> => i + 1 \in 1 .. Len(text) /\ x = text[i] /\ y = text[i + 1]
         /\ \A x, y : i + 1 \in 1 .. Len(text) /\ text[i] = x /\ text[i + 1] = y => Two(i) = <<x, y>>
         /\ Piece(i - 1, i) = <<text[i]>>
<1> DEFINE s == Piece(i - 1, i + 1)
           t == Piece(i - 1, i)
           n == Min({i + 1, Len(text)})
           m == Min({i, Len(text)})
<1>1. i - 1 \in 0 .. Len(text) /\ i + 1 \in Nat /\ i \in Nat /\ Len(text) \in Nat
  OBVIOUS
<1>2. /\ (i + 1 <= Len(text) => n = i + 1) /\ (i + 1 > Len(text) => n = Len(text))
      /\ s \in Seq(Characters) /\ Len(s) = n - (i - 1)
      /\ \A j \in 1 .. n - (i - 1) : s[j] = text[i - 1 + j]
  <2>1. i - 1 <= i + 1
    OBVIOUS
  <2> QED
    BY <1>1, <2>1, SliceIs
<1>3. /\ m = i /\ t \in Seq(Characters) /\ Len(t) = m - (i - 1)
      /\ \A j \in 1 .. m - (i - 1) : t[j] = text[i - 1 + j]
  <2>1. i <= Len(text) /\ i - 1 <= i
    OBVIOUS
  <2> QED
    BY <1>1, <2>1, SliceIs
<1> HIDE DEF n, m, s, t
<1>4. t = <<text[i]>>
  <2>1. Len(t) = 1 /\ t[1] = text[i]
    BY <1>1, <1>3
  <2> QED
    BY <1>3, <2>1
<1>5. CASE i + 1 <= Len(text)
  <2>1. Len(s) = 2 /\ s[1] = text[i] /\ s[2] = text[i + 1] /\ i + 1 \in 1 .. Len(text)
    <3>1. n - (i - 1) = 2 /\ i - 1 + 1 = i /\ i - 1 + 2 = i + 1
      BY <1>1, <1>2, <1>5
    <3> QED
      BY <1>1, <1>2, <1>5, <3>1
  <2>2. s = <<text[i], text[i + 1]>>
    BY <1>2, <2>1
  <2> QED
    BY <1>4, <2>1, <2>2 DEF Two, s, t
<1>6. CASE i + 1 > Len(text)
  <2>1. Len(s) = 1
    BY <1>1, <1>2, <1>6
  <2>2. \A x, y : s # <<x, y>>
    BY <2>1
  <2>3. i + 1 \notin 1 .. Len(text)
    BY <1>1, <1>6
  <2> QED
    BY <1>4, <2>2, <2>3 DEF Two, s, t
<1> QED
  BY <1>1, <1>5, <1>6

(* Up to the next marker there is none. *)
LEMMA NextMarkerIs ==
  ASSUME text \in Seq(Characters), scan \in 0 .. Len(text), Markers # {}
  PROVE  LET o == Min(Markers)
         IN  /\ o \in scan .. Len(text) - 1 /\ Marker(o) \in Kinds
             /\ \A j \in scan .. o - 1 : Marker(j) \notin Kinds
<1>1. Markers \in SUBSET Nat
  BY DEF Markers
<1>2. Min(Markers) \in Markers /\ \A x \in Markers : Min(Markers) <= x
  BY <1>1, MinExists
<1> DEFINE o == Min(Markers)
<1> HIDE DEF o
<1>3. o \in scan .. Len(text) - 1 /\ Marker(o) \in Kinds
  BY <1>2 DEF Markers, o, Kinds
<1>4. ASSUME NEW j \in scan .. o - 1 PROVE Marker(j) \notin Kinds
  <2>1. j \notin Markers
    BY <1>1, <1>2, <1>3 DEF o
  <2>2. j \in scan .. Len(text) - 1
    BY <1>3
  <2> QED
    BY <2>1, <2>2 DEF Markers, Kinds
<1> QED
  BY <1>3, <1>4 DEF o

(* What a marker is, and what is none. *)
LEMMA MarkerIs ==
  ASSUME text \in Seq(Characters), NEW o \in 0 .. Len(text) - 1
  PROVE  /\ Marker(o) \in {Begin, End, Line} =>
              /\ Marker(o) = Two(o + 1) /\ Len(Marker(o)) = 2
              /\ o + 2 <= Len(text)
              /\ text[o + 1] = Marker(o)[1] /\ text[o + 2] = Marker(o)[2]
         /\ Marker(o) = <<NL>> => text[o + 1] = NL /\ Len(Marker(o)) = 1
         /\ Marker(o) \notin {Begin, End, Line} => Two(o + 1) \notin {Begin, End, Line}
         /\ Marker(o) \notin Kinds => text[o + 1] # NL
<1> DEFINE i == o + 1
<1>1. i \in 1 .. Len(text) /\ i - 1 = o /\ i + 1 = o + 2
  OBVIOUS
<1> HIDE DEF i
<1>2. /\ \A x, y : Two(i) = <<x, y>> => i + 1 \in 1 .. Len(text) /\ x = text[i] /\ y = text[i + 1]
      /\ Piece(i - 1, i) = <<text[i]>>
  BY <1>1, TwoIs
<1>3. Piece(o, o + 2) = Two(i) /\ Piece(o, o + 1) = <<text[i]>>
  BY <1>1, <1>2 DEF Two, i
<1>4. Marker(o) = IF Two(i) \in {Begin, End, Line} THEN Two(i) ELSE <<text[i]>>
  BY <1>3 DEF Marker
<1>5. <<text[i]>> \notin {Begin, End, Line}
  BY DEF Begin, End, Line
<1>6. CASE Two(i) \in {Begin, End, Line}
  <2>1. PICK x, y : Two(i) = <<x, y>>
    BY <1>6 DEF Begin, End, Line
  <2>2. i + 1 \in 1 .. Len(text) /\ x = text[i] /\ y = text[i + 1]
    BY <1>2, <2>1
  <2>3. Two(i) # <<NL>>
    BY <2>1
  <2>4. Marker(o) = <<x, y>> /\ Len(<<x, y>>) = 2 /\ <<x, y>>[1] = x /\ <<x, y>>[2] = y
    BY <1>4, <1>6, <2>1
  <2> QED
    BY <1>1, <1>4, <1>6, <2>1, <2>2, <2>3, <2>4 DEF i, Kinds
<1>7. CASE Two(i) \notin {Begin, End, Line}
  <2>1. Marker(o) = <<text[i]>> /\ Len(<<text[i]>>) = 1
    BY <1>4, <1>7
  <2>2. <<text[i]>> = <<NL>> <=> text[i] = NL
    OBVIOUS
  <2> QED
    BY <1>5, <1>7, <2>1, <2>2 DEF i, Kinds
<1> QED
  BY <1>6, <1>7

LEMMA QuietCode ==
  ASSUME text \in Seq(Characters), NEW a \in 0 .. Len(text), NEW b \in a .. Len(text),
         States[a + 1] = "code", \A i \in a + 1 .. b : Two(i) \notin {Begin, End, Line}
  PROVE  /\ States[b + 1] = "code"
         /\ \A i \in a + 1 .. b : ~ IsComment(States, i)
<1>1. ASSUME NEW i \in a + 1 .. b, States[i] \in {"code"}
      PROVE  After(States[i], i) \in {"code"} /\ ~ IsComment(States, i)
  BY <1>1 DEF After, IsComment
<1>2. \A i \in a + 1 .. b + 1 : States[i] \in {"code"}
  BY <1>1, Staying
<1>3. b + 1 \in a + 1 .. b + 1 /\ \A i \in a + 1 .. b : i \in a + 1 .. b + 1
  OBVIOUS
<1> QED
  BY <1>1, <1>2, <1>3

LEMMA QuietLine ==
  ASSUME text \in Seq(Characters), NEW a \in 0 .. Len(text), NEW b \in a .. Len(text),
         States[a + 1] = "line", \A i \in a + 1 .. b : text[i] # NL
  PROVE  States[b + 1] = "line" /\ \A i \in a + 1 .. b : IsComment(States, i)
<1>1. ASSUME NEW i \in a + 1 .. b, States[i] \in {"line"}
      PROVE  After(States[i], i) \in {"line"} /\ IsComment(States, i)
  BY <1>1 DEF After, IsComment
<1>2. \A i \in a + 1 .. b + 1 : States[i] \in {"line"}
  BY <1>1, Staying
<1>3. b + 1 \in a + 1 .. b + 1 /\ \A i \in a + 1 .. b : i \in a + 1 .. b + 1
  OBVIOUS
<1> QED
  BY <1>1, <1>2, <1>3

LEMMA QuietBlock ==
  ASSUME text \in Seq(Characters), NEW a \in 0 .. Len(text), NEW b \in a .. Len(text),
         States[a + 1] = "block", \A i \in a + 1 .. b : Two(i) \notin {Begin, End, Line}
  PROVE  States[b + 1] = "block" /\ \A i \in a + 1 .. b : IsComment(States, i)
<1>1. ASSUME NEW i \in a + 1 .. b, States[i] \in {"block"}
      PROVE  After(States[i], i) \in {"block"} /\ IsComment(States, i)
  BY <1>1 DEF After, IsComment
<1>2. \A i \in a + 1 .. b + 1 : States[i] \in {"block"}
  BY <1>1, Staying
<1>3. b + 1 \in a + 1 .. b + 1 /\ \A i \in a + 1 .. b : i \in a + 1 .. b + 1
  OBVIOUS
<1> QED
  BY <1>1, <1>2, <1>3

(* The text up to n, as it comes out. *)
Blanked(n) == [i \in 1 .. n |-> IF IsComment(States, i) THEN Space ELSE text[i]]

LEMMA BlankMore ==
  ASSUME text \in Seq(Characters), NEW a \in 0 .. Len(text), NEW b \in a .. Len(text),
         NEW S, NEW s \in Seq(S), Len(s) = b - a,
         \A i \in 1 .. b - a : s[i] = IF IsComment(States, a + i) THEN Space ELSE text[a + i]
  PROVE  Blanked(a) \o s = Blanked(b)
<1> DEFINE f(i) == IF IsComment(States, i) THEN Space ELSE text[i]
           x == Blanked(a)
           y == Blanked(b)
           T == S \cup Characters \cup {Space}
<1>1. a \in Nat /\ b \in Nat /\ b - a \in Nat /\ a + (b - a) = b
  OBVIOUS
<1>2. \A i \in 1 .. b : f(i) \in T
  <2> TAKE i \in 1 .. b
  <2>1. text[i] \in Characters
    BY <1>1
  <2> QED
    BY <2>1
<1>3. x = [i \in 1 .. a |-> f(i)] /\ y = [i \in 1 .. b |-> f(i)]
  BY DEF Blanked
<1> HIDE DEF f, x, y
<1>4. x \in Seq(T) /\ Len(x) = a /\ \A i \in 1 .. a : x[i] = f(i)
  <2>1. \A i \in 1 .. a : f(i) \in T
    BY <1>1, <1>2
  <2> QED
    BY <1>1, <1>3, <2>1
<1>5. y \in Seq(T) /\ Len(y) = b /\ \A i \in 1 .. b : y[i] = f(i)
  BY <1>1, <1>2, <1>3
<1>6. s \in Seq(T)
  OBVIOUS
<1>7. /\ x \o s \in Seq(T) /\ Len(x \o s) = a + (b - a)
      /\ \A i \in 1 .. a + (b - a) : (x \o s)[i] = IF i <= a THEN x[i] ELSE s[i - a]
  <2> HIDE DEF T
  <2>1. /\ x \o s \in Seq(T) /\ Len(x \o s) = Len(x) + Len(s)
        /\ \A i \in 1 .. Len(x) + Len(s) :
             (x \o s)[i] = IF i <= Len(x) THEN x[i] ELSE s[i - Len(x)]
    BY <1>4, <1>6, ConcatProperties, Zenon
  <2> QED
    BY <1>4, <2>1
<1>8. ASSUME NEW i \in 1 .. b PROVE (x \o s)[i] = y[i]
  <2>1. (x \o s)[i] = IF i <= a THEN x[i] ELSE s[i - a]
    BY <1>1, <1>7
  <2>2. CASE i <= a
    BY <1>1, <1>4, <1>5, <2>1, <2>2
  <2>3. CASE i > a
    <3>1. i - a \in 1 .. b - a /\ a + (i - a) = i /\ ~ (i <= a)
      BY <1>1, <2>3
    <3>2. s[i - a] = f(a + (i - a))
      BY <3>1 DEF f
    <3> QED
      BY <1>5, <2>1, <3>1, <3>2
  <2>4. i <= a \/ i > a
    BY <1>1
  <2> QED
    BY <2>2, <2>3, <2>4
<1> DEFINE z == x \o s
<1>9. z \in Seq(T) /\ Len(z) = b /\ \A i \in 1 .. b : z[i] = y[i]
  BY <1>1, <1>7, <1>8
<1> HIDE DEF z, T
<1>10. z = y
  BY <1>5, <1>9, SeqEqual
<1> QED
  BY <1>10 DEF x, y, z

LEMMA BlankSpaces ==
  ASSUME text \in Seq(Characters), NEW a \in 0 .. Len(text), NEW b \in a .. Len(text),
         \A i \in a + 1 .. b : IsComment(States, i)
  PROVE  Blanked(a) \o Spaces(b - a) = Blanked(b)
<1>1. b - a \in Nat /\ \A i \in 1 .. b - a : a + i \in a + 1 .. b
  OBVIOUS
<1>2. /\ Spaces(b - a) \in Seq({Space}) /\ Len(Spaces(b - a)) = b - a
      /\ \A i \in 1 .. b - a : Spaces(b - a)[i] = Space
  BY <1>1 DEF Spaces
<1> QED
  BY <1>1, <1>2, BlankMore

LEMMA BlankCode ==
  ASSUME text \in Seq(Characters), NEW a \in 0 .. Len(text), NEW b \in a .. Len(text),
         \A i \in a + 1 .. b : ~ IsComment(States, i)
  PROVE  Blanked(a) \o Piece(a, b) = Blanked(b)
<1>1. b - a \in Nat /\ b \in Nat /\ a <= b /\ b <= Len(text)
      /\ \A i \in 1 .. b - a : a + i \in a + 1 .. b
  OBVIOUS
<1>2. /\ Piece(a, b) \in Seq(Characters) /\ Len(Piece(a, b)) = b - a
      /\ \A i \in 1 .. b - a : Piece(a, b)[i] = text[a + i]
  BY <1>1, SliceIs
<1> QED
  BY <1>1, <1>2, BlankMore

(* Where the scan is: in code, of which nothing behind non_comment_offset has come
   out yet, or in a comment that begins at start_offset. *)
CodeOK(at, from, out) ==
  /\ States[at + 1] = "code" /\ out = Blanked(from)
  /\ \A i \in from + 1 .. at : ~ IsComment(States, i)
  /\ from = 0 \/ from < at \/ States[from] = "closing"

CommentOK(at, line, from, out) ==
  /\ States[at + 1] = (IF line THEN "line" ELSE "block") /\ out = Blanked(from)
  /\ \A i \in from + 1 .. at : IsComment(States, i)
  /\ from = 0 \/ ~ IsComment(States, from) \/ States[from] = "closing"

ScanTypes ==
  /\ text \in Seq(Characters) /\ scan \in 0 .. Len(text)
  /\ start_offset \in 0 .. scan /\ non_comment_offset \in 0 .. scan
  /\ in_single_line_comment \in BOOLEAN /\ in_multi_line_comment \in BOOLEAN
  /\ ~ (in_single_line_comment /\ in_multi_line_comment)
  /\ status \in {"scanning", "ended", "raised"}

ScanOK ==
  /\ status = "scanning" =>
       IF InCode THEN CodeOK(scan, non_comment_offset, chunks)
       ELSE CommentOK(scan, in_single_line_comment, start_offset, chunks)
  /\ CommentsBlanked

(* The next marker: nothing before it is one. *)
AtMarker(o, kind) ==
  /\ o \in scan .. Len(text) - 1 /\ kind = Marker(o) /\ kind \in Kinds
  /\ o + Len(kind) \in o + 1 .. Len(text)
  /\ \A i \in scan + 1 .. o : Two(i) \notin {Begin, End, Line} /\ text[i] # NL
  /\ kind = <<NL>> => /\ Len(kind) = 1 /\ text[o + 1] = NL
                      /\ Two(o + 1) \notin {Begin, End, Line}
  /\ kind # <<NL>> => /\ Len(kind) = 2 /\ Two(o + 1) = kind
                      /\ text[o + 1] = kind[1] /\ text[o + 2] = kind[2]

LEMMA KindsApart ==
  /\ Begin # End /\ Begin # Line /\ End # Line
  /\ Begin # <<NL>> /\ End # <<NL>> /\ Line # <<NL>>
  /\ Begin[1] = "/" /\ Begin[2] = "*" /\ End[1] = "*" /\ End[2] = "/" /\ Line[1] = "/" /\ Line[2] = "/"
<1>1. Begin[1] = "/" /\ Begin[2] = "*" /\ End[1] = "*" /\ End[2] = "/" /\ Line[1] = "/" /\ Line[2] = "/"
  BY DEF Begin, End, Line
<1>2. Begin # End /\ Begin # Line /\ End # Line
  BY <1>1
<1>3. Len(Begin) = 2 /\ Len(End) = 2 /\ Len(Line) = 2 /\ Len(<<NL>>) = 1
  BY DEF Begin, End, Line
<1> QED
  BY <1>1, <1>2, <1>3

LEMMA MarkerFound ==
  ASSUME ScanTypes, Markers # {}
  PROVE  AtMarker(Min(Markers), Marker(Min(Markers)))
<1> DEFINE o == Min(Markers)
           kind == Marker(o)
<1>1. /\ o \in scan .. Len(text) - 1 /\ kind \in Kinds
      /\ \A j \in scan .. o - 1 : Marker(j) \notin Kinds
  BY NextMarkerIs DEF ScanTypes
<1> HIDE DEF o
<1>2. /\ o \in 0 .. Len(text) - 1 /\ scan \in Nat /\ text \in Seq(Characters)
  BY <1>1 DEF ScanTypes
<1>3. /\ kind \in {Begin, End, Line} =>
           /\ kind = Two(o + 1) /\ Len(kind) = 2 /\ o + 2 <= Len(text)
           /\ text[o + 1] = kind[1] /\ text[o + 2] = kind[2]
      /\ kind = <<NL>> => text[o + 1] = NL /\ Len(kind) = 1
      /\ kind \notin {Begin, End, Line} => Two(o + 1) \notin {Begin, End, Line}
  BY <1>2, MarkerIs
<1> HIDE DEF kind
<1>4. ASSUME NEW i \in scan + 1 .. o PROVE Two(i) \notin {Begin, End, Line} /\ text[i] # NL
  <2> DEFINE j == i - 1
  <2>1. j \in scan .. o - 1 /\ j \in 0 .. Len(text) - 1 /\ j + 1 = i
    BY <1>1, <1>2
  <2> HIDE DEF j
  <2>2. Marker(j) \notin Kinds
    BY <1>1, <2>1
  <2>3. Two(j + 1) \notin {Begin, End, Line} /\ text[j + 1] # NL
    BY <1>2, <2>1, <2>2, MarkerIs DEF Kinds
  <2> QED
    BY <2>1, <2>3
<1>5. kind = <<NL>> => kind \notin {Begin, End, Line}
  BY KindsApart
<1>6. kind # <<NL>> => kind \in {Begin, End, Line}
  BY <1>1 DEF Kinds
<1>7. o + Len(kind) \in o + 1 .. Len(text)
  <2>1. CASE kind = <<NL>>
    <3>1. Len(kind) = 1
      BY <1>3, <2>1
    <3> QED
      BY <1>2, <3>1
  <2>2. CASE kind # <<NL>>
    <3>1. Len(kind) = 2 /\ o + 2 <= Len(text)
      BY <1>3, <1>6, <2>2
    <3> QED
      BY <1>2, <3>1
  <2> QED
    BY <2>1, <2>2
<1> QED
  BY <1>1, <1>3, <1>4, <1>5, <1>6, <1>7 DEF AtMarker, o, kind

(* What the marker makes of where the scan is. *)
LEMMA LineEnds ==
  ASSUME ScanTypes, NEW o, AtMarker(o, <<NL>>), CommentOK(scan, TRUE, start_offset, chunks)
  PROVE  CodeOK(o + 1, o, chunks \o Spaces(o - start_offset))
<1>1. /\ text \in Seq(Characters) /\ scan \in 0 .. Len(text) /\ o \in scan .. Len(text)
      /\ start_offset \in 0 .. Len(text) /\ o \in start_offset .. Len(text) /\ o + 1 \in 1 .. Len(text)
      /\ o \in 0 .. Len(text) /\ o < o + 1 /\ Len(text) \in Nat
  BY DEF ScanTypes, AtMarker
<1>2. States[scan + 1] = "line" /\ \A i \in scan + 1 .. o : text[i] # NL
  BY DEF CommentOK, AtMarker
<1>3. States[o + 1] = "line" /\ \A i \in scan + 1 .. o : IsComment(States, i)
  BY <1>1, <1>2, QuietLine
<1>4. text[o + 1] = NL
  BY DEF AtMarker
<1>5. States[o + 1 + 1] = "code"
  <2>1. States[o + 1 + 1] = After(States[o + 1], o + 1)
    BY <1>1, StatesAre
  <2> QED
    BY <1>3, <1>4, <2>1 DEF After
<1>6. ~ IsComment(States, o + 1)
  BY <1>3, <1>4 DEF IsComment
<1>7. \A i \in start_offset + 1 .. o : IsComment(States, i)
  <2> TAKE i \in start_offset + 1 .. o
  <2>1. i \in start_offset + 1 .. scan \/ i \in scan + 1 .. o
    BY <1>1
  <2> QED
    BY <1>3, <2>1 DEF CommentOK
<1>8. chunks \o Spaces(o - start_offset) = Blanked(o)
  BY <1>1, <1>7, BlankSpaces DEF CommentOK
<1>9. \A i \in o + 1 .. o + 1 : i = o + 1
  BY <1>1
<1> QED
  BY <1>1, <1>5, <1>6, <1>8, <1>9 DEF CodeOK

LEMMA LineGoesOn ==
  ASSUME ScanTypes, NEW o, NEW kind, kind # <<NL>>, AtMarker(o, kind),
         CommentOK(scan, TRUE, start_offset, chunks)
  PROVE  CommentOK(o + Len(kind), TRUE, start_offset, chunks)
<1>1. /\ text \in Seq(Characters) /\ scan \in 0 .. Len(text) /\ o \in scan .. Len(text)
      /\ start_offset \in 0 .. scan /\ o + 2 \in scan .. Len(text) /\ Len(kind) = 2
  <2>1. Len(kind) = 2 /\ o + Len(kind) \in o + 1 .. Len(text) /\ o \in scan .. Len(text) - 1
    BY DEF AtMarker
  <2>2. text \in Seq(Characters) /\ scan \in 0 .. Len(text) /\ start_offset \in 0 .. scan
    BY DEF ScanTypes
  <2> QED
    BY <2>1, <2>2
<1>2. ASSUME NEW i \in scan + 1 .. o + 2 PROVE text[i] # NL
  <2>1. i \in scan + 1 .. o \/ i = o + 1 \/ i = o + 2
    BY <1>1
  <2>2. kind \in {Begin, End, Line} /\ text[o + 1] = kind[1] /\ text[o + 2] = kind[2]
    BY DEF AtMarker, Kinds
  <2>3. kind[1] # NL /\ kind[2] # NL
    BY <2>2, KindsApart DEF NL
  <2> QED
    BY <2>1, <2>2, <2>3 DEF AtMarker
<1>3. States[scan + 1] = "line"
  BY DEF CommentOK
<1>4. States[o + 2 + 1] = "line" /\ \A i \in scan + 1 .. o + 2 : IsComment(States, i)
  BY <1>1, <1>2, <1>3, QuietLine
<1>5. \A i \in start_offset + 1 .. o + 2 : IsComment(States, i)
  <2> TAKE i \in start_offset + 1 .. o + 2
  <2>1. i \in start_offset + 1 .. scan \/ i \in scan + 1 .. o + 2
    BY <1>1
  <2> QED
    BY <1>4, <2>1 DEF CommentOK
<1> QED
  BY <1>1, <1>4, <1>5 DEF CommentOK

LEMMA BlockGoesOn ==
  ASSUME ScanTypes, NEW o, NEW kind, kind \in {Line, <<NL>>}, AtMarker(o, kind),
         CommentOK(scan, FALSE, start_offset, chunks)
  PROVE  CommentOK(o + Len(kind), FALSE, start_offset, chunks)
<1> DEFINE b == o + Len(kind)
<1>1. /\ text \in Seq(Characters) /\ scan \in 0 .. Len(text) /\ o \in scan .. Len(text)
      /\ start_offset \in 0 .. scan /\ b \in scan .. Len(text) /\ o + 1 \in 1 .. Len(text)
      /\ b = o + 1 \/ (b = o + 2 /\ Len(kind) = 2)
  <2>1. Len(kind) \in {1, 2} /\ o + Len(kind) \in o + 1 .. Len(text) /\ o \in scan .. Len(text) - 1
    BY DEF AtMarker
  <2>2. text \in Seq(Characters) /\ scan \in 0 .. Len(text) /\ start_offset \in 0 .. scan
    BY DEF ScanTypes
  <2>3. CASE Len(kind) = 1
    BY <2>1, <2>2, <2>3
  <2>4. CASE Len(kind) = 2
    BY <2>1, <2>2, <2>4
  <2> QED
    BY <2>1, <2>3, <2>4
<1>2. States[scan + 1] = "block" /\ \A i \in scan + 1 .. o : Two(i) \notin {Begin, End, Line}
  BY DEF CommentOK, AtMarker
<1>3. States[o + 1] = "block" /\ \A i \in scan + 1 .. o : IsComment(States, i)
  BY <1>1, <1>2, QuietBlock
<1> HIDE DEF b
<1>4. States[b + 1] = "block" /\ \A i \in scan + 1 .. b : IsComment(States, i)
  <2>1. States[o + 1 + 1] = After(States[o + 1], o + 1) /\ IsComment(States, o + 1)
    BY <1>1, <1>3, StatesAre DEF IsComment
  <2>2. CASE kind = <<NL>>
    <3>1. b = o + 1 /\ Two(o + 1) \notin {Begin, End, Line}
      BY <1>1, <2>2 DEF AtMarker, b
    <3>2. States[b + 1] = "block"
      BY <1>3, <2>1, <3>1 DEF After
    <3>3. \A i \in scan + 1 .. b : i \in scan + 1 .. o \/ i = o + 1
      BY <1>1, <3>1
    <3> QED
      BY <1>3, <2>1, <3>2, <3>3
  <2>3. CASE kind = Line
    <3>1. b = o + 2 /\ Two(o + 1) = Line
      BY <2>3, KindsApart DEF AtMarker, b
    <3>2. o + 1 + 1 = o + 2 /\ o + 2 \in 1 .. Len(text)
      BY <1>1, <3>1
    <3>3. States[o + 2] = "slashes"
      BY <1>3, <2>1, <3>1, <3>2, KindsApart DEF After
    <3>4. States[o + 2 + 1] = After(States[o + 2], o + 2)
      BY <1>1, <3>2, StatesAre
    <3>5. States[b + 1] = "block" /\ IsComment(States, o + 2)
      BY <3>1, <3>3, <3>4 DEF After, IsComment
    <3>6. \A i \in scan + 1 .. b : i \in scan + 1 .. o \/ i = o + 1 \/ i = o + 2
      BY <1>1, <3>1
    <3> QED
      BY <1>3, <2>1, <3>5, <3>6
  <2> QED
    BY <2>2, <2>3
<1>5. \A i \in start_offset + 1 .. b : IsComment(States, i)
  <2> TAKE i \in start_offset + 1 .. b
  <2>1. i \in start_offset + 1 .. scan \/ i \in scan + 1 .. b
    BY <1>1
  <2> QED
    BY <1>4, <2>1 DEF CommentOK
<1> QED
  BY <1>4, <1>5 DEF CommentOK, b

LEMMA BlockEnds ==
  ASSUME ScanTypes, NEW o, AtMarker(o, End), CommentOK(scan, FALSE, start_offset, chunks)
  PROVE  CodeOK(o + 2, o + 2, chunks \o Spaces(o + 2 - start_offset))
<1>1. /\ text \in Seq(Characters) /\ scan \in 0 .. Len(text) /\ o \in scan .. Len(text)
      /\ start_offset \in 0 .. Len(text) /\ o + 2 \in start_offset .. Len(text)
      /\ o + 1 \in 1 .. Len(text) /\ o + 2 \in 1 .. Len(text)
  <2>1. Len(End) = 2 /\ o + Len(End) \in o + 1 .. Len(text) /\ o \in scan .. Len(text) - 1
    BY DEF AtMarker, End
  <2>2. text \in Seq(Characters) /\ scan \in 0 .. Len(text) /\ start_offset \in 0 .. scan
    BY DEF ScanTypes
  <2> QED
    BY <2>1, <2>2
<1>2. States[scan + 1] = "block" /\ \A i \in scan + 1 .. o : Two(i) \notin {Begin, End, Line}
  BY DEF CommentOK, AtMarker
<1>3. States[o + 1] = "block" /\ \A i \in scan + 1 .. o : IsComment(States, i)
  BY <1>1, <1>2, QuietBlock
<1>4. Two(o + 1) = End
  BY KindsApart DEF AtMarker
<1>5. States[o + 2] = "closing"
  <2>1. States[o + 1 + 1] = After(States[o + 1], o + 1) /\ o + 1 + 1 = o + 2
    BY <1>1, StatesAre
  <2> QED
    BY <1>3, <1>4, <2>1, KindsApart DEF After
<1>6. States[o + 2 + 1] = "code"
  <2>1. States[o + 2 + 1] = After(States[o + 2], o + 2)
    BY <1>1, StatesAre
  <2> QED
    BY <1>5, <2>1 DEF After
<1>7. IsComment(States, o + 1) /\ IsComment(States, o + 2)
  BY <1>3, <1>5 DEF IsComment
<1>8. \A i \in start_offset + 1 .. o + 2 : IsComment(States, i)
  <2> TAKE i \in start_offset + 1 .. o + 2
  <2>1. i \in start_offset + 1 .. scan \/ i \in scan + 1 .. o \/ i = o + 1 \/ i = o + 2
    BY <1>1
  <2> QED
    BY <1>3, <1>7, <2>1 DEF CommentOK
<1>9. chunks \o Spaces(o + 2 - start_offset) = Blanked(o + 2)
  <2>1. chunks = Blanked(start_offset)
    BY DEF CommentOK
  <2>2. Blanked(start_offset) \o Spaces(o + 2 - start_offset) = Blanked(o + 2)
    <3> HIDE DEF ScanTypes
    <3> QED
      BY <1>1, <1>8, BlankSpaces
  <2> QED
    BY <2>1, <2>2
<1>10. \A i \in o + 2 + 1 .. o + 2 : FALSE
  BY <1>1
<1> QED
  BY <1>5, <1>6, <1>9, <1>10 DEF CodeOK

(* In code, up to the marker. *)
LEMMA CodeUpTo ==
  ASSUME ScanTypes, NEW o, NEW kind, AtMarker(o, kind), CodeOK(scan, non_comment_offset, chunks)
  PROVE  /\ States[o + 1] = "code"
         /\ \A i \in non_comment_offset + 1 .. o : ~ IsComment(States, i)
         /\ text \in Seq(Characters) /\ o \in 0 .. Len(text) /\ o + 1 \in 1 .. Len(text)
         /\ non_comment_offset \in 0 .. o /\ scan \in 0 .. o /\ Len(text) \in Nat
<1>1. /\ text \in Seq(Characters) /\ scan \in 0 .. Len(text) /\ o \in scan .. Len(text)
      /\ non_comment_offset \in 0 .. scan /\ o + 1 \in 1 .. Len(text) /\ Len(text) \in Nat
  BY DEF ScanTypes, AtMarker
<1>2. States[scan + 1] = "code" /\ \A i \in scan + 1 .. o : Two(i) \notin {Begin, End, Line}
  BY DEF CodeOK, AtMarker
<1>3. States[o + 1] = "code" /\ \A i \in scan + 1 .. o : ~ IsComment(States, i)
  BY <1>1, <1>2, QuietCode
<1>4. \A i \in non_comment_offset + 1 .. o : ~ IsComment(States, i)
  <2> TAKE i \in non_comment_offset + 1 .. o
  <2>1. i \in non_comment_offset + 1 .. scan \/ i \in scan + 1 .. o
    BY <1>1
  <2> QED
    BY <1>3, <2>1 DEF CodeOK
<1> QED
  BY <1>1, <1>3, <1>4

LEMMA CommentStarts ==
  ASSUME ScanTypes, NEW o, NEW kind \in {Begin, Line}, AtMarker(o, kind),
         CodeOK(scan, non_comment_offset, chunks)
  PROVE  CommentOK(o + 2, kind = Line, o, chunks \o Piece(non_comment_offset, o))
<1>1. /\ States[o + 1] = "code"
      /\ \A i \in non_comment_offset + 1 .. o : ~ IsComment(States, i)
      /\ text \in Seq(Characters) /\ o \in 0 .. Len(text) /\ o + 1 \in 1 .. Len(text)
      /\ non_comment_offset \in 0 .. o /\ scan \in 0 .. o /\ Len(text) \in Nat
  BY CodeUpTo
<1>2. Two(o + 1) = kind /\ Len(kind) = 2 /\ o + Len(kind) \in o + 1 .. Len(text)
      /\ text[o + 1] = "/" /\ text[o + 2] = kind[2]
  BY KindsApart DEF AtMarker
<1>3. o + 2 \in 1 .. Len(text) /\ o + 1 + 1 = o + 2
  BY <1>1, <1>2
<1>4. States[o + 1] = "code"
  BY <1>1
<1>5. States[o + 2] = IF kind = Line THEN "line" ELSE "opening"
  <2>1. States[o + 1 + 1] = After(States[o + 1], o + 1)
    BY <1>1, StatesAre
  <2> QED
    BY <1>2, <1>3, <1>4, <2>1, KindsApart DEF After
<1>6. States[o + 2 + 1] = IF kind = Line THEN "line" ELSE "block"
  <2>1. States[o + 2 + 1] = After(States[o + 2], o + 2)
    BY <1>1, <1>3, StatesAre
  <2>2. kind = Line => text[o + 2] # NL
    BY <1>2, KindsApart DEF NL
  <2>3. CASE kind = Line
    BY <1>5, <2>1, <2>2, <2>3 DEF After
  <2>4. CASE kind # Line
    BY <1>5, <2>1, <2>4 DEF After
  <2> QED
    BY <2>3, <2>4
<1>7. IsComment(States, o + 1)
  BY <1>2, <1>4 DEF IsComment
<1>8. IsComment(States, o + 2)
  <2>1. kind = Line => text[o + 2] # NL
    BY <1>2, KindsApart DEF NL
  <2> QED
    BY <1>5, <2>1 DEF IsComment
<1>9. \A i \in o + 1 .. o + 2 : IsComment(States, i)
  <2> TAKE i \in o + 1 .. o + 2
  <2>1. i = o + 1 \/ i = o + 2
    BY <1>1
  <2> QED
    BY <1>7, <1>8, <2>1
<1>10. chunks \o Piece(non_comment_offset, o) = Blanked(o)
  <2>1. non_comment_offset \in 0 .. Len(text) /\ o \in non_comment_offset .. Len(text)
    BY <1>1
  <2> QED
    BY <1>1, <2>1, BlankCode DEF CodeOK
<1>11. o = 0 \/ ~ IsComment(States, o) \/ States[o] = "closing"
  <2>1. o = 0 \/ o \in non_comment_offset + 1 .. o \/ (o = non_comment_offset /\ o # 0 /\ scan = o)
    <3>1. non_comment_offset \in 0 .. scan
      BY DEF ScanTypes
    <3> QED
      BY <1>1, <3>1
  <2>2. scan = o /\ o = non_comment_offset => ~ (non_comment_offset < scan)
    BY <1>1
  <2> QED
    BY <1>1, <2>1, <2>2 DEF CodeOK
<1> QED
  BY <1>6, <1>9, <1>10, <1>11 DEF CommentOK

LEMMA CodeGoesOn ==
  ASSUME ScanTypes, NEW o, NEW kind \in {End, <<NL>>}, AtMarker(o, kind),
         CodeOK(scan, non_comment_offset, chunks)
  PROVE  CodeOK(o + Len(kind), non_comment_offset, chunks)
<1>1. /\ States[o + 1] = "code"
      /\ \A i \in non_comment_offset + 1 .. o : ~ IsComment(States, i)
      /\ text \in Seq(Characters) /\ o \in 0 .. Len(text) /\ o + 1 \in 1 .. Len(text)
      /\ non_comment_offset \in 0 .. o /\ scan \in 0 .. o /\ Len(text) \in Nat
  BY CodeUpTo
<1>2. Two(o + 1) \notin {Begin, Line} /\ ~ IsComment(States, o + 1)
  <2>1. Two(o + 1) \notin {Begin, Line}
    BY KindsApart DEF AtMarker
  <2> QED
    BY <1>1, <2>1 DEF IsComment
<1>3. States[o + 1 + 1] = After(States[o + 1], o + 1)
  BY <1>1, StatesAre
<1>4. CASE kind = <<NL>>
  <2>1. Two(o + 1) \notin {Begin, End, Line} /\ Len(kind) = 1
    BY <1>4 DEF AtMarker
  <2>2. States[o + 1 + 1] = "code"
    BY <1>1, <1>3, <2>1 DEF After
  <2>3. \A i \in non_comment_offset + 1 .. o + 1 : ~ IsComment(States, i)
    <3> TAKE i \in non_comment_offset + 1 .. o + 1
    <3>1. i \in non_comment_offset + 1 .. o \/ i = o + 1
      BY <1>1
    <3> QED
      BY <1>1, <1>2, <3>1
  <2>4. non_comment_offset < o + 1
    BY <1>1
  <2> QED
    BY <2>1, <2>2, <2>3, <2>4 DEF CodeOK
<1>5. CASE kind = End
  <2>1. Two(o + 1) = End /\ Len(kind) = 2 /\ o + Len(kind) \in o + 1 .. Len(text)
    BY <1>5, KindsApart DEF AtMarker
  <2>2. o + 2 \in 1 .. Len(text) /\ o + 1 + 1 = o + 2
    BY <1>1, <2>1
  <2>3. States[o + 2] = "passed"
    BY <1>1, <1>3, <2>1, <2>2, KindsApart DEF After
  <2>4. States[o + 2 + 1] = After(States[o + 2], o + 2)
    BY <1>1, <2>2, StatesAre
  <2>5. States[o + 2 + 1] = "code" /\ ~ IsComment(States, o + 2)
    BY <2>3, <2>4 DEF After, IsComment
  <2>6. \A i \in non_comment_offset + 1 .. o + 2 : ~ IsComment(States, i)
    <3> TAKE i \in non_comment_offset + 1 .. o + 2
    <3>1. i \in non_comment_offset + 1 .. o \/ i = o + 1 \/ i = o + 2
      BY <1>1
    <3> QED
      BY <1>1, <1>2, <2>5, <3>1
  <2>7. non_comment_offset < o + 2
    BY <1>1
  <2> QED
    BY <2>1, <2>5, <2>6, <2>7 DEF CodeOK
<1> QED
  BY <1>4, <1>5

(* CommentsBlanked is about the end of the scan. *)
LEMMA Ended ==
  ASSUME ScanTypes, status # "scanning", status = "ended",
         States[Len(text) + 1] \in {"code", "line"}, chunks = Blanked(Len(text))
  PROVE  CommentsBlanked
<1>1. DOMAIN text = 1 .. Len(text)
  BY DEF ScanTypes
<1>2. chunks = [i \in DOMAIN text |-> IF IsComment(States, i) THEN Space ELSE text[i]]
  BY <1>1 DEF Blanked
<1> QED
  BY <1>2 DEF CommentsBlanked

LEMMA Raised ==
  ASSUME ScanTypes, status = "raised", States[Len(text) + 1] \notin {"code", "line"},
         \A i \in start_offset + 1 .. Len(text) : IsComment(States, i),
         start_offset = 0 \/ ~ IsComment(States, start_offset) \/ States[start_offset] = "closing"
  PROVE  CommentsBlanked
BY DEF CommentsBlanked

LEMMA NotYet == status = "scanning" => CommentsBlanked
BY DEF CommentsBlanked

(* The text of a scan stays, and with it what its characters are. *)
LEMMA SameText ==
  ASSUME text' = text
  PROVE  /\ States' = States
         /\ \A n : Blanked(n)' = Blanked(n)
         /\ \A i : IsComment(States, i)' = IsComment(States, i)
<1>1. States' = States
  BY DEF States, After, Two, Piece
<1>3. \A i : IsComment(States, i)' = IsComment(States, i)
  BY <1>1 DEF IsComment, Two, Piece
<1>4. \A n : Blanked(n)' = Blanked(n)
  BY <1>3 DEF Blanked
<1> QED
  BY <1>1, <1>3, <1>4

(* The rest of a text in which a block begins inside a block is read no more. *)
LEMMA NestedBlock ==
  ASSUME ScanTypes, NEW o, AtMarker(o, Begin), CommentOK(scan, FALSE, start_offset, chunks)
  PROVE  /\ States[Len(text) + 1] = "nested"
         /\ \A i \in start_offset + 1 .. Len(text) : IsComment(States, i)
<1> DEFINE n == Len(text)
<1>1. /\ text \in Seq(Characters) /\ scan \in 0 .. n /\ o \in scan .. n
      /\ o + 1 \in 1 .. n /\ o + 1 \in 0 .. n /\ n \in o + 1 .. n /\ n \in Nat
      /\ start_offset \in 0 .. n
  BY DEF ScanTypes, AtMarker
<1>2. States[scan + 1] = "block" /\ \A i \in scan + 1 .. o : Two(i) \notin {Begin, End, Line}
  BY DEF CommentOK, AtMarker
<1>3. States[o + 1] = "block" /\ \A i \in scan + 1 .. o : IsComment(States, i)
  BY <1>1, <1>2, QuietBlock
<1>4. Two(o + 1) = Begin
  BY KindsApart DEF AtMarker
<1>5. States[o + 1 + 1] = "nested"
  <2>1. States[o + 1 + 1] = After(States[o + 1], o + 1)
    BY <1>1, StatesAre
  <2> QED
    BY <1>3, <1>4, <2>1, KindsApart DEF After
<1>6. \A i \in o + 1 + 1 .. n : States[i] \in {"nested"} => After(States[i], i) \in {"nested"}
  BY DEF After
<1>7. \A i \in o + 1 + 1 .. n + 1 : States[i] \in {"nested"}
  <2> HIDE DEF n
  <2>1. States[o + 1 + 1] \in {"nested"}
    BY <1>5
  <2> QED
    BY <1>1, <1>6, <2>1, Staying DEF n
<1>8. \A i \in start_offset + 1 .. n : IsComment(States, i)
  <2> TAKE i \in start_offset + 1 .. n
  <2>1. \/ i \in start_offset + 1 .. scan \/ i \in scan + 1 .. o
        \/ i = o + 1 \/ i \in o + 1 + 1 .. n + 1
    BY <1>1
  <2> QED
    BY <1>3, <1>7, <2>1 DEF CommentOK, IsComment
<1>9. n + 1 \in o + 1 + 1 .. n + 1
  BY <1>1
<1> QED
  BY <1>7, <1>8, <1>9

Where(code, line) ==
  IF code THEN CodeOK(scan', non_comment_offset', chunks')
  ELSE CommentOK(scan', line, start_offset', chunks')

LEMMA StillWhere ==
  ASSUME text' = text, Where(InCode', in_single_line_comment'), status' = "scanning", ScanTypes'
  PROVE  ScanTypes' /\ ScanOK'
<1>1. /\ States' = States /\ \A n : Blanked(n)' = Blanked(n)
      /\ \A i : IsComment(States, i)' = IsComment(States, i)
  BY SameText
<1>2. \A at, from, out : CodeOK(at, from, out)' = CodeOK(at, from, out)
  BY <1>1 DEF CodeOK
<1>3. \A at, line, from, out : CommentOK(at, line, from, out)' = CommentOK(at, line, from, out)
  BY <1>1 DEF CommentOK
<1>4. CommentsBlanked'
  BY DEF CommentsBlanked
<1> QED
  BY <1>2, <1>3, <1>4 DEF Where, ScanOK

(* The same of the state a step leads to. *)
LEMMA EndedThen ==
  ASSUME text' = text, ScanTypes', status' = "ended",
         States[Len(text) + 1] \in {"code", "line"}, chunks' = Blanked(Len(text))
  PROVE  ScanTypes' /\ ScanOK'
<1>1. States' = States /\ \A n : Blanked(n)' = Blanked(n)
  BY SameText
<1>2. \A i : IsComment(States, i)' = IsComment(States, i)
  BY SameText
<1>3. DOMAIN text = 1 .. Len(text)
  BY DEF ScanTypes
<1>4. chunks' = [i \in DOMAIN text |-> IF IsComment(States, i) THEN Space ELSE text[i]]
  BY <1>3 DEF Blanked
<1>5. chunks' = [i \in DOMAIN text' |-> IF IsComment(States, i)' THEN Space ELSE text'[i]]
  BY <1>2, <1>4
<1>6. CommentsBlanked'
  BY <1>1, <1>5 DEF CommentsBlanked
<1> QED
  BY <1>6 DEF ScanOK

LEMMA RaisedThen ==
  ASSUME text' = text, start_offset' = start_offset, ScanTypes', status' = "raised",
         States[Len(text) + 1] \in {"block", "nested"},
         \A i \in start_offset + 1 .. Len(text) : IsComment(States, i),
         start_offset = 0 \/ ~ IsComment(States, start_offset) \/ States[start_offset] = "closing"
  PROVE  ScanTypes' /\ ScanOK'
<1>1. States' = States /\ \A i : IsComment(States, i)' = IsComment(States, i)
  BY SameText
<1>2. CommentsBlanked'
  BY <1>1 DEF CommentsBlanked
<1> QED
  BY <1>2 DEF ScanOK

LEMMA NextMarkerKeeps == ScanTypes /\ ScanOK /\ NextMarker => ScanTypes' /\ ScanOK'
<1> SUFFICES ASSUME ScanTypes, ScanOK, NextMarker PROVE ScanTypes' /\ ScanOK'
  OBVIOUS
<1> DEFINE o == Min(Markers)
           kind == Marker(o)
<1>1. /\ status = "scanning" /\ Markers # {} /\ text' = text /\ scan' = o + Len(kind)
      /\ \/ EndLine(o, kind) \/ InLine(o, kind)
         \/ NestedBegin(o, kind) \/ EndBlock(o, kind) \/ InBlock(o, kind)
         \/ StartComment(o, kind) \/ OtherMarker(o, kind)
  BY DEF NextMarker
<1>2. AtMarker(o, kind)
  BY <1>1, MarkerFound
<1> HIDE DEF o, kind
<1>3. /\ scan \in 0 .. o /\ scan' \in 0 .. Len(text) /\ o \in 0 .. scan' /\ kind \in Kinds
      /\ (kind \in {Begin, End, Line} => scan' = o + 2) /\ (kind = <<NL>> => scan' = o + 1)
  <2>1. /\ o \in scan .. Len(text) - 1 /\ o + Len(kind) \in o + 1 .. Len(text) /\ kind \in Kinds
        /\ kind = <<NL>> => Len(kind) = 1
        /\ kind # <<NL>> => Len(kind) = 2
    BY <1>2 DEF AtMarker
  <2>2. scan \in 0 .. Len(text)
    BY DEF ScanTypes
  <2>3. kind \in {Begin, End, Line} => kind # <<NL>>
    BY KindsApart
  <2>4. CASE kind = <<NL>>
    <3>1. scan' = o + 1
      BY <1>1, <2>1, <2>4
    <3> QED
      BY <2>1, <2>2, <2>3, <2>4, <3>1
  <2>5. CASE kind # <<NL>>
    <3>1. scan' = o + 2 /\ Len(kind) = 2
      BY <1>1, <2>1, <2>5
    <3> QED
      BY <2>1, <2>2, <2>5, <3>1
  <2> QED
    BY <2>4, <2>5
<1>4. ScanTypes'
  <2>1. start_offset' \in {start_offset, o} /\ non_comment_offset' \in {non_comment_offset, o, scan'}
    BY <1>1, <1>3 DEF EndLine, InLine, NestedBegin, EndBlock, InBlock, StartComment, OtherMarker, Pass
  <2>2. start_offset' \in 0 .. scan' /\ non_comment_offset' \in 0 .. scan'
    BY <1>3, <2>1 DEF ScanTypes
  <2>3. /\ in_single_line_comment' \in BOOLEAN /\ in_multi_line_comment' \in BOOLEAN
        /\ ~ (in_single_line_comment' /\ in_multi_line_comment')
        /\ status' \in {"scanning", "ended", "raised"}
    <3>1. CASE EndLine(o, kind)
      BY <3>1, KindsApart DEF EndLine, ScanTypes
    <3>2. CASE InLine(o, kind)
      BY <3>2, KindsApart DEF InLine, Pass, ScanTypes
    <3>3. CASE NestedBegin(o, kind)
      BY <3>3, KindsApart DEF NestedBegin, ScanTypes
    <3>4. CASE EndBlock(o, kind)
      BY <3>4, KindsApart DEF EndBlock, ScanTypes
    <3>5. CASE InBlock(o, kind)
      BY <3>5, KindsApart DEF InBlock, Pass, ScanTypes
    <3>6. CASE StartComment(o, kind)
      BY <3>6, KindsApart DEF StartComment, ScanTypes
    <3>7. CASE OtherMarker(o, kind)
      BY <3>7, KindsApart DEF OtherMarker, Pass, ScanTypes
    <3> QED
      BY <1>1, <3>1, <3>2, <3>3, <3>4, <3>5, <3>6, <3>7
  <2> QED
    BY <1>1, <1>3, <2>2, <2>3 DEF ScanTypes
<1>6. IF InCode THEN CodeOK(scan, non_comment_offset, chunks)
      ELSE CommentOK(scan, in_single_line_comment, start_offset, chunks)
  BY <1>1 DEF ScanOK
<1>7. CASE NestedBegin(o, kind)
  <2>1. /\ ~ InCode /\ in_single_line_comment = FALSE /\ kind = Begin
        /\ status' = "raised" /\ start_offset' = start_offset
    BY <1>7 DEF NestedBegin, ScanTypes, InCode
  <2>2. CommentOK(scan, FALSE, start_offset, chunks)
    BY <1>6, <2>1
  <2>3. /\ States[Len(text) + 1] = "nested"
        /\ \A i \in start_offset + 1 .. Len(text) : IsComment(States, i)
    BY <1>2, <2>1, <2>2, NestedBlock
  <2>4. start_offset = 0 \/ ~ IsComment(States, start_offset) \/ States[start_offset] = "closing"
    BY <2>2 DEF CommentOK
  <2> QED
    BY <1>1, <1>4, <2>1, <2>3, <2>4, RaisedThen
<1>8. CASE ~ NestedBegin(o, kind)
  <2>2. Where(InCode', in_single_line_comment')
    <3>1. CASE EndLine(o, kind)
      <4>1. /\ in_single_line_comment /\ ~ in_multi_line_comment /\ kind = <<NL>>
            /\ ~ in_single_line_comment' /\ ~ in_multi_line_comment'
            /\ chunks' = chunks \o Spaces(o - start_offset) /\ non_comment_offset' = o
        BY <3>1 DEF EndLine, ScanTypes
      <4>2. CommentOK(scan, TRUE, start_offset, chunks)
        BY <1>6, <4>1 DEF InCode
      <4>3. CodeOK(o + 1, o, chunks \o Spaces(o - start_offset))
        BY <1>2, <4>1, <4>2, LineEnds
      <4> QED
        BY <1>3, <4>1, <4>3 DEF InCode, Where
    <3>2. CASE InLine(o, kind)
      <4>1. /\ in_single_line_comment /\ ~ in_multi_line_comment /\ kind # <<NL>>
            /\ ~ InCode' /\ in_single_line_comment' = TRUE /\ start_offset' = start_offset /\ chunks' = chunks
        BY <3>2 DEF InLine, Pass, ScanTypes, InCode
      <4>2. CommentOK(scan, TRUE, start_offset, chunks)
        BY <1>6, <4>1 DEF InCode
      <4>3. CommentOK(o + Len(kind), TRUE, start_offset, chunks)
        BY <1>2, <4>1, <4>2, LineGoesOn
      <4> QED
        BY <1>1, <4>1, <4>3 DEF Where
    <3>4. CASE EndBlock(o, kind)
      <4>1. /\ ~ InCode /\ in_single_line_comment = FALSE /\ kind = End /\ InCode'
            /\ chunks' = chunks \o Spaces(o + 2 - start_offset) /\ non_comment_offset' = o + 2
        BY <3>4 DEF EndBlock, ScanTypes, InCode
      <4>2. CommentOK(scan, FALSE, start_offset, chunks)
        BY <1>6, <4>1
      <4>3. CodeOK(o + 2, o + 2, chunks \o Spaces(o + 2 - start_offset))
        BY <1>2, <4>1, <4>2, BlockEnds
      <4> QED
        BY <1>3, <4>1, <4>3 DEF Where
    <3>5. CASE InBlock(o, kind)
      <4>1. /\ ~ InCode /\ in_single_line_comment = FALSE /\ kind \in {Line, <<NL>>}
            /\ ~ InCode' /\ in_single_line_comment' = FALSE
            /\ start_offset' = start_offset /\ chunks' = chunks
        BY <1>3, <3>5 DEF InBlock, Pass, ScanTypes, InCode, Kinds
      <4>2. CommentOK(scan, FALSE, start_offset, chunks)
        BY <1>6, <4>1
      <4>3. CommentOK(o + Len(kind), FALSE, start_offset, chunks)
        BY <1>2, <4>1, <4>2, BlockGoesOn
      <4> QED
        BY <1>1, <4>1, <4>3 DEF Where
    <3>6. CASE StartComment(o, kind)
      <4>1. /\ InCode /\ kind \in {Begin, Line} /\ in_single_line_comment' = (kind = Line)
            /\ ~ InCode' /\ start_offset' = o
            /\ chunks' = chunks \o Piece(non_comment_offset, o)
        BY <3>6 DEF StartComment, InCode
      <4>2. CodeOK(scan, non_comment_offset, chunks)
        BY <1>6, <4>1
      <4>3. CommentOK(o + 2, kind = Line, o, chunks \o Piece(non_comment_offset, o))
        BY <1>2, <4>1, <4>2, CommentStarts
      <4>4. scan' = o + 2
        BY <1>3, <4>1
      <4> QED
        BY <4>1, <4>3, <4>4 DEF Where
    <3>7. CASE OtherMarker(o, kind)
      <4>1. /\ InCode /\ kind \in {End, <<NL>>} /\ InCode'
            /\ non_comment_offset' = non_comment_offset /\ chunks' = chunks
        BY <3>7 DEF OtherMarker, Pass, InCode
      <4>2. CodeOK(scan, non_comment_offset, chunks)
        BY <1>6, <4>1
      <4>3. CodeOK(o + Len(kind), non_comment_offset, chunks)
        BY <1>2, <4>1, <4>2, CodeGoesOn
      <4> QED
        BY <1>1, <4>1, <4>3 DEF Where
    <3> QED
      BY <1>1, <1>8, <3>1, <3>2, <3>4, <3>5, <3>6, <3>7
  <2>3. status' = "scanning"
    BY <1>1, <1>8 DEF EndLine, InLine, EndBlock, InBlock, StartComment, OtherMarker, Pass
  <2> QED
    BY <1>1, <1>4, <2>2, <2>3, StillWhere
<1> QED
  BY <1>7, <1>8

(* Behind the last marker there is none. *)
LEMMA NoMarkers ==
  ASSUME ScanTypes, Markers = {}
  PROVE  \A i \in scan + 1 .. Len(text) : Two(i) \notin {Begin, End, Line} /\ text[i] # NL
<1> TAKE i \in scan + 1 .. Len(text)
<1> DEFINE j == i - 1
<1>1. /\ text \in Seq(Characters) /\ j \in scan .. Len(text) - 1 /\ j \in 0 .. Len(text) - 1
      /\ j + 1 = i
  BY DEF ScanTypes
<1> HIDE DEF j
<1>2. Marker(j) \notin Kinds
  BY <1>1 DEF Markers, Kinds
<1>3. Two(j + 1) \notin {Begin, End, Line} /\ text[j + 1] # NL
  BY <1>1, <1>2, MarkerIs DEF Kinds
<1> QED
  BY <1>1, <1>3

LEMMA EndOfTextKeeps == ScanTypes /\ ScanOK /\ EndOfText => ScanTypes' /\ ScanOK'
<1> SUFFICES ASSUME ScanTypes, ScanOK, EndOfText PROVE ScanTypes' /\ ScanOK'
  OBVIOUS
<1> DEFINE n == Len(text)
<1>1. /\ status = "scanning" /\ Markers = {}
      /\ text' = text /\ scan' = scan /\ start_offset' = start_offset
      /\ non_comment_offset' = non_comment_offset
      /\ in_single_line_comment' = in_single_line_comment
      /\ in_multi_line_comment' = in_multi_line_comment
      /\ status' = IF in_multi_line_comment THEN "raised" ELSE "ended"
  BY DEF EndOfText
<1>2. ScanTypes'
  BY <1>1 DEF ScanTypes
<1>3. /\ text \in Seq(Characters) /\ n \in Nat /\ scan \in 0 .. n /\ n \in scan .. n
      /\ start_offset \in 0 .. n /\ n \in start_offset .. n
      /\ non_comment_offset \in 0 .. n /\ n \in non_comment_offset .. n /\ n <= n
  BY DEF ScanTypes
<1>4. \A i \in scan + 1 .. n : Two(i) \notin {Begin, End, Line} /\ text[i] # NL
  BY <1>1, NoMarkers
<1>5. status' # "scanning" /\ status' \in {"ended", "raised"}
  BY <1>1
<1> HIDE DEF n
<1>6. IF InCode THEN CodeOK(scan, non_comment_offset, chunks)
      ELSE CommentOK(scan, in_single_line_comment, start_offset, chunks)
  BY <1>1 DEF ScanOK
<1>7. CASE InCode
  <2>1. CodeOK(scan, non_comment_offset, chunks)
    BY <1>6, <1>7
  <2>2. States[n + 1] = "code" /\ \A i \in scan + 1 .. n : ~ IsComment(States, i)
    BY <1>3, <1>4, <2>1, QuietCode DEF CodeOK, n
  <2>3. \A i \in non_comment_offset + 1 .. n : ~ IsComment(States, i)
    <3> TAKE i \in non_comment_offset + 1 .. n
    <3>1. i \in non_comment_offset + 1 .. scan \/ i \in scan + 1 .. n
      BY <1>3
    <3> QED
      BY <2>1, <2>2, <3>1 DEF CodeOK
  <2>4. chunks \o Piece(non_comment_offset, n) = Blanked(n)
    <3>1. Blanked(non_comment_offset) \o Piece(non_comment_offset, n) = Blanked(n)
      BY <1>3, <2>3, BlankCode DEF n
    <3> QED
      BY <2>1, <3>1 DEF CodeOK
  <2>5. status' = "ended" /\ chunks' = chunks \o Piece(non_comment_offset, n)
    BY <1>7 DEF InCode, EndOfText, n
  <2> QED
    BY <1>1, <1>2, <2>2, <2>4, <2>5, EndedThen DEF n
<1>8. CASE in_single_line_comment
  <2>1. CommentOK(scan, TRUE, start_offset, chunks)
    BY <1>6, <1>8 DEF InCode, ScanTypes
  <2>2. States[n + 1] = "line" /\ \A i \in scan + 1 .. n : IsComment(States, i)
    BY <1>3, <1>4, <2>1, QuietLine DEF CommentOK, n
  <2>3. \A i \in start_offset + 1 .. n : IsComment(States, i)
    <3> TAKE i \in start_offset + 1 .. n
    <3>1. i \in start_offset + 1 .. scan \/ i \in scan + 1 .. n
      BY <1>3
    <3> QED
      BY <2>1, <2>2, <3>1 DEF CommentOK
  <2>4. chunks \o Spaces(n - start_offset) = Blanked(n)
    <3>1. Blanked(start_offset) \o Spaces(n - start_offset) = Blanked(n)
      BY <1>3, <2>3, BlankSpaces DEF n
    <3> QED
      BY <2>1, <3>1 DEF CommentOK
  <2>5. ~ in_multi_line_comment
    BY <1>8 DEF ScanTypes
  <2>6. status' = "ended" /\ chunks' = chunks \o Spaces(n - start_offset)
    BY <1>8, <2>5 DEF EndOfText, n
  <2> QED
    BY <1>1, <1>2, <2>2, <2>4, <2>6, EndedThen DEF n
<1>9. CASE in_multi_line_comment
  <2>1. in_single_line_comment = FALSE /\ ~ InCode
    BY <1>9 DEF ScanTypes, InCode
  <2>2. CommentOK(scan, FALSE, start_offset, chunks)
    BY <1>6, <2>1
  <2>3. States[n + 1] = "block" /\ \A i \in scan + 1 .. n : IsComment(States, i)
    BY <1>3, <1>4, <2>2, QuietBlock DEF CommentOK, n
  <2>4. \A i \in start_offset + 1 .. n : IsComment(States, i)
    <3> TAKE i \in start_offset + 1 .. n
    <3>1. i \in start_offset + 1 .. scan \/ i \in scan + 1 .. n
      BY <1>3
    <3> QED
      BY <2>2, <2>3, <3>1 DEF CommentOK
  <2>5. start_offset = 0 \/ ~ IsComment(States, start_offset) \/ States[start_offset] = "closing"
    BY <2>2 DEF CommentOK
  <2>6. status' = "raised"
    BY <1>1, <1>9
  <2> QED
    BY <1>1, <1>2, <2>3, <2>4, <2>5, <2>6, RaisedThen DEF n
<1> QED
  BY <1>7, <1>8, <1>9 DEF InCode

LEMMA ScanUnchanged == ScanTypes /\ ScanOK /\ UNCHANGED comments => ScanTypes' /\ ScanOK'
<1> SUFFICES ASSUME ScanTypes, ScanOK, UNCHANGED comments PROVE ScanTypes' /\ ScanOK'
  OBVIOUS
<1>1. /\ text' = text /\ scan' = scan /\ start_offset' = start_offset /\ chunks' = chunks
      /\ non_comment_offset' = non_comment_offset /\ status' = status
      /\ in_single_line_comment' = in_single_line_comment
      /\ in_multi_line_comment' = in_multi_line_comment
  BY DEF comments
<1>2. ScanTypes'
  BY <1>1 DEF ScanTypes
<1>3. /\ States' = States
      /\ \A m : Blanked(m)' = Blanked(m)
      /\ \A i : IsComment(States, i)' = IsComment(States, i)
  BY <1>1, SameText
<1>4. CommentsBlanked'
  BY <1>1, <1>3 DEF ScanOK, CommentsBlanked
<1>5. /\ \A at, from, out : CodeOK(at, from, out)' = CodeOK(at, from, out)
      /\ \A at, line, from, out : CommentOK(at, line, from, out)' = CommentOK(at, line, from, out)
  BY <1>3 DEF CodeOK, CommentOK
<1>6. InCode' = InCode
  BY <1>1 DEF InCode
<1> QED
  BY <1>1, <1>2, <1>3, <1>4, <1>5, <1>6 DEF ScanOK

(* An empty text comes out as it is. *)
NothingIn ==
  ScanTypes /\ text = <<>> /\ chunks = <<>> /\ start_offset = 0 /\ status # "raised"

LEMMA NothingOut == NothingIn => CommentsBlanked
<1> SUFFICES ASSUME NothingIn PROVE CommentsBlanked
  OBVIOUS
<1>1. Len(text) = 0 /\ text \in Seq(Characters) /\ ScanTypes /\ chunks = <<>>
  BY DEF ScanTypes, NothingIn
<1>2. States[1] = "code"
  BY <1>1, StatesAre
<1>3. Blanked(0) = <<>>
  BY DEF Blanked
<1>4. CASE status = "ended"
  BY <1>1, <1>2, <1>3, <1>4, Ended
<1>5. CASE status = "scanning"
  BY <1>5, NotYet
<1> QED
  BY <1>4, <1>5 DEF ScanTypes, NothingIn

LEMMA NothingOutThen == NothingIn' => CommentsBlanked'
BY NothingOut, PTL

LEMMA ParseKeeps == ScanTypes /\ ScanOK /\ Parse => ScanTypes' /\ ScanOK'
<1> SUFFICES ASSUME ScanTypes, ScanOK, Parse PROVE ScanTypes' /\ ScanOK'
  OBVIOUS
<1>1. /\ text' = <<>> /\ scan' = 0 /\ start_offset' = 0 /\ non_comment_offset' = 0 /\ chunks' = <<>>
      /\ in_single_line_comment' = FALSE /\ in_multi_line_comment' = FALSE
      /\ status' = "ended"
  BY DEF Parse
<1>2. Len(<<>>) = 0 /\ <<>> \in Seq(Characters) /\ 0 \in 0 .. 0
  OBVIOUS
<1>3. ScanTypes'
  BY <1>1, <1>2 DEF ScanTypes
<1>4. CommentsBlanked'
  BY <1>1, <1>3, NothingOutThen DEF NothingIn
<1> QED
  BY <1>1, <1>3, <1>4 DEF ScanOK

LEMMA ScanStarts == Init => ScanTypes /\ ScanOK
<1> SUFFICES ASSUME Init PROVE ScanTypes /\ ScanOK
  OBVIOUS
<1>1. /\ text \in Seq(Characters) /\ scan = 0 /\ start_offset = 0 /\ non_comment_offset = 0
      /\ chunks = <<>> /\ in_single_line_comment = FALSE /\ in_multi_line_comment = FALSE
      /\ status = "scanning"
  BY TextsAssumption DEF Init, CommentsInit
<1>2. Len(text) \in Nat /\ 0 \in 0 .. 0 /\ 0 \in 0 .. Len(text)
  BY <1>1
<1>3. ScanTypes
  BY <1>1, <1>2 DEF ScanTypes
<1>4. Blanked(0) = <<>>
  BY DEF Blanked
<1>5. States[0 + 1] = "code" /\ \A i \in 0 + 1 .. 0 : FALSE
  BY <1>1, StatesAre
<1>6. CodeOK(0, 0, <<>>)
  BY <1>4, <1>5 DEF CodeOK
<1>7. CommentsBlanked
  BY <1>1, NotYet
<1> QED
  BY <1>1, <1>3, <1>6, <1>7 DEF ScanOK, InCode

LEMMA ScanInductive == ScanTypes /\ ScanOK /\ [Next]_frontend => ScanTypes' /\ ScanOK'
<1> SUFFICES ASSUME ScanTypes, ScanOK, [Next]_frontend PROVE ScanTypes' /\ ScanOK'
  OBVIOUS
<1>1. CASE UNCHANGED comments
  BY <1>1, ScanUnchanged
<1>2. CASE ignore_comments
  BY <1>2, NextMarkerKeeps, EndOfTextKeeps DEF ignore_comments
<1>3. CASE Parse
  BY <1>3, ParseKeeps
<1> QED
  BY <1>1, <1>2, <1>3 DEF Next, frontend

(* ignore_comments: in every text over any characters, those that a reader of
   single characters finds in comments become spaces and no others do; and only a
   comment that is not closed, or has a "/*" in it, raises, at its begin. *)
THEOREM FrontendCommentsBlanked == Spec => []CommentsBlanked
<1> DEFINE Inv == ScanTypes /\ ScanOK
<1>1. Inv => CommentsBlanked
  BY DEF ScanOK
<1> QED
  BY <1>1, ScanStarts, ScanInductive, PTL DEF Spec

-----------------------------------------------------------------------------

(* The namespaces of a file, put together. *)
LEMMA Namespaces ==
  ASSUME IsFile(file), NEW s \in Seq(Identifiers)
  PROVE  /\ Dotted(s) \in Seq(Seq(Identifiers)) /\ Len(Dotted(s)) = Len(s)
         /\ namespace_base \in Seq(Seq(Identifiers)) /\ Len(namespace_base) \in {0, 1}
         /\ FlattenSeq(Dotted(s)) = s
         /\ FlattenSeq(namespace_base \o Dotted(s)) = file.package \o s
         /\ FlattenSeq(namespace_base) = file.package
<1> DEFINE pk == file.package
           d == Dotted(s)
           base == namespace_base
           m == IF pk = None THEN 0 ELSE 1
           seqs == base \o d
<1>1. pk \in Seq(Identifiers) /\ Len(s) \in Nat /\ DOMAIN s = 1 .. Len(s)
  BY DEF IsFile
<1>2. d = [i \in 1 .. Len(s) |-> <<s[i]>>] /\ \A i \in 1 .. Len(s) : <<s[i]>> \in Seq(Identifiers)
  BY <1>1 DEF Dotted
<1>3. d \in Seq(Seq(Identifiers)) /\ Len(d) = Len(s) /\ \A i \in 1 .. Len(s) : d[i] = <<s[i]>>
  <2> HIDE DEF d
  <2> QED
    BY <1>1, <1>2
<1>4. /\ base = IF pk = None THEN <<>> ELSE <<pk>>
      /\ m = 0 => pk = <<>> /\ base = <<>>
      /\ m = 1 => base = <<pk>>
  BY DEF namespace_base, None
<1>5. base \in Seq(Seq(Identifiers)) /\ Len(base) = m /\ (m = 1 => base[1] = pk) /\ m \in {0, 1}
  <2> HIDE DEF pk, base
  <2>1. CASE m = 0
    BY <1>4, <2>1
  <2>2. CASE m = 1
    BY <1>1, <1>4, <2>2
  <2>3. m = 0 \/ m = 1
    OBVIOUS
  <2> QED
    BY <2>1, <2>2, <2>3
<1> HIDE DEF pk, d, base, m
<1>6. /\ seqs \in Seq(Seq(Identifiers)) /\ Len(seqs) = m + Len(s)
      /\ (m = 1 => seqs[1] = pk) /\ \A i \in 1 .. Len(s) : seqs[m + i] = <<s[i]>>
  <2> DEFINE T == Seq(Identifiers)
  <2>1. base \in Seq(T) /\ d \in Seq(T)
    BY <1>3, <1>5
  <2> HIDE DEF T
  <2>2. seqs \in Seq(T) /\ Joined(seqs, base, d)
    BY <2>1, JoinedIs
  <2> HIDE DEF seqs
  <2>3. Len(seqs) = m + Len(s) /\ \A i \in 1 .. Len(s) : seqs[m + i] = <<s[i]>>
    BY <1>3, <1>5, <2>2 DEF Joined
  <2>4. m = 1 => seqs[1] = pk
    <3> SUFFICES ASSUME m = 1 PROVE seqs[1] = pk
      OBVIOUS
    <3>1. 1 \in 1 .. Len(base)
      BY <1>5
    <3> QED
      BY <1>5, <2>2, <3>1 DEF Joined
  <2> QED
    BY <2>2, <2>3, <2>4 DEF T
<1> HIDE DEF seqs
<1>7. FlattenSeq(seqs) = pk \o s
  <2>1. Ones(seqs, m, pk, s)
    BY <1>4, <1>5, <1>6 DEF Ones
  <2> QED
    BY <1>1, <1>6, <2>1, FlattenOnes
<1>8. FlattenSeq(d) = <<>> \o s
  <2>1. Ones(d, 0, <<>>, s) /\ <<>> \in Seq(Identifiers)
    BY <1>1, <1>3 DEF Ones
  <2> QED
    BY <1>1, <1>3, <2>1, FlattenOnes
<1>9. FlattenSeq(base) = pk \o <<>>
  <2> DEFINE t == <<>>
  <2>1. t \in Seq(Identifiers) /\ Len(t) = 0 /\ Len(base) = m + Len(t)
    BY <1>5
  <2>2. Ones(base, m, pk, t)
    BY <1>4, <1>5, <2>1 DEF Ones
  <2> HIDE DEF t
  <2>3. FlattenSeq(base) = pk \o t
    BY <1>1, <1>5, <2>1, <2>2, FlattenOnes, ZenonT(60)
  <2> QED
    BY <2>3 DEF t
<1>10. <<>> \o s = s /\ pk \o <<>> = pk
  BY <1>1, ConcatEmptySeq
<1> QED
  BY <1>3, <1>5, <1>7, <1>8, <1>9, <1>10 DEF pk, d, base, seqs

(* lookup_type leaves the package out. *)
LEMMA BelowPackage ==
  ASSUME IsFile(file), NEW s \in Seq(Identifiers), NEW namespace, namespace = namespace_base \o Dotted(s)
  PROVE  FlattenSeq(SubSeq(namespace, Len(namespace_base) + 1, Len(namespace))) = s
<1> DEFINE base == namespace_base
           d == Dotted(s)
           T == Seq(Identifiers)
           n == Len(base)
           below == SubSeq(namespace, n + 1, Len(namespace))
<1>1. d \in Seq(T) /\ Len(d) = Len(s) /\ base \in Seq(T) /\ FlattenSeq(d) = s
  BY Namespaces
<1>2. namespace = base \o d
  OBVIOUS
<1> HIDE DEF base, d, T
<1>3. namespace \in Seq(T) /\ Joined(namespace, base, d)
  BY <1>1, <1>2, JoinedIs
<1>4. n \in Nat /\ Len(d) \in Nat /\ Len(namespace) = n + Len(d) /\ n \in 0 .. Len(namespace)
  BY <1>3 DEF Joined
<1> HIDE DEF n
<1>5. /\ below \in Seq(T) /\ Len(below) = Len(namespace) - n
      /\ \A i \in 1 .. Len(namespace) - n : below[i] = namespace[n + i]
  BY <1>3, <1>4, RestIs
<1>6. Len(namespace) - n = Len(d)
  BY <1>4
<1> HIDE DEF below
<1>7. \A i \in 1 .. Len(below) : below[i] = d[i]
  BY <1>3, <1>5, <1>6 DEF Joined, n
<1>8. below = d
  BY <1>1, <1>5, <1>6, <1>7, SeqEqual
<1> QED
  BY <1>1, <1>8 DEF below, n, base

KindOf(field) == IF is_field_enum(field) THEN "enum" ELSE "message"

TypeName(field) == file.fields[field].type
LastName(field) == Last(TypeName(field))

LEMMA FieldIs ==
  ASSUME IsFile(file), NEW field \in Fields
  PROVE  /\ file.package \in Seq(Identifiers)
         /\ TypeName(field) \in Seq(Identifiers) /\ TypeName(field) # <<>>
         /\ Len(TypeName(field)) \in Nat \ {0}
         /\ Front(TypeName(field)) \in Seq(Identifiers) /\ LastName(field) \in Identifiers
         /\ Len(Front(TypeName(field))) = Len(TypeName(field)) - 1
         /\ Front(TypeName(field)) \o <<LastName(field)>> = TypeName(field)
         /\ file.fields[field].in \in Seq(Identifiers)
<1>1. /\ file.package \in Seq(Identifiers)
      /\ TypeName(field) \in Seq(Identifiers) /\ TypeName(field) # <<>>
      /\ file.fields[field].in \in DOMAIN file.kinds
      /\ \A path \in DOMAIN file.kinds : path \in Seq(Identifiers)
  BY DEF IsFile, Fields, TypeName
<1>2. Len(TypeName(field)) \in Nat \ {0}
  BY <1>1, EmptySeq
<1> QED
  BY <1>1, <1>2, FrontAndLast DEF LastName

(* An import that is asked first tells the kind, of a type of that name if that
   is the type's full name. *)
LEMMA ImportTells ==
  ASSUME IsFile(file), NEW field \in Fields, Answers(field) # {}
  PROVE  /\ KindOf(field) = file.imports[Min(Answers(field))].kinds[LastName(field)]
         /\ FullType(field) = resolved[field].package \o <<LastName(field)>> =>
              KindOf(field) \in Denoted(field)
<1> DEFINE i == Min(Answers(field))
           import == file.imports[i]
           l == LastName(field)
<1>1. Answers(field) \in SUBSET Nat
  <2>1. DOMAIN file.imports \in SUBSET Nat
    BY DEF IsFile
  <2> QED
    BY <2>1 DEF Answers
<1>2. i \in Answers(field)
  BY <1>1, MinExists
<1> HIDE DEF i
<1>3. i \in DOMAIN file.imports /\ import.package = resolved[field].package /\ l \in DOMAIN import.kinds
  BY <1>2 DEF Answers, LastName, TypeName
<1>4. import \in Range(file.imports)
  BY <1>3 DEF Range
<1>5. import.kinds \in [DOMAIN import.kinds -> TypeKinds]
  BY <1>4 DEF IsFile
<1>6. import.kinds[l] \in {"message", "enum"}
  BY <1>3, <1>5 DEF TypeKinds
<1>7. is_field_enum(field) = (import.kinds[l] = "enum")
  BY DEF is_field_enum, i, LastName, TypeName
<1>8. KindOf(field) = import.kinds[l]
  BY <1>6, <1>7 DEF KindOf
<1> HIDE DEF import, l
<1>9. ASSUME import.package \o <<l>> = FullType(field)
      PROVE  KindOf(field) \in Denoted(field)
  <2>1. import.kinds[l] \in {import.kinds[name] : name \in {n \in DOMAIN import.kinds :
                                                               import.package \o <<n>> = FullType(field)}}
    BY <1>3, <1>9
  <2>2. import.kinds[l] \in
           UNION {{i1.kinds[name] : name \in {n \in DOMAIN i1.kinds : i1.package \o <<n>> = FullType(field)}} :
                    i1 \in Range(file.imports)}
    BY <1>4, <2>1
  <2> QED
    BY <1>8, <2>2 DEF Denoted
<1> QED
  BY <1>3, <1>8, <1>9 DEF import, l, i

(* So does the file itself. *)
LEMMA FileTells ==
  ASSUME IsFile(file), NEW field \in Fields, Answers(field) = {}, NEW path \in DOMAIN file.kinds,
         FullType(field) = file.package \o path, lookup_type(field) = file.kinds[path]
  PROVE  KindOf(field) \in Denoted(field)
<1>1. file.kinds[path] \in {"message", "enum"}
  BY DEF IsFile, TypeKinds
<1>2. KindOf(field) = file.kinds[path]
  BY <1>1 DEF KindOf, is_field_enum
<1>3. FullName(path) = FullType(field)
  BY Namespaces, EmptySeq DEF FullName
<1> QED
  BY <1>2, <1>3 DEF Denoted

(* A name that no import answers to and the file does not have is nothing's. *)
LEMMA NothingTells ==
  ASSUME IsFile(file), NEW field \in Fields, Answers(field) = {},
         FullType(field) = resolved[field].package \o <<LastName(field)>>,
         resolved[field].package \in Seq(Identifiers),
         \A path \in DOMAIN file.kinds : file.package \o path # FullType(field)
  PROVE  Denoted(field) = {}
<1> DEFINE Same(import) == {n \in DOMAIN import.kinds : import.package \o <<n>> = FullType(field)}
<1>1. \A path \in DOMAIN file.kinds : FullName(path) # FullType(field)
  BY Namespaces, EmptySeq DEF FullName
<1>2. ASSUME NEW import \in Range(file.imports), NEW n \in DOMAIN import.kinds,
             import.package \o <<n>> = FullType(field)
      PROVE  FALSE
  <2>1. PICK i \in DOMAIN file.imports : import = file.imports[i]
    BY DEF Range
  <2>2. import.package \in Seq(Identifiers) /\ LastName(field) \in Identifiers
    BY FieldIs DEF IsFile
  <2>3. import.package = resolved[field].package /\ n = LastName(field)
    <3> DEFINE s == import.package
               t == resolved[field].package
               y == LastName(field)
    <3>1. s \in Seq(Identifiers) /\ t \in Seq(Identifiers)
      BY <2>2
    <3>2. s \o <<n>> = t \o <<y>>
      BY <1>2
    <3> HIDE DEF s, t, y
    <3>3. s = t /\ n = y
      BY <3>1, <3>2, SameLast, SMTT(60)
    <3> QED
      BY <3>3 DEF s, t, y
  <2> QED
    BY <2>1, <2>3 DEF Answers, LastName, TypeName
<1> QED
  BY <1>1, <1>2 DEF Denoted

(* What resolve_field_type makes of a name with a package before it, *)
LEMMA Qualified ==
  ASSUME IsFile(file), NEW field \in Fields, resolved[field] = resolve_field_type(field),
         Len(TypeName(field)) > 1
  PROVE  /\ resolved[field].package = Front(TypeName(field))
         /\ resolved[field].namespace = Dotted(Front(TypeName(field)))
         /\ FullType(field) = resolved[field].package \o <<LastName(field)>>
         /\ FullType(field) = TypeName(field)
<1>1. resolved[field] = [namespace |-> Dotted(Front(TypeName(field))), package |-> Front(TypeName(field))]
  BY DEF resolve_field_type, TypeName
<1>2. FlattenSeq(Dotted(Front(TypeName(field)))) = Front(TypeName(field))
  BY FieldIs, Namespaces
<1> QED
  BY <1>1, <1>2, FieldIs DEF FullType, LastName, TypeName

(* of a name in a message around the field, or at the top of the file, *)
Own(field, n) ==
  [namespace |-> namespace_base \o Dotted(SubSeq(file.fields[field].in, 1, n)), package |-> file.package]

LEMMA InScope ==
  ASSUME IsFile(file), NEW field \in Fields, NEW n \in 0 .. Len(file.fields[field].in),
         resolved[field] = Own(field, n)
  PROVE  LET path == SubSeq(file.fields[field].in, 1, n) \o <<LastName(field)>>
         IN  /\ resolved[field].package = file.package
             /\ FullType(field) = file.package \o path
             /\ n = 0 => FullType(field) = resolved[field].package \o <<LastName(field)>>
             /\ n = 0 => path = <<LastName(field)>>
             /\ n # 0 => Len(resolved[field].namespace) > Len(namespace_base)
             /\ Answers(field) = {} /\ path \in DOMAIN file.kinds => lookup_type(field) = file.kinds[path]
<1> DEFINE s == SubSeq(file.fields[field].in, 1, n)
           l == LastName(field)
           pk == file.package
           ns == namespace_base \o Dotted(s)
<1>1. s \in Seq(Identifiers) /\ Len(s) = n /\ pk \in Seq(Identifiers) /\ <<l>> \in Seq(Identifiers)
  <2>1. file.fields[field].in \in Seq(Identifiers) /\ l \in Identifiers /\ pk \in Seq(Identifiers)
    BY FieldIs
  <2> QED
    BY <2>1, Initial
<1>2. n = 0 => s = <<>>
  BY <1>1, EmptySeq
<1>3. resolved[field].package = pk /\ resolved[field].namespace = ns
  BY DEF Own
<1> HIDE DEF s, l, pk
<1>4. FlattenSeq(ns) = pk \o s /\ Len(Dotted(s)) = n
      /\ FlattenSeq(SubSeq(ns, Len(namespace_base) + 1, Len(ns))) = s
  BY <1>1, Namespaces, BelowPackage DEF pk
<1>5. FullType(field) = (pk \o s) \o <<l>>
  BY <1>3, <1>4 DEF FullType, l, LastName, TypeName
<1>6. (pk \o s) \o <<l>> = pk \o (s \o <<l>>)
  BY <1>1, ConcatAssociative
<1>7. n = 0 => FullType(field) = pk \o <<l>> /\ s \o <<l>> = <<l>>
  BY <1>1, <1>2, <1>5, ConcatEmptySeq
<1>8. n # 0 => Len(ns) > Len(namespace_base)
  <2>1. namespace_base \in Seq(Seq(Identifiers)) /\ Dotted(s) \in Seq(Seq(Identifiers))
    BY <1>1, Namespaces
  <2>2. Joined(ns, namespace_base, Dotted(s))
    BY <2>1, JoinedIs
  <2>3. Len(ns) = Len(namespace_base) + n /\ Len(namespace_base) \in Nat
    BY <1>4, <2>2 DEF Joined
  <2> HIDE DEF ns
  <2> QED
    BY <2>3
<1>9. s \o <<l>> \in DOMAIN file.kinds => lookup_type(field) = file.kinds[s \o <<l>>]
  BY <1>3, <1>4 DEF lookup_type, l, LastName, TypeName
<1> HIDE DEF ns
<1> QED
  BY <1>3, <1>5, <1>6, <1>7, <1>8, <1>9 DEF s, l, pk

(* and of one that nothing in sight has. *)
LEMMA Nowhere ==
  ASSUME IsFile(file), NEW field \in Fields, resolved[field] = resolve_field_type(field),
         Len(TypeName(field)) = 1, Scopes(field) = {}, ~ Imported(field)
  PROVE  /\ resolved[field].package = <<>> /\ FullType(field) = <<LastName(field)>>
         /\ FullType(field) = resolved[field].package \o <<LastName(field)>>
         /\ <<LastName(field)>> \notin DOMAIN file.kinds
         /\ resolved[field].namespace = <<>>
<1> DEFINE in == file.fields[field].in
           t == TypeName(field)
           l == LastName(field)
<1>1. /\ t \in Seq(Identifiers) /\ in \in Seq(Identifiers) /\ l \in Identifiers
      /\ Len(Front(t)) = 0 /\ Front(t) \in Seq(Identifiers) /\ Front(t) \o <<l>> = t
  <2>1. Len(t) = 1 /\ 1 - 1 = 0
    OBVIOUS
  <2> QED
    BY <2>1, FieldIs
<1>2. resolved[field] = [namespace |-> <<>>, package |-> None]
  BY DEF resolve_field_type, TypeName
<1>3. t = <<l>>
  <2>1. Front(t) = <<>>
    BY <1>1, EmptySeq
  <2> HIDE DEF t, l
  <2> QED
    BY <1>1, <2>1, ConcatEmptySeq
<1>4. FullType(field) = <<l>>
  BY <1>1, <1>2, ConcatEmptySeq DEF FullType, FlattenSeq, LastName, TypeName
<1>5. <<l>> \notin DOMAIN file.kinds
  <2>1. 0 \in 0 .. Len(in) /\ SubSeq(in, 1, 0) = <<>>
    BY <1>1, SubSeqEmpty
  <2>2. SubSeq(in, 1, 0) \o t = t
    BY <1>1, <2>1, ConcatEmptySeq
  <2>3. t \notin DOMAIN file.kinds
    BY <2>1, <2>2 DEF Scopes, TypeName
  <2> QED
    BY <1>3, <2>3
<1>6. <<>> \o <<l>> = <<l>>
  BY <1>1, ConcatEmptySeq
<1> QED
  BY <1>2, <1>4, <1>5, <1>6 DEF None

LEMMA OneName ==
  ASSUME IsFile(file), NEW field \in Fields, Len(TypeName(field)) = 1
  PROVE  TypeName(field) = <<LastName(field)>>
<1> DEFINE t == TypeName(field)
           l == LastName(field)
<1>1. l \in Identifiers /\ Len(Front(t)) = 0 /\ Front(t) \in Seq(Identifiers) /\ Front(t) \o <<l>> = t
  <2>1. Len(t) = 1 /\ 1 - 1 = 0
    OBVIOUS
  <2> QED
    BY <2>1, FieldIs
<1>2. Front(t) = <<>>
  BY <1>1, EmptySeq
<1> HIDE DEF t, l
<1>3. <<l>> = t
  BY <1>1, <1>2, ConcatEmptySeq
<1> QED
  BY <1>3 DEF t, l

(* The ways a type is resolved. *)
LEMMA Resolutions ==
  ASSUME IsFile(file), NEW field \in Fields, resolved[field] = resolve_field_type(field)
  PROVE  \/ Len(TypeName(field)) > 1
         \/ /\ Len(TypeName(field)) = 1
            /\ \E n \in Scopes(field) : n \in 0 .. Len(file.fields[field].in) /\ resolved[field] = Own(field, n)
         \/ Len(TypeName(field)) = 1 /\ Imported(field) /\ resolved[field] = Own(field, 0)
         \/ Len(TypeName(field)) = 1 /\ Scopes(field) = {} /\ ~ Imported(field)
<1>1. Len(TypeName(field)) > 1 \/ Len(TypeName(field)) = 1
  <2> DEFINE n == Len(TypeName(field))
  <2>1. n \in Nat \ {0}
    BY FieldIs
  <2> HIDE DEF n
  <2>2. n > 1 \/ n = 1
    BY <2>1
  <2> QED
    BY <2>2 DEF n
<1>2. CASE Len(TypeName(field)) = 1 /\ Scopes(field) # {}
  <2> DEFINE n == Max(Scopes(field))
             m == Len(file.fields[field].in)
  <2>1. m \in Nat /\ Scopes(field) \in SUBSET (0 .. m)
    BY FieldIs, LenProperties DEF Scopes
  <2>2. n \in Scopes(field)
    <3> HIDE DEF m
    <3> QED
      BY <1>2, <2>1, GreatestExists
  <2>3. resolved[field] = Own(field, n)
    BY <1>2 DEF resolve_field_type, Own, TypeName
  <2> QED
    BY <1>2, <2>1, <2>2, <2>3
<1>3. CASE Len(TypeName(field)) = 1 /\ Scopes(field) = {} /\ Imported(field)
  BY <1>3 DEF resolve_field_type, Own, TypeName
<1> QED
  BY <1>1, <1>2, <1>3

(* Below a package of several identifiers that namespace_base takes for one. *)
LEMMA BehindPackage ==
  ASSUME IsFile(file), Len(file.package) > 1
  PROVE  FlattenSeq(SubSeq(Dotted(file.package), Len(namespace_base) + 1, Len(Dotted(file.package))))
           = Tail(file.package)
<1> DEFINE pk == file.package
           d == Dotted(pk)
           T == Seq(Identifiers)
           t == Tail(pk)
           e == Dotted(t)
           below == SubSeq(d, 2, Len(d))
<1>1. pk \in Seq(Identifiers) /\ Len(pk) \in Nat /\ pk # <<>>
  BY EmptySeq DEF IsFile
<1>2. t \in Seq(Identifiers) /\ Len(t) = Len(pk) - 1 /\ \A i \in 1 .. Len(t) : t[i] = pk[i + 1]
  <2> HIDE DEF pk
  <2> QED
    BY <1>1, EmptySeq
<1>3. d \in Seq(T) /\ Len(d) = Len(pk) /\ e \in Seq(T) /\ Len(e) = Len(t) /\ FlattenSeq(e) = t
  BY <1>1, <1>2, Namespaces
<1>4. Len(namespace_base) = 1
  <2>1. namespace_base = <<pk>>
    BY <1>1 DEF namespace_base, None
  <2> QED
    BY <2>1
<1>5. DOMAIN pk = 1 .. Len(pk) /\ DOMAIN t = 1 .. Len(t)
  BY <1>1, <1>2
<1>6. (\A i \in 1 .. Len(pk) : d[i] = <<pk[i]>>) /\ (\A i \in 1 .. Len(t) : e[i] = <<t[i]>>)
  BY <1>5 DEF Dotted
<1> HIDE DEF d, e, t, pk, T
<1>7. below \in Seq(T) /\ Len(below) = Len(d) - 1 /\ \A i \in 1 .. Len(d) - 1 : below[i] = d[1 + i]
  <2>1. 1 \in 0 .. Len(d) /\ 1 + 1 = 2
    BY <1>1, <1>3 DEF pk
  <2> QED
    BY <1>3, <2>1, RestIs
<1> HIDE DEF below
<1>8. Len(below) = Len(e)
  BY <1>2, <1>3, <1>7
<1>9. ASSUME NEW i \in 1 .. Len(below) PROVE below[i] = e[i]
  <2>1. i \in 1 .. Len(t) /\ i + 1 \in 1 .. Len(pk) /\ i + 1 = 1 + i /\ i \in 1 .. Len(d) - 1
    BY <1>1, <1>2, <1>3, <1>7, <1>9
  <2>2. e[i] = <<t[i]>> /\ t[i] = pk[i + 1]
    BY <1>2, <1>6, <2>1
  <2>3. below[i] = d[i + 1]
    BY <1>7, <2>1
  <2>4. d[i + 1] = <<pk[i + 1]>>
    BY <1>6, <2>1
  <2> QED
    BY <2>2, <2>3, <2>4
<1>10. below = e
  BY <1>3, <1>7, <1>8, <1>9, SeqEqual
<1>11. FlattenSeq(SubSeq(d, 2, Len(d))) = t
  <2>1. FlattenSeq(below) = t
    BY <1>3, <1>10
  <2> QED
    BY <2>1 DEF below
<1>12. Len(namespace_base) + 1 = 2
  BY <1>4
<1> QED
  BY <1>11, <1>12 DEF d, t, pk

(* What KindsAnswered states of the kind of a field. *)
KindIsAnswered(field, kind) ==
  CASE Shadowed(field) -> kind = file.imports[Min(Answers(field))].kinds[LastName(field)]
    [] DottedQualified(field) -> kind = KindAt(Append(Tail(file.package), LastName(field)))
    [] OTHER -> kind \in OrMessage(Denoted(field))

LEMMA OrMessageIs ==
  ASSUME NEW kinds, NEW kind
  PROVE  /\ kind \in kinds => kind \in OrMessage(kinds)
         /\ kinds = {} /\ kind = "message" => kind \in OrMessage(kinds)
BY DEF OrMessage

LEMMA KindAtIs ==
  ASSUME IsFile(file), NEW path
  PROVE  (IF KindAt(path) = "enum" THEN "enum" ELSE "message") = KindAt(path)
<1>1. CASE path \in DOMAIN file.kinds
  <2>1. file.kinds[path] \in {"message", "enum"}
    BY <1>1 DEF IsFile, TypeKinds
  <2> QED
    BY <1>1, <2>1 DEF KindAt
<1>2. CASE path \notin DOMAIN file.kinds
  BY <1>2 DEF KindAt
<1> QED
  BY <1>1, <1>2

(* What lookup_type finds, when no import answers. *)
LEMMA LookedUp ==
  ASSUME IsFile(file), NEW field \in Fields, Answers(field) = {}, NEW namespace, NEW names,
         resolved[field].namespace = namespace,
         FlattenSeq(SubSeq(namespace, Len(namespace_base) + 1, Len(namespace))) = names
  PROVE  KindOf(field) = KindAt(names \o <<LastName(field)>>)
<1>1. lookup_type(field) = KindAt(names \o <<LastName(field)>>)
  BY DEF lookup_type, KindAt, LastName, TypeName
<1>2. is_field_enum(field) = (KindAt(names \o <<LastName(field)>>) = "enum")
  BY <1>1 DEF is_field_enum
<1> QED
  BY <1>2, KindAtIs DEF KindOf

LEMMA KindIsRight ==
  ASSUME IsFile(file), NEW field \in Fields, resolved[field] = resolve_field_type(field),
         ~ Undefined(field)
  PROVE  KindIsAnswered(field, KindOf(field))
<1> DEFINE l == LastName(field)
           t == TypeName(field)
           pk == file.package
           Right == KindIsAnswered(field, KindOf(field))
<1>0. /\ pk \in Seq(Identifiers) /\ t \in Seq(Identifiers) /\ l \in Identifiers
      /\ <<l>> \in Seq(Identifiers) /\ <<>> \in Seq(Identifiers)
      /\ Front(t) \in Seq(Identifiers) /\ Len(Front(t)) = Len(t) - 1 /\ Len(t) \in Nat
      /\ Len(pk) \in Nat
  <2>1. /\ pk \in Seq(Identifiers) /\ t \in Seq(Identifiers) /\ l \in Identifiers
        /\ Front(t) \in Seq(Identifiers) /\ Len(Front(t)) = Len(t) - 1 /\ Len(t) \in Nat
    BY FieldIs
  <2> HIDE DEF t, l, pk
  <2> QED
    BY <2>1
<1>1. ASSUME ~ Shadowed(field), ~ DottedQualified(field), KindOf(field) \in Denoted(field)
      PROVE  Right
  BY <1>1, OrMessageIs DEF KindIsAnswered
<1>2. ASSUME ~ Shadowed(field), ~ DottedQualified(field), KindOf(field) = "message", Denoted(field) = {}
      PROVE  Right
  BY <1>2, OrMessageIs DEF KindIsAnswered
<1>3. CASE Shadowed(field)
  <2>1. KindOf(field) = file.imports[Min(Answers(field))].kinds[l]
    BY <1>3, ImportTells DEF Shadowed
  <2> QED
    BY <1>3, <2>1 DEF KindIsAnswered, Shadowed, DottedQualified
<1>4. CASE Len(t) > 1
  <2>1. /\ resolved[field].package = Front(t) /\ resolved[field].namespace = Dotted(Front(t))
        /\ FullType(field) = resolved[field].package \o <<l>>
    BY <1>4, Qualified
  <2>2. ~ Shadowed(field)
    <3> HIDE DEF t, l, pk
    <3> DEFINE n == Len(t)
    <3>1. n # 1
      <4>1. n \in Nat /\ n > 1
        BY <1>0, <1>4
      <4> HIDE DEF n
      <4> QED
        BY <4>1
    <3> QED
      BY <3>1 DEF Shadowed, t, TypeName
  <2>3. CASE Answers(field) # {}
    <3>1. ~ DottedQualified(field)
      BY <2>3 DEF DottedQualified
    <3>2. KindOf(field) \in Denoted(field)
      BY <2>1, <2>3, ImportTells
    <3> QED
      BY <1>1, <2>2, <3>1, <3>2
  <2>4. CASE Answers(field) = {}
    <3>1. Front(t) = pk
      BY <2>1, <2>4 DEF Undefined
    <3>2. CASE Len(pk) > 1
      <4>1. DottedQualified(field)
        BY <1>4, <2>4, <3>2 DEF DottedQualified, TypeName
      <4>2. KindOf(field) = KindAt(Tail(pk) \o <<l>>)
        BY <2>1, <2>4, <3>1, <3>2, BehindPackage, LookedUp
      <4>3. Append(Tail(pk), l) = Tail(pk) \o <<l>>
        <5>1. pk # <<>>
          BY <1>0, <3>2, EmptySeq
        <5> HIDE DEF pk, l
        <5>2. Tail(pk) \in Seq(Identifiers)
          BY <1>0, <5>1
        <5> QED
          BY <1>0, <5>2, AppendIsConcat
      <4> QED
        BY <2>2, <4>1, <4>2, <4>3 DEF KindIsAnswered
    <3>3. CASE ~ (Len(pk) > 1)
      <4>1. Len(pk) = 1
        <5>1. Len(pk) = Len(t) - 1
          BY <1>0, <3>1
        <5> HIDE DEF t, pk
        <5> QED
          BY <1>0, <1>4, <3>3, <5>1
      <4>2. pk # <<>>
        BY <4>1
      <4>3. namespace_base = <<pk>> /\ Dotted(pk) = <<pk>>
        <5>1. pk = <<pk[1]>>
          BY <1>0, <4>1
        <5>2. DOMAIN pk = 1 .. 1
          BY <1>0, <4>1
        <5>3. Dotted(pk) = <<<<pk[1]>>>>
          BY <5>2 DEF Dotted
        <5> QED
          BY <4>2, <5>1, <5>3 DEF namespace_base, None
      <4>4. /\ lookup_type(field) = IF <<l>> \in DOMAIN file.kinds THEN file.kinds[<<l>>] ELSE "message"
            /\ KindOf(field) = KindAt(<<l>>)
        <5>1. resolved[field].namespace = <<pk>> /\ Len(<<pk>>) = 1 /\ Len(namespace_base) = 1
          BY <2>1, <3>1, <4>3
        <5>2. SubSeq(<<pk>>, 1 + 1, 1) = <<>>
          BY SubSeqEmpty
        <5>3. FlattenSeq(<<>>) = <<>> /\ <<>> \o <<l>> = <<l>>
          BY <1>0, ConcatEmptySeq DEF FlattenSeq
        <5>4. KindOf(field) = KindAt(<<>> \o <<l>>)
          BY <2>4, <5>1, <5>2, <5>3, LookedUp
        <5> QED
          BY <5>1, <5>2, <5>3, <5>4 DEF lookup_type, LastName, TypeName
      <4>5. ~ DottedQualified(field)
        BY <3>3 DEF DottedQualified
      <4>6. CASE <<l>> \in DOMAIN file.kinds
        <5>1. KindOf(field) \in Denoted(field)
          BY <2>1, <2>4, <3>1, <4>4, <4>6, FileTells
        <5> QED
          BY <1>1, <2>2, <4>5, <5>1
      <4>7. CASE <<l>> \notin DOMAIN file.kinds
        <5>1. ASSUME NEW path \in DOMAIN file.kinds, pk \o path = FullType(field) PROVE FALSE
          <6>1. path \in Seq(Identifiers) /\ pk \o path = pk \o <<l>>
            BY <2>1, <3>1, <5>1 DEF IsFile
          <6>2. path = <<l>>
            BY <1>0, <6>1, ConcatSimplifications
          <6> QED
            BY <4>7, <6>2
        <5>2. Denoted(field) = {}
          BY <1>0, <2>1, <2>4, <5>1, NothingTells
        <5>3. KindOf(field) = "message"
          BY <4>4, <4>7 DEF KindAt
        <5> QED
          BY <1>2, <2>2, <4>5, <5>2, <5>3
      <4> QED
        BY <4>6, <4>7
    <3> QED
      BY <3>2, <3>3
  <2> QED
    BY <2>3, <2>4
<1>5. ASSUME Len(t) = 1 PROVE ~ DottedQualified(field)
  <2> HIDE DEF t
  <2>1. ~ (Len(t) > 1)
    BY <1>5
  <2> QED
    BY <2>1 DEF DottedQualified, t, TypeName
<1>6. ASSUME NEW n \in Scopes(field), n \in 0 .. Len(file.fields[field].in),
             Len(t) = 1, resolved[field] = Own(field, n), ~ Shadowed(field)
      PROVE  Right
  <2> DEFINE s == SubSeq(file.fields[field].in, 1, n)
             path == s \o <<l>>
  <2>1. /\ resolved[field].package = pk /\ FullType(field) = pk \o path
        /\ n = 0 => FullType(field) = resolved[field].package \o <<l>>
        /\ n # 0 => Len(resolved[field].namespace) > Len(namespace_base)
        /\ Answers(field) = {} /\ path \in DOMAIN file.kinds => lookup_type(field) = file.kinds[path]
    BY <1>6, InScope
  <2>2. path \in DOMAIN file.kinds
    <3>1. t = <<l>>
      BY <1>0, <1>6, OneName
    <3>2. s \o t \in DOMAIN file.kinds
      BY <1>6 DEF Scopes, TypeName
    <3> QED
      BY <3>1, <3>2
  <2> HIDE DEF path
  <2>3. CASE Answers(field) = {}
    <3>1. KindOf(field) \in Denoted(field)
      BY <2>1, <2>2, <2>3, FileTells
    <3> QED
      BY <1>1, <1>5, <1>6, <3>1
  <2>4. CASE Answers(field) # {} /\ n = 0
    <3>1. KindOf(field) \in Denoted(field)
      BY <2>1, <2>4, ImportTells
    <3> QED
      BY <1>1, <1>5, <1>6, <3>1
  <2>5. CASE Answers(field) # {} /\ n # 0
    BY <1>6, <2>1, <2>5 DEF Shadowed, TypeName
  <2> QED
    BY <2>3, <2>4, <2>5
<1>7. CASE Len(t) = 1 /\ Imported(field) /\ resolved[field] = Own(field, 0) /\ ~ Shadowed(field)
  <2>1. 0 \in 0 .. Len(file.fields[field].in)
    BY FieldIs
  <2>2. resolved[field].package = pk /\ FullType(field) = resolved[field].package \o <<l>>
    BY <1>7, <2>1, InScope
  <2>3. Answers(field) # {}
    BY <1>7, <2>2 DEF Imported, Answers
  <2>4. KindOf(field) \in Denoted(field)
    BY <2>2, <2>3, ImportTells
  <2> QED
    BY <1>1, <1>5, <1>7, <2>4
<1>8. CASE Len(t) = 1 /\ Scopes(field) = {} /\ ~ Imported(field) /\ ~ Shadowed(field)
  <2>1. /\ resolved[field].package = <<>> /\ FullType(field) = <<l>>
        /\ FullType(field) = resolved[field].package \o <<l>> /\ <<l>> \notin DOMAIN file.kinds
        /\ resolved[field].namespace = <<>>
    BY <1>8, Nowhere
  <2>2. CASE Answers(field) # {}
    <3>1. KindOf(field) \in Denoted(field)
      BY <2>1, <2>2, ImportTells
    <3> QED
      BY <1>1, <1>5, <1>8, <3>1
  <2>3. CASE Answers(field) = {}
    <3>1. pk = <<>>
      BY <2>1, <2>3 DEF Undefined
    <3>2. ASSUME NEW path \in DOMAIN file.kinds PROVE pk \o path # FullType(field)
      <4>1. path \in Seq(Identifiers)
        BY DEF IsFile
      <4>2. pk \o path = path
        BY <3>1, <4>1, ConcatEmptySeq
      <4> QED
        BY <2>1, <4>2
    <3>3. Denoted(field) = {}
      BY <1>0, <2>1, <2>3, <3>2, NothingTells
    <3>4. KindOf(field) = "message"
      <4>1. namespace_base = <<>> /\ Len(<<>>) = 0
        BY <3>1 DEF namespace_base, None
      <4>2. SubSeq(<<>>, 0 + 1, 0) = <<>>
        BY SubSeqEmpty
      <4>3. FlattenSeq(<<>>) = <<>> /\ <<>> \o <<l>> = <<l>>
        BY <1>0, ConcatEmptySeq DEF FlattenSeq
      <4>4. KindOf(field) = KindAt(<<>> \o <<l>>)
        BY <2>1, <2>3, <4>1, <4>2, <4>3, LookedUp
      <4> QED
        BY <2>1, <4>3, <4>4 DEF KindAt
    <3> QED
      BY <1>2, <1>5, <1>8, <3>3, <3>4
  <2> QED
    BY <2>2, <2>3
<1> QED
  BY <1>3, <1>4, <1>6, <1>7, <1>8, Resolutions

(* A file is refused for a name that nothing has, or one that reaches into a message:
   one that is neither would be a name after the package of this file. *)
LEMMA RefusalIsRight ==
  ASSUME IsFile(file), NEW field \in Fields, resolved[field] = resolve_field_type(field),
         Undefined(field)
  PROVE  Denoted(field) = {} \/ IntoMessage(field)
<1> DEFINE l == LastName(field)
           t == TypeName(field)
           pk == file.package
           package == resolved[field].package
<1>0. /\ pk \in Seq(Identifiers) /\ t \in Seq(Identifiers) /\ l \in Identifiers
      /\ Front(t) \in Seq(Identifiers) /\ <<>> \in Seq(Identifiers)
  <2>1. /\ pk \in Seq(Identifiers) /\ t \in Seq(Identifiers) /\ l \in Identifiers
        /\ Front(t) \in Seq(Identifiers)
    BY FieldIs
  <2> HIDE DEF t, l, pk
  <2> QED
    BY <2>1
<1>1. Answers(field) = {} /\ package # pk
  BY DEF Undefined
<1>2. package \in Seq(Identifiers) /\ FullType(field) = package \o <<l>>
  <2>1. ASSUME NEW n \in 0 .. Len(file.fields[field].in), resolved[field] = Own(field, n)
        PROVE  FALSE
    BY <1>1, <2>1 DEF Own
  <2>2. 0 \in 0 .. Len(file.fields[field].in)
    BY FieldIs
  <2>3. CASE Len(t) > 1
    BY <1>0, <2>3, Qualified
  <2>4. CASE Len(t) = 1 /\ Scopes(field) = {} /\ ~ Imported(field)
    BY <1>0, <2>4, Nowhere
  <2> QED
    BY <2>1, <2>2, <2>3, <2>4, Resolutions
<1> SUFFICES ASSUME Denoted(field) # {} PROVE IntoMessage(field)
  OBVIOUS
<1>3. PICK path \in DOMAIN file.kinds : pk \o path = FullType(field)
  BY <1>1, <1>2, NothingTells
<1>4. path \in Seq(Identifiers) /\ Len(path) \in Nat \ {0}
  <2>1. path \in Seq(Identifiers) /\ path # <<>>
    BY DEF IsFile
  <2> QED
    BY <2>1, EmptySeq
<1>5. Len(path) # 1
  <2> SUFFICES ASSUME Len(path) = 1 PROVE FALSE
    OBVIOUS
  <2> DEFINE x == path[1]
  <2>1. path = <<x>>
    BY <1>4
  <2> HIDE DEF package, pk, l, x
  <2>2. pk \o <<x>> = package \o <<l>>
    BY <1>2, <1>3, <2>1
  <2>3. pk = package
    BY <1>0, <1>2, <2>2, SameLast
  <2> QED
    BY <1>1, <2>3
<1> DEFINE n == Len(path)
<1>6. n > 1
  <2>1. n \in Nat \ {0} /\ n # 1
    BY <1>4, <1>5
  <2> HIDE DEF n
  <2> QED
    BY <2>1
<1>7. FullName(path) = FullType(field)
  BY <1>3, Namespaces, EmptySeq DEF FullName
<1> QED
  BY <1>6, <1>7 DEF IntoMessage

-----------------------------------------------------------------------------

Resolved == stage \in {"kinds", "sort", "sorting", "declared", "raised"}
Accepted == stage \in {"sort", "sorting", "declared"}

KindsInv ==
  /\ stage \in {"text", "parsed", "types", "kinds", "sort", "sorting", "raised", "declared"}
  /\ stage \notin {"text", "parsed"} => IsFile(file)
  /\ Resolved => resolved = [field \in Fields |-> resolve_field_type(field)]
  /\ Accepted => /\ type_kind = [field \in Fields |-> KindOf(field)]
                 /\ \A field \in Fields : ~ Undefined(field)
  /\ stage = "raised" => \E field \in Fields : Undefined(field)

LEMMA SameResolution ==
  ASSUME file' = file
  PROVE  Fields' = Fields /\ \A field : resolve_field_type(field)' = resolve_field_type(field)
BY DEF Fields, resolve_field_type, Scopes, Imported, namespace_base

LEMMA SameKinds ==
  ASSUME file' = file, resolved' = resolved
  PROVE  /\ Fields' = Fields
         /\ \A field : /\ resolve_field_type(field)' = resolve_field_type(field)
                       /\ Undefined(field)' = Undefined(field) /\ KindOf(field)' = KindOf(field)
<1>1. Fields' = Fields /\ \A field : resolve_field_type(field)' = resolve_field_type(field)
  BY SameResolution
<1>2. ASSUME NEW field PROVE Answers(field)' = Answers(field)
  BY DEF Answers
<1>3. ASSUME NEW field PROVE lookup_type(field)' = lookup_type(field)
  BY DEF lookup_type, namespace_base
<1>4. ASSUME NEW field PROVE Undefined(field)' = Undefined(field)
  BY <1>2 DEF Undefined
<1>5. ASSUME NEW field PROVE is_field_enum(field)' = is_field_enum(field)
  BY <1>2, <1>3 DEF is_field_enum
<1>6. ASSUME NEW field PROVE KindOf(field)' = KindOf(field)
  BY <1>5 DEF KindOf
<1> QED
  BY <1>1, <1>4, <1>6

LEMMA KindsKept ==
  ASSUME KindsInv, file' = file, resolved' = resolved, type_kind' = type_kind,
         stage' = stage \/ (Accepted /\ Accepted')
  PROVE  KindsInv'
<1>1. Fields' = Fields /\ \A field : /\ resolve_field_type(field)' = resolve_field_type(field)
                                     /\ Undefined(field)' = Undefined(field)
                                     /\ KindOf(field)' = KindOf(field)
  BY SameKinds
<1>2. IsFile(file)' = IsFile(file)
  BY DEF IsFile, IsChild, TypeKinds
<1>3. CASE stage' = stage
  BY <1>1, <1>2, <1>3 DEF KindsInv, Resolved, Accepted
<1>4. CASE Accepted /\ Accepted'
  BY <1>1, <1>2, <1>4 DEF KindsInv, Resolved, Accepted
<1> QED
  BY <1>3, <1>4

LEMMA KindsInductive == KindsInv /\ [Next]_frontend => KindsInv'
<1> SUFFICES ASSUME KindsInv, [Next]_frontend PROVE KindsInv'
  OBVIOUS
<1>1. CASE UNCHANGED declaring
  BY <1>1, KindsKept DEF declaring
<1>2. CASE Parse
  <2>1. stage' = "parsed"
    BY <1>2 DEF Parse
  <2> QED
    BY <2>1 DEF KindsInv, Resolved, Accepted
<1>3. CASE Load
  <2>1. stage' = "types" /\ IsFile(file')
    BY <1>3, FilesAssumption DEF Load
  <2>2. IsFile(file)'
    BY <2>1 DEF IsFile, IsChild, TypeKinds
  <2> QED
    BY <2>1, <2>2 DEF KindsInv, Resolved, Accepted
<1>4. CASE resolve_messages_fields_types
  <2>1. /\ stage = "types" /\ stage' = "kinds" /\ file' = file
        /\ resolved' = [field \in Fields |-> resolve_field_type(field)]
    BY <1>4 DEF resolve_messages_fields_types
  <2>2. Fields' = Fields /\ \A field : resolve_field_type(field)' = resolve_field_type(field)
    BY <2>1, SameResolution
  <2>3. IsFile(file)'
    BY <2>1 DEF KindsInv, IsFile, IsChild, TypeKinds
  <2> QED
    BY <2>1, <2>2, <2>3 DEF KindsInv, Resolved, Accepted
<1>5. CASE resolve_messages_fields_type_kinds
  <2>1. /\ stage = "kinds" /\ file' = file /\ resolved' = resolved
        /\ \/ stage' = "raised" /\ \E field \in Fields : Undefined(field)
           \/ /\ stage' = "sort" /\ \A field \in Fields : ~ Undefined(field)
              /\ type_kind' = [field \in Fields |-> KindOf(field)]
    BY <1>5 DEF resolve_messages_fields_type_kinds, KindOf
  <2>2. Fields' = Fields /\ \A field : /\ resolve_field_type(field)' = resolve_field_type(field)
                                       /\ Undefined(field)' = Undefined(field)
                                       /\ KindOf(field)' = KindOf(field)
    BY <2>1, SameKinds
  <2>3. IsFile(file)'
    BY <2>1 DEF KindsInv, IsFile, IsChild, TypeKinds
  <2>4. resolved' = [field \in Fields' |-> resolve_field_type(field)']
    BY <2>1, <2>2 DEF KindsInv, Resolved
  <2>5. CASE stage' = "raised" /\ \E field \in Fields : Undefined(field)
    BY <2>2, <2>3, <2>4, <2>5 DEF KindsInv, Resolved, Accepted
  <2>6. CASE /\ stage' = "sort" /\ \A field \in Fields : ~ Undefined(field)
             /\ type_kind' = [field \in Fields |-> KindOf(field)]
    <3>1. type_kind' = [field \in Fields' |-> KindOf(field)']
      BY <2>2, <2>6
    <3> QED
      BY <2>2, <2>3, <2>4, <2>6, <3>1 DEF KindsInv, Resolved, Accepted
  <2> QED
    BY <2>1, <2>5, <2>6
<1>6. CASE sort_messages_by_usage
  BY <1>6, KindsKept DEF sort_messages_by_usage, Accepted
<1>7. CASE SortStep
  BY <1>7, KindsKept DEF SortStep, declaring
<1>8. CASE Reversed
  BY <1>8, KindsKept DEF Reversed, Accepted
<1>9. CASE Declare
  BY <1>9, KindsKept DEF Declare, Accepted
<1> QED
  BY <1>1, <1>2, <1>3, <1>4, <1>5, <1>6, <1>7, <1>8, <1>9 DEF Next, ProtoNext, frontend

LEMMA KindsFollow == KindsInv => KindsAnswered
<1> SUFFICES ASSUME KindsInv PROVE KindsAnswered
  OBVIOUS
<1>1. ASSUME Accepted, NEW field \in Fields PROVE KindIsAnswered(field, type_kind[field])
  <2>1. /\ IsFile(file) /\ resolved = [f \in Fields |-> resolve_field_type(f)]
        /\ type_kind = [f \in Fields |-> KindOf(f)] /\ ~ Undefined(field)
    BY <1>1 DEF KindsInv, Resolved, Accepted
  <2>2. resolved[field] = resolve_field_type(field) /\ type_kind[field] = KindOf(field)
    BY <2>1
  <2> QED
    BY <2>1, <2>2, KindIsRight
<1>2. ASSUME stage = "raised" PROVE \E field \in Fields : Denoted(field) = {} \/ IntoMessage(field)
  <2>1. IsFile(file) /\ resolved = [f \in Fields |-> resolve_field_type(f)]
    BY <1>2 DEF KindsInv, Resolved
  <2>2. PICK field \in Fields : Undefined(field)
    BY <1>2 DEF KindsInv
  <2>3. resolved[field] = resolve_field_type(field)
    BY <2>1
  <2> QED
    BY <2>1, <2>2, <2>3, RefusalIsRight
<1> QED
  BY <1>1, <1>2 DEF KindsAnswered, KindIsAnswered, Accepted, LastName, TypeName

(* resolve_messages_fields_types and _type_kinds: whatever the file declares and
   imports, in whatever nesting, a field has the kind of a type that has its type's
   full name, or is a message if nothing has it; but a nested type that an import's
   name hides has the import's kind, and a type after a package of several identifiers
   that of the type at the rest of the package.  A file is refused only for a name
   that nothing has or that reaches into a message. *)
THEOREM FrontendKindsAnswered == Spec => []KindsAnswered
<1>1. Init => KindsInv
  BY DEF Init, ProtoInit, KindsInv, Resolved, Accepted
<1> QED
  BY <1>1, KindsInductive, KindsFollow, PTL DEF Spec

-----------------------------------------------------------------------------

(* Of the messages placed so far each is in the list once. *)
Spread ==
  /\ \A i, j \in 1 .. Len(reversed_sorted) : reversed_sorted[i] = reversed_sorted[j] => i = j
  /\ \A x \in 1 .. Len(reversed_sorted) : \E i \in 1 .. Len(reversed_sorted) : reversed_sorted[i] = x

LEMMA InsertSpreads == Placed /\ Spread /\ InsertMessage => Spread' /\ Len(reversed_sorted') = Len(reversed_sorted) + 1
<1> SUFFICES ASSUME Placed, Spread, InsertMessage
             PROVE  Spread' /\ Len(reversed_sorted') = Len(reversed_sorted) + 1
  OBVIOUS
<1> DEFINE s == reversed_sorted
           m == Len(s) + 1
           k == insert_index(m)
           r == reversed_sorted'
<1>1. /\ s \in Seq(Nat) /\ Len(s) \in Nat /\ m \in Nat
      /\ \A i \in 1 .. Len(s) : s[i] \in 1 .. Len(s)
  BY DEF Placed
<1>2. /\ \A i, j \in 1 .. Len(s) : s[i] = s[j] => i = j
      /\ \A x \in 1 .. Len(s) : \E i \in 1 .. Len(s) : s[i] = x
  BY DEF Spread
<1>3. k \in 0 .. Len(s)
  BY InsertIndex
<1>4. r = InsertAt(s, k + 1, m)
  BY DEF InsertMessage
<1> HIDE DEF k, r, s
<1>5. /\ r \in Seq(Nat) /\ Len(r) = m
      /\ \A i \in 1 .. m : r[i] = IF i <= k THEN s[i] ELSE IF i = k + 1 THEN m ELSE s[i - 1]
  <2>1. LET q == InsertAt(s, k + 1, m)
        IN  /\ q \in Seq(Nat) /\ Len(q) = Len(s) + 1
            /\ \A i \in 1 .. Len(s) + 1 :
                 q[i] = IF i <= k THEN s[i] ELSE IF i = k + 1 THEN m ELSE s[i - 1]
    BY <1>1, <1>3, Inserted, SMTT(30)
  <2>2. Len(s) + 1 = m
    OBVIOUS
  <2> QED
    BY <1>4, <2>1, <2>2, Zenon
<1> DEFINE old(h) == IF h <= k THEN h ELSE h - 1
<1>6. ASSUME NEW h \in 1 .. m, h # k + 1
      PROVE  old(h) \in 1 .. Len(s) /\ r[h] = s[old(h)]
  <2>1. r[h] = IF h <= k THEN s[h] ELSE s[h - 1]
    BY <1>5, <1>6
  <2>2. old(h) \in 1 .. Len(s)
    BY <1>1, <1>3, <1>6
  <2> QED
    BY <2>1, <2>2
<1>7. k + 1 \in 1 .. m /\ r[k + 1] = m
  BY <1>1, <1>3, <1>5
<1>8. ASSUME NEW h \in 1 .. m, h # k + 1 PROVE r[h] # m
  <2>1. old(h) \in 1 .. Len(s) /\ r[h] = s[old(h)]
    BY <1>6, <1>8
  <2> HIDE DEF old
  <2>2. r[h] \in 1 .. Len(s)
    BY <1>1, <2>1
  <2> QED
    BY <1>1, <2>2
<1>9. ASSUME NEW i \in 1 .. m, NEW j \in 1 .. m, r[i] = r[j] PROVE i = j
  <2>1. CASE i # k + 1 /\ j # k + 1
    <3>1. old(i) = old(j)
      <4>1. /\ old(i) \in 1 .. Len(s) /\ r[i] = s[old(i)]
            /\ old(j) \in 1 .. Len(s) /\ r[j] = s[old(j)]
        BY <1>6, <2>1
      <4> HIDE DEF old
      <4> QED
        BY <1>2, <1>9, <4>1
    <3> QED
      BY <1>1, <1>3, <2>1, <3>1
  <2>2. CASE i = k + 1 /\ j # k + 1
    BY <1>7, <1>8, <1>9, <2>2
  <2>3. CASE i # k + 1 /\ j = k + 1
    BY <1>7, <1>8, <1>9, <2>3
  <2> QED
    BY <2>1, <2>2, <2>3
<1>10. ASSUME NEW x \in 1 .. m PROVE \E i \in 1 .. m : r[i] = x
  <2>1. CASE x = m
    BY <1>7, <2>1
  <2>2. CASE x # m
    <3>1. x \in 1 .. Len(s)
      BY <1>1, <2>2
    <3>2. PICK p \in 1 .. Len(s) : s[p] = x
      BY <1>2, <3>1
    <3>3. CASE p <= k
      <4>1. p \in 1 .. m
        BY <1>1
      <4> QED
        BY <1>5, <3>2, <3>3, <4>1
    <3>4. CASE ~ (p <= k)
      <4> DEFINE h == p + 1
      <4>1. h \in 1 .. m /\ ~ (h <= k) /\ h # k + 1 /\ h - 1 = p
        BY <1>1, <1>3, <3>4
      <4> HIDE DEF h
      <4>2. r[h] = s[h - 1]
        BY <1>5, <4>1
      <4> QED
        BY <3>2, <4>1, <4>2
    <3> QED
      BY <3>3, <3>4
  <2> QED
    BY <2>1, <2>2
<1> QED
  BY <1>5, <1>9, <1>10 DEF Spread, r, s

(* A group that is sorted: its messages, from the last in the list to the first. *)
First(r, used) ==
  \A i, j \in DOMAIN r :
    /\ r[i] # r[j] /\ <<r[i], r[j]>> \in used
    /\ r[i] < r[j] \/ \A earlier \in 1 .. r[i] - 1 : <<earlier, r[i]>> \notin used
    => i < j

Listed(r, n, used) ==
  /\ r \in Seq(Nat) /\ Len(r) = n /\ \A i \in 1 .. n : r[i] \in 1 .. n
  /\ \A x \in 1 .. n : \E i \in 1 .. n : r[i] = x
  /\ First(r, used)

SortedGroup(parent) ==
  LET members == file.children[parent]  n == Len(members)
  IN  \E r : Listed(r, n, Uses(parent)) /\ order[parent] = [i \in 1 .. n |-> members[r[n - i + 1]]]

OrderInv ==
  /\ SortInv /\ Spread /\ count \in Nat /\ Len(reversed_sorted) <= count
  /\ stage \in {"text", "parsed", "types", "kinds"} => order = <<>>
  /\ stage = "sorting" => /\ group \in DOMAIN file.children
                          /\ count = Len(file.children[group]) /\ uses = Uses(group)
  /\ stage = "declared" => DOMAIN file.children \subseteq DOMAIN order
  /\ \A parent \in DOMAIN order : parent \in DOMAIN file.children /\ SortedGroup(parent)

LEMMA SameUses ==
  ASSUME file' = file, resolved' = resolved
  PROVE  \A parent : Uses(parent)' = Uses(parent)
<1>1. \A field : FullType(field)' = FullType(field)
  BY DEF FullType
<1>2. \A path : UsedTypes(path)' = UsedTypes(path)
  BY <1>1 DEF UsedTypes, Fields
<1>3. \A path : FullName(path)' = FullName(path)
  BY DEF FullName, namespace_base
<1> QED
  BY <1>2, <1>3 DEF Uses, Member

LEMMA GroupsKept ==
  ASSUME file' = file, resolved' = resolved, NEW parent, order'[parent] = order[parent],
         SortedGroup(parent)
  PROVE  SortedGroup(parent)'
<1>1. Uses(parent)' = Uses(parent)
  BY SameUses
<1> DEFINE members == file.children[parent]
           n == Len(members)
<1>2. PICK r : Listed(r, n, Uses(parent)) /\ order[parent] = [i \in 1 .. n |-> members[r[n - i + 1]]]
  BY DEF SortedGroup
<1>3. members' = members /\ n' = n
  OBVIOUS
<1>4. Listed(r, n', Uses(parent)')
  BY <1>1, <1>2, <1>3
<1>5. order'[parent] = [i \in 1 .. n' |-> members'[r[n' - i + 1]]]
  BY <1>2, <1>3
<1> QED
  BY <1>4, <1>5 DEF SortedGroup, Listed, First

LEMMA GroupSorted ==
  ASSUME file' = file, resolved' = resolved, group' = group, NEW r,
         LET members == file.children[group]  n == Len(members)
         IN  Listed(r, n, Uses(group)) /\ order'[group] = [i \in 1 .. n |-> members[r[n - i + 1]]]
  PROVE  SortedGroup(group)'
<1> DEFINE members == file.children[group]
           n == Len(members)
<1>1. Uses(group)' = Uses(group)
  BY SameUses
<1>2. Listed(r, n', Uses(group)')
  BY <1>1
<1>3. order'[group'] = [i \in 1 .. n' |-> members'[r[n' - i + 1]]]
  OBVIOUS
<1> QED
  BY <1>2, <1>3 DEF SortedGroup, Listed, First

LEMMA EmptyDomain == DOMAIN <<>> = {}
OBVIOUS

LEMMA ListSorted ==
  ASSUME IsFile(file), OrderInv, stage = "sorting", Sorted
  PROVE  LET members == file.children[group]  n == Len(members)
         IN  /\ count = n /\ n \in Nat
             /\ Listed(reversed_sorted, n, Uses(group))
             /\ \A i \in 1 .. n : Reverse(reversed_sorted)[i] = reversed_sorted[n - i + 1]
<1> DEFINE n == Len(file.children[group])
           r == reversed_sorted
<1>1. /\ count = n /\ n \in Nat /\ uses = Uses(group) /\ Len(r) = n /\ SortInv /\ Spread
  BY DEF OrderInv, Sorted
<1>2. r \in Seq(Nat) /\ \A i \in 1 .. n : r[i] \in 1 .. n
  BY <1>1 DEF SortInv, Placed
<1>3. \A x \in 1 .. n : \E i \in 1 .. n : r[i] = x
  BY <1>1 DEF Spread
<1>4. First(r, Uses(group))
  BY <1>1 DEF SortInv, DeclaredFirst, Guaranteed, First
<1>5. \A i \in 1 .. n : Reverse(r)[i] = r[n - i + 1]
  BY <1>1 DEF Reverse
<1> HIDE DEF n
<1> QED
  BY <1>1, <1>2, <1>3, <1>4, <1>5 DEF Listed, n

LEMMA OrderInductive == KindsInv /\ OrderInv /\ [Next]_frontend => OrderInv'
<1> SUFFICES ASSUME KindsInv, OrderInv, [Next]_frontend PROVE OrderInv'
  OBVIOUS
<1>1. SortInv'
  BY SortInductive DEF OrderInv
<1> DEFINE Lists == Spread' /\ count' \in Nat /\ Len(reversed_sorted') <= count'
<1>2. UNCHANGED sorting => Lists
  BY DEF OrderInv, Spread, sorting
<1>3. CASE UNCHANGED <<declaring, sorting>>
  <2>1. \A parent \in DOMAIN order : SortedGroup(parent)'
    BY <1>3, GroupsKept DEF OrderInv, declaring
  <2>2. uses = Uses(group) => uses' = Uses(group)'
    BY <1>3, SameUses DEF declaring, sorting
  <2> QED
    BY <1>1, <1>2, <1>3, <2>1, <2>2 DEF OrderInv, declaring, sorting
<1>4. CASE Parse
  <2>1. /\ stage = "text" /\ stage' = "parsed" /\ order' = order /\ UNCHANGED sorting
    BY <1>4 DEF Parse
  <2>2. order' = <<>> /\ DOMAIN order' = {}
    BY <2>1, EmptyDomain DEF OrderInv
  <2> QED
    BY <1>1, <1>2, <2>1, <2>2 DEF OrderInv
<1>5. CASE Load
  <2>1. /\ stage = "parsed" /\ stage' = "types" /\ order' = order /\ UNCHANGED sorting
    BY <1>5 DEF Load
  <2>2. order' = <<>> /\ DOMAIN order' = {}
    BY <2>1, EmptyDomain DEF OrderInv
  <2> QED
    BY <1>1, <1>2, <2>1, <2>2 DEF OrderInv
<1>6. CASE resolve_messages_fields_types
  <2>1. /\ stage = "types" /\ stage' = "kinds" /\ order' = order /\ UNCHANGED sorting
    BY <1>6 DEF resolve_messages_fields_types
  <2>2. order' = <<>> /\ DOMAIN order' = {}
    BY <2>1, EmptyDomain DEF OrderInv
  <2> QED
    BY <1>1, <1>2, <2>1, <2>2 DEF OrderInv
<1>7. CASE resolve_messages_fields_type_kinds
  <2>1. /\ stage = "kinds" /\ stage' \in {"raised", "sort"} /\ order' = order /\ UNCHANGED sorting
    BY <1>7 DEF resolve_messages_fields_type_kinds
  <2>2. order' = <<>> /\ DOMAIN order' = {}
    BY <2>1, EmptyDomain DEF OrderInv
  <2> QED
    BY <1>1, <1>2, <2>1, <2>2 DEF OrderInv
<1>8. CASE sort_messages_by_usage
  <2>1. PICK parent \in Unsorted :
          /\ stage = "sort" /\ stage' = "sorting" /\ group' = parent
          /\ count' = Len(file.children[parent]) /\ uses' = Uses(parent) /\ reversed_sorted' = <<>>
          /\ file' = file /\ resolved' = resolved /\ order' = order
    BY <1>8 DEF sort_messages_by_usage
  <2>2. parent \in DOMAIN file.children
    BY DEF Unsorted
  <2>3. count' \in Nat
    <3>1. file.children[parent] \in Seq(Identifiers)
      BY <2>1, <2>2 DEF KindsInv, IsFile
    <3> QED
      BY <2>1, <3>1
  <2>4. Lists
    <3>1. Len(reversed_sorted') = 0
      BY <2>1
    <3>2. Spread'
      BY <3>1 DEF Spread
    <3> QED
      BY <2>3, <3>1, <3>2
  <2>5. uses' = Uses(group)'
    BY <2>1, SameUses
  <2>6. \A other \in DOMAIN order : SortedGroup(other)'
    BY <2>1, GroupsKept DEF OrderInv
  <2> QED
    BY <1>1, <2>1, <2>2, <2>4, <2>5, <2>6 DEF OrderInv
<1>9. CASE SortStep
  <2>1. /\ stage = "sorting" /\ InsertMessage /\ UNCHANGED declaring
    BY <1>9 DEF SortStep
  <2>2. Spread' /\ Len(reversed_sorted') = Len(reversed_sorted) + 1
    BY <2>1, InsertSpreads DEF OrderInv, SortInv
  <2>3. /\ Len(reversed_sorted) < count /\ count' = count /\ uses' = uses /\ count \in Nat
        /\ Len(reversed_sorted) \in Nat
    BY <2>1 DEF InsertMessage, OrderInv, SortInv, Placed
  <2>4. Lists
    <3>1. Len(reversed_sorted') <= count'
      BY <2>2, <2>3
    <3> QED
      BY <2>2, <2>3, <3>1
  <2>5. \A parent \in DOMAIN order : SortedGroup(parent)'
    BY <2>1, GroupsKept DEF OrderInv, declaring
  <2>6. uses = Uses(group) => uses' = Uses(group)'
    BY <2>1, <2>3, SameUses DEF declaring
  <2> QED
    BY <1>1, <2>1, <2>3, <2>4, <2>5, <2>6 DEF OrderInv, declaring
<1>10. CASE Reversed
  <2> DEFINE members == file.children[group]
             n == Len(members)
             r == reversed_sorted
             messages == [i \in 1 .. count |-> members[Reverse(r)[i]]]
  <2>1. /\ stage = "sorting" /\ Sorted /\ stage' = "sort" /\ order' = With(group, messages)
        /\ file' = file /\ resolved' = resolved /\ group' = group /\ UNCHANGED sorting
    BY <1>10 DEF Reversed
  <2>2. group \in DOMAIN file.children
    BY <2>1 DEF OrderInv
  <2>3. /\ count = n /\ n \in Nat /\ Listed(r, n, Uses(group))
        /\ \A i \in 1 .. n : Reverse(r)[i] = r[n - i + 1]
    BY <2>1, ListSorted DEF KindsInv
  <2>4. /\ DOMAIN order' = DOMAIN order \cup {group} /\ order'[group] = messages
        /\ \A other \in DOMAIN order : other # group => order'[other] = order[other]
    BY <2>1 DEF With
  <2>5. messages = [i \in 1 .. n |-> members[r[n - i + 1]]]
    BY <2>3
  <2>6. SortedGroup(group)'
    <3>1. Listed(r, n, Uses(group)) /\ order'[group] = [i \in 1 .. n |-> members[r[n - i + 1]]]
      BY <2>3, <2>4, <2>5
    <3> QED
      BY <2>1, <3>1, GroupSorted
  <2>7. \A other \in DOMAIN order : other # group => SortedGroup(other)'
    BY <2>1, <2>4, GroupsKept DEF OrderInv
  <2> HIDE DEF messages, r, n, members
  <2> QED
    BY <1>1, <1>2, <2>1, <2>2, <2>4, <2>6, <2>7 DEF OrderInv
<1>11. CASE Declare
  <2>1. /\ stage = "sort" /\ Unsorted = {} /\ stage' = "declared" /\ order' = order
        /\ file' = file /\ resolved' = resolved /\ UNCHANGED sorting
    BY <1>11 DEF Declare
  <2>2. DOMAIN file.children \subseteq DOMAIN order
    BY <2>1 DEF Unsorted
  <2>3. \A other \in DOMAIN order : SortedGroup(other)'
    BY <2>1, GroupsKept DEF OrderInv
  <2> QED
    BY <1>1, <1>2, <2>1, <2>2, <2>3 DEF OrderInv
<1> QED
  BY <1>3, <1>4, <1>5, <1>6, <1>7, <1>8, <1>9, <1>10, <1>11 DEF Next, ProtoNext, frontend

-----------------------------------------------------------------------------

(* A type of this file that a field is given is in a message around the field, or
   at the top. *)
LEMMA FoundAround ==
  ASSUME IsFile(file), NEW field \in Fields, resolved[field] = resolve_field_type(field),
         resolved[field].package = file.package, NEW q \in Seq(Identifiers),
         FullType(field) = FullName(q)
  PROVE  \E m \in 0 .. Len(file.fields[field].in) :
           q = SubSeq(file.fields[field].in, 1, m) \o <<LastName(field)>>
<1> DEFINE in == file.fields[field].in
           l == LastName(field)
           t == TypeName(field)
           pk == file.package
<1>1. /\ pk \in Seq(Identifiers) /\ in \in Seq(Identifiers) /\ <<l>> \in Seq(Identifiers)
      /\ 0 \in 0 .. Len(in)
  <2>1. pk \in Seq(Identifiers) /\ in \in Seq(Identifiers) /\ l \in Identifiers
    BY FieldIs
  <2> HIDE DEF pk, in, l
  <2> QED
    BY <2>1
<1>2. FullType(field) = pk \o q
  BY <1>1, Namespaces DEF FullName
<1>3. ASSUME NEW p \in Seq(Identifiers), FullType(field) = pk \o p PROVE q = p
  <2>1. pk \o q = pk \o p
    BY <1>2, <1>3
  <2> HIDE DEF pk
  <2> QED
    BY <1>1, <2>1, ConcatSimplifications
<1>4. SubSeq(in, 1, 0) \o <<l>> = <<l>>
  <2>1. SubSeq(in, 1, 0) = <<>>
    BY SubSeqEmpty
  <2> QED
    BY <1>1, <2>1, ConcatEmptySeq
<1>5. ASSUME NEW m \in 0 .. Len(in), resolved[field] = Own(field, m)
      PROVE  q = SubSeq(in, 1, m) \o <<l>>
  <2> DEFINE p == SubSeq(in, 1, m) \o <<l>>
  <2>1. FullType(field) = pk \o p
    BY <1>5, InScope
  <2>2. p \in Seq(Identifiers)
    <3> DEFINE s == SubSeq(in, 1, m)
    <3>1. s \in Seq(Identifiers)
      BY <1>1, Initial
    <3> HIDE DEF s, l
    <3> QED
      BY <1>1, <3>1, ConcatProperties
  <2> HIDE DEF p, pk, in, l
  <2> QED
    BY <1>3, <2>1, <2>2 DEF p
<1>6. CASE Len(t) > 1
  <2>1. FullType(field) = pk \o <<l>>
    BY <1>6, Qualified
  <2>2. q = <<l>>
    <3> HIDE DEF pk, l
    <3> QED
      BY <1>1, <1>3, <2>1
  <2> QED
    BY <1>1, <1>4, <2>2
<1>7. CASE Len(t) = 1 /\ Scopes(field) = {} /\ ~ Imported(field)
  <2>1. resolved[field].package = <<>> /\ FullType(field) = resolved[field].package \o <<l>>
    BY <1>7, Nowhere
  <2>2. FullType(field) = pk \o <<l>>
    BY <2>1
  <2>3. q = <<l>>
    <3> HIDE DEF pk, l
    <3> QED
      BY <1>1, <1>3, <2>2
  <2> QED
    BY <1>1, <1>4, <2>3
<1> QED
  BY <1>1, <1>5, <1>6, <1>7, Resolutions

(* The list of a group, read from its end, is the order of the declarations. *)
LEMMA GroupOrder ==
  ASSUME NEW parent, SortedGroup(parent), file.children[parent] \in Seq(Identifiers),
         NEW u \in DOMAIN file.children[parent], NEW t \in DOMAIN file.children[parent], u # t,
         <<u, t>> \in Uses(parent),
         u < t \/ \A earlier \in 1 .. u - 1 : <<earlier, u>> \notin Uses(parent)
  PROVE  \E i, j \in DOMAIN order[parent] :
           i < j /\ order[parent][i] = file.children[parent][t]
                 /\ order[parent][j] = file.children[parent][u]
<1> DEFINE members == file.children[parent]
           n == Len(members)
<1>1. n \in Nat /\ DOMAIN members = 1 .. n
  OBVIOUS
<1>2. PICK r : Listed(r, n, Uses(parent)) /\ order[parent] = [i \in 1 .. n |-> members[r[n - i + 1]]]
  BY DEF SortedGroup
<1>3. r \in Seq(Nat) /\ DOMAIN r = 1 .. n
  BY <1>2 DEF Listed
<1>4. PICK a \in 1 .. n : r[a] = u
  BY <1>1, <1>2 DEF Listed
<1>5. PICK b \in 1 .. n : r[b] = t
  BY <1>1, <1>2 DEF Listed
<1>6. a < b
  BY <1>2, <1>3, <1>4, <1>5 DEF Listed, First
<1> HIDE DEF members, n
<1> DEFINE i == n - b + 1
           j == n - a + 1
<1>7. i \in 1 .. n /\ j \in 1 .. n /\ i < j /\ n - i + 1 = b /\ n - j + 1 = a
  BY <1>1, <1>6
<1> HIDE DEF i, j
<1>8. order[parent][i] = members[t] /\ order[parent][j] = members[u] /\ DOMAIN order[parent] = 1 .. n
  BY <1>2, <1>4, <1>5, <1>7
<1> QED
  BY <1>7, <1>8 DEF members

LEMMA HeldIsFirst ==
  ASSUME IsFile(file), OrderInv, stage = "declared", NEW field \in Fields,
         resolved[field] = resolve_field_type(field), resolved[field].package = file.package,
         NEW q \in DOMAIN file.kinds, file.kinds[q] = "message", FullType(field) = FullName(q)
  PROVE  LET p == file.fields[field].in
             n == Len(LongestCommonPrefix({p, q}))
         IN  \/ IsPrefix(q, p)
             \/ n < Len(p) /\ n < Len(q) /\ ~ GuaranteedAt(p, q, n)
             \/ DeclaredBefore(q, p)
<1> DEFINE p == file.fields[field].in
           n == Len(LongestCommonPrefix({p, q}))
<1>1. /\ p \in Seq(Identifiers) /\ q \in Seq(Identifiers) /\ p \in DOMAIN file.kinds
      /\ file.kinds[p] = "message"
  BY DEF IsFile, Fields
<1>2. Agree(p, q, n) /\ \A l : Agree(p, q, l) => l <= n
  BY <1>1, Parting
<1>3. /\ Len(p) \in Nat /\ Len(q) \in Nat /\ n \in Nat /\ n <= Len(p) /\ n <= Len(q)
      /\ SubSeq(p, 1, n) = SubSeq(q, 1, n)
  <2>1. Len(p) \in Nat /\ Len(q) \in Nat
    BY <1>1
  <2> QED
    <3> HIDE DEF n, p
    <3> QED
      BY <1>2, <2>1 DEF Agree
<1> HIDE DEF n
<1>4. CASE n = Len(q)
  <2>1. q = SubSeq(p, 1, Len(q))
    BY <1>1, <1>3, <1>4, SubSeqFull
  <2>2. IsPrefix(q, p)
    BY <1>1, <1>3, <1>4, <2>1, SamePrefix
  <2> QED
    BY <2>2
<1>5. CASE n = Len(p) /\ n < Len(q)
  <2>1. p = SubSeq(q, 1, Len(p)) /\ p # q
    BY <1>1, <1>3, <1>5, SubSeqFull
  <2>2. IsStrictPrefix(p, q)
    BY <1>1, <1>3, <1>5, <2>1, SamePrefix DEF IsStrictPrefix
  <2> QED
    BY <2>2 DEF DeclaredBefore
<1>6. ASSUME n < Len(p), n < Len(q), GuaranteedAt(p, q, n) PROVE DeclaredBefore(q, p)
  <2> DEFINE parent == SubSeq(p, 1, n)
             members == file.children[parent]
             number(name) == CHOOSE i \in DOMAIN members : members[i] = name
             u == number(p[n + 1])
             t == number(q[n + 1])
  <2>1. p[n + 1] # q[n + 1]
    <3> HIDE DEF p
    <3> QED
      BY <1>1, <1>2, <1>6, PartedNames
  <2>2. /\ parent \in DOMAIN file.children
        /\ p[n + 1] \in Range(members) /\ q[n + 1] \in Range(members)
    <3>1. /\ n + 1 \in 1 .. Len(p) /\ n + 1 \in 1 .. Len(q) /\ (n + 1) - 1 = n
      BY <1>3, <1>6
    <3>2. IsChild(file, p, n + 1) /\ IsChild(file, q, n + 1)
      BY <1>1, <3>1 DEF IsFile
    <3> QED
      BY <1>3, <3>1, <3>2 DEF IsChild
  <2>3. members \in Seq(Identifiers)
    BY <2>2, SMTT(30) DEF IsFile
  <2>4. u \in DOMAIN members /\ members[u] = p[n + 1]
    BY <2>2, SMTT(30) DEF Range
  <2>5. t \in DOMAIN members /\ members[t] = q[n + 1]
    BY <2>2, Zenon DEF Range
  <2>6. u < t \/ \A earlier \in 1 .. u - 1 : <<earlier, u>> \notin Uses(parent)
    BY <1>6, Zenon DEF GuaranteedAt
  <2> HIDE DEF u, t, members
  <2>7. u # t
    BY <2>1, <2>4, <2>5
  <2>8. Append(parent, p[n + 1]) = SubSeq(p, 1, n + 1)
    <3> HIDE DEF p
    <3> QED
      BY <1>1, <1>3, <1>6, OneFurther
  <2>9. q = Append(parent, q[n + 1])
    <3>1. PICK m \in 0 .. Len(p) : q = SubSeq(p, 1, m) \o <<LastName(field)>>
      BY <1>1, FoundAround
    <3>2. LastName(field) \in Identifiers
      BY FieldIs
    <3> DEFINE s == SubSeq(p, 1, m)
               l == LastName(field)
    <3>3. s \in Seq(Identifiers) /\ Len(s) = m /\ <<l>> \in Seq(Identifiers) /\ Len(<<l>>) = 1
      BY <1>1, <3>2, Initial
    <3> HIDE DEF l, p
    <3>4. Joined(q, s, <<l>>)
      BY <3>1, <3>3, JoinedIs DEF l
    <3>5. Len(q) = m + 1
      BY <3>3, <3>4 DEF Joined
    <3>6. Agree(p, q, m)
      <4>1. m <= Len(q) /\ m \in 0 .. Len(q)
        BY <3>5
      <4>2. /\ SubSeq(q, 1, m) \in Seq(Identifiers) /\ Len(SubSeq(q, 1, m)) = m
            /\ \A i \in 1 .. m : SubSeq(q, 1, m)[i] = q[i]
        BY <1>1, <4>1, Initial
      <4>3. \A i \in 1 .. m : s[i] = q[i]
        BY <3>3, <3>4 DEF Joined
      <4>4. s = SubSeq(q, 1, m)
        BY <3>3, <4>2, <4>3, SeqEqual
      <4> QED
        BY <4>1, <4>4 DEF Agree
    <3>7. m = n
      <4>1. m <= n
        BY <1>2, <3>6
      <4> QED
        BY <1>3, <1>6, <3>5, <4>1
    <3>8. Append(SubSeq(q, 1, n), q[n + 1]) = SubSeq(q, 1, n + 1)
      BY <1>1, <1>3, <1>6, OneFurther
    <3>9. SubSeq(q, 1, n + 1) = q
      BY <1>1, <3>5, <3>7, SubSeqFull
    <3> QED
      BY <1>3, <3>8, <3>9 DEF p
  <2>10. <<u, t>> \in Uses(parent)
    <3>1. Member(parent, u) = SubSeq(p, 1, n + 1) /\ Member(parent, t) = q
      BY <2>4, <2>5, <2>8, <2>9 DEF Member, members
    <3>2. IsPrefix(Member(parent, u), p)
      <4> DEFINE e == n + 1
                 x == SubSeq(p, 1, e)
      <4>1. e \in 0 .. Len(p) /\ e <= Len(p)
        BY <1>3, <1>6
      <4> HIDE DEF e
      <4>2. x \in Seq(Identifiers) /\ Len(x) = e
        BY <1>1, <4>1, Initial
      <4> HIDE DEF x, p
      <4>3. IsPrefix(x, p)
        BY <1>1, <4>1, <4>2, SamePrefix DEF x
      <4> QED
        BY <3>1, <4>3 DEF x, e
    <3>3. FullName(q) \in UsedTypes(Member(parent, u))
      BY <3>2 DEF UsedTypes
    <3> QED
      BY <2>4, <2>5, <3>1, <3>3, SMTT(40) DEF Uses, members
  <2>11. SortedGroup(parent)
    BY <2>2 DEF OrderInv
  <2>12. PICK i, j \in DOMAIN order[parent] :
           i < j /\ order[parent][i] = members[t] /\ order[parent][j] = members[u]
    <3> HIDE DEF parent
    <3> QED
      BY <2>3, <2>4, <2>5, <2>6, <2>7, <2>10, <2>11, GroupOrder DEF members
  <2>13. n \in 0 .. Min({Len(q), Len(p)}) - 1
    <3> DEFINE S == {Len(q), Len(p)}
    <3>1. S \in SUBSET Nat /\ S # {}
      BY <1>3
    <3>2. Min(S) \in {Len(q), Len(p)}
      BY <3>1, MinExists
    <3>3. n < Min(S) /\ Min(S) \in Nat
      BY <1>3, <1>6, <3>2
    <3> DEFINE least == Min(S)
    <3> HIDE DEF least
    <3>4. n \in 0 .. least - 1
      BY <1>3, <3>3 DEF least
    <3> QED
      BY <3>4 DEF least
  <2>14. parent = SubSeq(q, 1, n)
    BY <1>3
  <2>15. order[SubSeq(q, 1, n)][i] = q[n + 1] /\ order[SubSeq(q, 1, n)][j] = p[n + 1]
    BY <2>4, <2>5, <2>12, <2>14
  <2> QED
    BY <1>3, <2>12, <2>13, <2>14, <2>15 DEF DeclaredBefore
<1>7. n = Len(q) \/ (n = Len(p) /\ n < Len(q)) \/ (n < Len(p) /\ n < Len(q))
  BY <1>3
<1> QED
  BY <1>4, <1>5, <1>6, <1>7 DEF n

LEMMA OrderFollows == KindsInv /\ OrderInv => TypesDeclaredFirst
<1> SUFFICES ASSUME KindsInv, OrderInv, stage = "declared", NEW pair \in Held
             PROVE  LET p == pair[1]  q == pair[2]
                        n == Len(LongestCommonPrefix({p, q}))
                    IN  \/ IsPrefix(q, p)
                        \/ n < Len(p) /\ n < Len(q) /\ ~ GuaranteedAt(p, q, n)
                        \/ DeclaredBefore(q, p)
  BY DEF TypesDeclaredFirst
<1>1. IsFile(file) /\ resolved = [field \in Fields |-> resolve_field_type(field)]
  BY DEF KindsInv, Resolved
<1>2. /\ pair[2] \in DOMAIN file.kinds /\ file.kinds[pair[2]] = "message"
      /\ \E field \in Fields :
           /\ file.fields[field].in = pair[1]
           /\ resolved[field].package = file.package /\ FullType(field) = FullName(pair[2])
  BY DEF Held
<1>3. PICK field \in Fields :
        /\ file.fields[field].in = pair[1]
        /\ resolved[field].package = file.package /\ FullType(field) = FullName(pair[2])
  BY <1>2
<1>4. resolved[field] = resolve_field_type(field)
  BY <1>1
<1> DEFINE q == pair[2]
<1>5. q \in DOMAIN file.kinds /\ file.kinds[q] = "message" /\ FullType(field) = FullName(q)
  BY <1>2, <1>3
<1> HIDE DEF q
<1>6. LET p == file.fields[field].in
          n == Len(LongestCommonPrefix({p, q}))
      IN  \/ IsPrefix(q, p)
          \/ n < Len(p) /\ n < Len(q) /\ ~ GuaranteedAt(p, q, n)
          \/ DeclaredBefore(q, p)
  BY <1>1, <1>3, <1>4, <1>5, HeldIsFirst
<1> QED
  BY <1>3, <1>6 DEF q

LEMMA OrderStarts == Init => KindsInv /\ OrderInv
<1> SUFFICES ASSUME Init PROVE KindsInv /\ OrderInv
  OBVIOUS
<1>1. /\ stage = "text" /\ order = <<>> /\ count = 0 /\ reversed_sorted = <<>>
  BY DEF Init, ProtoInit, SortInit
<1>2. SortInv
  BY <1>1, SortStart
<1>3. Spread /\ Len(reversed_sorted) = 0
  BY <1>1 DEF Spread
<1>4. KindsInv
  BY <1>1 DEF KindsInv, Resolved, Accepted
<1> QED
  BY <1>1, <1>2, <1>3, <1>4, EmptyDomain DEF OrderInv

(* generate_types: whatever messages hold one another, in whatever nesting and
   named in whatever way, the struct of one that is held by value is declared
   first, if the order in the file guarantees it in the group where the two part. *)
THEOREM FrontendTypesDeclaredFirst == Spec => []TypesDeclaredFirst
<1> DEFINE Inv == KindsInv /\ OrderInv
<1>1. Inv /\ [Next]_frontend => Inv'
  BY KindsInductive, OrderInductive
<1> QED
  BY <1>1, OrderStarts, OrderFollows, PTL DEF Spec

LEMMA GroupWhole ==
  ASSUME NEW parent, SortedGroup(parent), file.children[parent] \in Seq(Identifiers)
  PROVE  Range(order[parent]) = Range(file.children[parent])
<1> DEFINE members == file.children[parent]
           n == Len(members)
           o == order[parent]
<1>1. n \in Nat /\ DOMAIN members = 1 .. n
  OBVIOUS
<1>2. PICK r : Listed(r, n, Uses(parent)) /\ o = [i \in 1 .. n |-> members[r[n - i + 1]]]
  BY DEF SortedGroup
<1>3. /\ \A i \in 1 .. n : r[i] \in 1 .. n
      /\ \A x \in 1 .. n : \E i \in 1 .. n : r[i] = x
  BY <1>2 DEF Listed
<1>4. DOMAIN o = 1 .. n /\ \A i \in 1 .. n : o[i] = members[r[n - i + 1]]
  BY <1>2
<1> HIDE DEF o, n, members
<1>5. ASSUME NEW i \in 1 .. n PROVE o[i] \in Range(members)
  <2>1. n - i + 1 \in 1 .. n
    BY <1>1
  <2>2. r[n - i + 1] \in DOMAIN members
    BY <1>1, <1>3, <2>1
  <2> QED
    BY <1>4, <2>2 DEF Range
<1>6. ASSUME NEW x \in 1 .. n PROVE members[x] \in Range(o)
  <2>1. PICK a \in 1 .. n : r[a] = x
    BY <1>3
  <2> DEFINE i == n - a + 1
  <2>2. i \in 1 .. n /\ n - i + 1 = a
    BY <1>1
  <2> HIDE DEF i
  <2>3. o[i] = members[x] /\ i \in DOMAIN o
    BY <1>4, <2>1, <2>2
  <2> QED
    BY <2>3 DEF Range
<1>7. Range(o) = Range(members)
  BY <1>1, <1>4, <1>5, <1>6 DEF Range
<1> QED
  BY <1>7 DEF o, members

LEMMA TypesFollow == ScanTypes /\ KindsInv /\ OrderInv => TypeOK
<1> SUFFICES ASSUME ScanTypes, KindsInv, OrderInv PROVE TypeOK
  OBVIOUS
<1>1. /\ status \in {"scanning", "ended", "raised"}
      /\ start_offset \in 0 .. Len(text) /\ non_comment_offset \in 0 .. Len(text)
  <2>1. Len(text) \in Nat /\ scan \in 0 .. Len(text) /\ start_offset \in 0 .. scan
        /\ non_comment_offset \in 0 .. scan /\ status \in {"scanning", "ended", "raised"}
    BY DEF ScanTypes
  <2> QED
    BY <2>1
<1>2. /\ stage \in {"text", "parsed", "types", "kinds", "sort", "sorting", "raised", "declared"}
      /\ stage \in {"sort", "sorting", "declared"} => DOMAIN type_kind = Fields
  BY DEF KindsInv, Accepted
<1>3. /\ reversed_sorted \in Seq(Nat) /\ DOMAIN reversed_sorted = 1 .. Len(reversed_sorted)
      /\ \A i \in 1 .. Len(reversed_sorted) : reversed_sorted[i] \in 1 .. Len(reversed_sorted)
  BY DEF OrderInv, SortInv, Placed
<1>4. /\ \A i, j \in 1 .. Len(reversed_sorted) : reversed_sorted[i] = reversed_sorted[j] => i = j
      /\ \A x \in 1 .. Len(reversed_sorted) : \E i \in 1 .. Len(reversed_sorted) : reversed_sorted[i] = x
      /\ Len(reversed_sorted) <= count
  BY DEF OrderInv, Spread
<1>5. Range(reversed_sorted) = 1 .. Len(reversed_sorted)
  <2> DEFINE L == 1 .. Len(reversed_sorted)
  <2>1. /\ DOMAIN reversed_sorted = L /\ \A i \in L : reversed_sorted[i] \in L
        /\ \A x \in L : \E i \in L : reversed_sorted[i] = x
    BY <1>3, <1>4
  <2> HIDE DEF L
  <2>2. Range(reversed_sorted) = L
    BY <2>1 DEF Range
  <2> QED
    BY <2>2 DEF L
<1>6. \A i, j \in DOMAIN reversed_sorted : reversed_sorted[i] = reversed_sorted[j] => i = j
  BY <1>3, <1>4
<1>7. \A parent \in DOMAIN order : Range(order[parent]) = Range(file.children[parent])
  <2> TAKE parent \in DOMAIN order
  <2>1. parent \in DOMAIN file.children /\ SortedGroup(parent)
    BY DEF OrderInv
  <2>2. stage \notin {"text", "parsed"}
    BY EmptyDomain DEF OrderInv
  <2>3. file.children[parent] \in Seq(Identifiers)
    BY <2>1, <2>2 DEF KindsInv, IsFile
  <2> QED
    BY <2>1, <2>3, GroupWhole
<1> QED
  BY <1>1, <1>2, <1>4, <1>5, <1>6, <1>7 DEF TypeOK

(* parse_file keeps its offsets in the text, loses no message and names none twice
   while it sorts, in the list it builds and in the groups it leaves behind. *)
THEOREM FrontendTypeOK == Spec => []TypeOK
<1> DEFINE Inv == (ScanTypes /\ ScanOK) /\ KindsInv /\ OrderInv
<1>1. Init => Inv
  BY ScanStarts, OrderStarts
<1>2. Inv /\ [Next]_frontend => Inv'
  BY ScanInductive, KindsInductive, OrderInductive
<1>3. Inv => TypeOK
  BY TypesFollow
<1> QED
  BY <1>1, <1>2, <1>3, PTL DEF Spec
=============================================================================
