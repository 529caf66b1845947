-------------------------- MODULE CheckpointProofs --------------------------
(***************************************************************************)
(* What Checkpoint promises of the journals and the final file of a batch, *)
(* for any IDs, sync interval and number of kills, if no kill falls        *)
(* between a record and its newline.                                       *)
(***************************************************************************)
EXTENDS Checkpoint, FiniteSetTheorems, SequenceTheorems, TLAPS

(* Records are at odd places, each with its newline after it; a kill may   *)
(* have torn the last one.                                                 *)
Odd(n) == n % 2 = 1

Written(s) ==
  /\ s \in Seq(Pieces)
  /\ \A n \in DOMAIN s : ~Odd(n) => s[n] = Newline
  /\ \A n \in DOMAIN s : Odd(n) => \E i \in Ids : s[n] = IF n < Len(s) THEN Body(i) ELSE Torn(i)

Whole(s) == Written(s) /\ ~Odd(Len(s))

-----------------------------------------------------------------------------
LEMMA PiecesDiffer ==
  ASSUME NEW i, NEW j
  PROVE  /\ Body(i) # Newline /\ Torn(i) # Newline /\ Body(i) # Torn(j)
         /\ Body(i) = Body(j) => i = j
         /\ Body(i)[2] = i
BY DEF Body, Torn, Newline

LEMMA WholeBodies ==
  ASSUME NEW s, Whole(s), NEW n \in DOMAIN s, Odd(n)
  PROVE  n + 1 \in DOMAIN s /\ \E i \in Ids : s[n] = Body(i)
<1>1. s \in Seq(Pieces) /\ DOMAIN s = 1 .. Len(s) /\ Len(s) \in Nat
  BY DEF Whole, Written
<1>2. n < Len(s)
  BY <1>1 DEF Whole, Odd
<1> QED
  BY <1>1, <1>2 DEF Whole, Written

(* Lines begin at odd places, and each is a single piece.                  *)
LEMMA LinesOfWritten ==
  ASSUME NEW s, Written(s)
  PROVE  /\ LineStarts(s) = {n \in DOMAIN s : Odd(n)}
         /\ \A n \in LineStarts(s) : LineAt(s, n) = <<s[n]>>
<1>1. s \in Seq(Pieces) /\ DOMAIN s = 1 .. Len(s) /\ Len(s) \in Nat
  BY DEF Written
<1>2. \A n \in DOMAIN s : s[n] = Newline <=> ~Odd(n)
  BY PiecesDiffer DEF Written
<1>3. LineStarts(s) = {n \in DOMAIN s : Odd(n)}
  <2> SUFFICES ASSUME NEW n \in DOMAIN s
               PROVE  (n = 1 \/ s[n - 1] = Newline) <=> Odd(n)
    BY DEF LineStarts
  <2>1. CASE n = 1
    BY <2>1 DEF Odd
  <2>2. CASE n # 1
    <3>1. n - 1 \in DOMAIN s
      BY <1>1, <2>2
    <3> QED
      BY <1>1, <1>2, <2>2, <3>1 DEF Odd
  <2> QED
    BY <2>1, <2>2
<1>4. ASSUME NEW n \in DOMAIN s, Odd(n)
      PROVE  LineAt(s, n) = <<s[n]>>
  <2> DEFINE ends == {m \in n .. Len(s) : s[m] = Newline}
  <2>1. SubSeq(s, n, n) = <<s[n]>>
    <3> DEFINE t == SubSeq(s, n, n)
               u == <<s[n]>>
    <3>1. n \in Int /\ \A m \in n .. n : s[m] \in Pieces
      BY <1>1
    <3>2. /\ t \in Seq(Pieces)
          /\ Len(t) = IF n <= n THEN n - n + 1 ELSE 0
          /\ \A m \in 1 .. n - n + 1 : t[m] = s[n + m - 1]
      BY <3>1, SubSeqProperties
    <3>3. t[1] = s[n] /\ Len(t) = 1
      BY <3>1, <3>2
    <3>4. u \in Seq(Pieces) /\ Len(u) = 1 /\ u[1] = s[n]
      BY <1>1
    <3> HIDE DEF t, u
    <3>5. t = u
      BY <3>2, <3>3, <3>4, SeqEqual
    <3> QED
      BY <3>5 DEF t, u
  <2>2. CASE n = Len(s)
    <3>1. ends = {}
      BY <1>1, <1>2, <1>4, <2>2
    <3> QED
      BY <2>1, <2>2, <3>1 DEF LineAt
  <2>3. CASE n # Len(s)
    <3>1. n + 1 \in DOMAIN s /\ ~Odd(n + 1)
      BY <1>1, <1>4, <2>3 DEF Odd
    <3>2. n + 1 \in ends /\ \A m \in ends : n + 1 <= m
      BY <1>1, <1>2, <1>4, <3>1
    <3>3. ends # {} /\ Min(ends) = n + 1
      <4>1. \A m \in ends : m \in Int
        BY <1>1
      <4> HIDE DEF ends
      <4>2. \E x \in ends : \A y \in ends : x <= y
        BY <3>2
      <4>3. Min(ends) \in ends /\ \A y \in ends : Min(ends) <= y
        BY <4>2 DEF Min
      <4> QED
        BY <1>1, <3>2, <4>1, <4>3
    <3>4. LineAt(s, n) = SubSeq(s, n, (n + 1) - 1)
      BY <3>3 DEF LineAt
    <3>5. (n + 1) - 1 = n
      BY <1>1
    <3> QED
      BY <2>1, <3>4, <3>5
  <2> QED
    BY <2>2, <2>3
<1> QED
  BY <1>3, <1>4

(* What is read back of a journal is what was written, but for a torn end. *)
LEMMA RecordsOfWritten ==
  ASSUME NEW s, Written(s)
  PROVE  RecordsOf(s) = RecordsIn(s)
<1>1. \A n \in DOMAIN s, i \in Ids : s[n] = Body(i) => Odd(n)
  BY PiecesDiffer DEF Written
<1>2. \A i \in Ids : \A n \in LineStarts(s) : LineAt(s, n) = <<Body(i)>> <=> s[n] = Body(i)
  BY LinesOfWritten
<1>3. LineStarts(s) = {n \in DOMAIN s : Odd(n)}
  BY LinesOfWritten
<1> QED
  BY <1>1, <1>2, <1>3 DEF RecordsOf, RecordsIn

(* Cutting the end off, at a newline or not.                               *)
LEMMA RepairedWritten ==
  ASSUME NEW s, Written(s)
  PROVE  /\ Whole(Repaired(s))
         /\ RecordsIn(Repaired(s)) = RecordsIn(s)
         /\ \A n \in DOMAIN Repaired(s) : n \in DOMAIN s /\ Repaired(s)[n] = s[n]
<1> DEFINE nonEmpty == {n \in LineStarts(s) : LineAt(s, n) # <<>>}
           L == Len(s)
<1>1. s \in Seq(Pieces) /\ DOMAIN s = 1 .. L /\ L \in Nat
  BY DEF Written
<1>2. nonEmpty = {n \in 1 .. L : Odd(n)}
  BY <1>1, LinesOfWritten
<1>3. \A n \in nonEmpty : Parses(LineAt(s, n)) <=> \E i \in Ids : s[n] = Body(i)
  BY LinesOfWritten DEF Parses
<1>4. ASSUME NEW last \in nonEmpty, \A n \in nonEmpty : last >= n
      PROVE  Max(nonEmpty) = last
  <2>1. \A n \in nonEmpty : n \in Int
    BY <1>1, <1>2
  <2> HIDE DEF nonEmpty
  <2>2. Max(nonEmpty) \in nonEmpty /\ \A n \in nonEmpty : Max(nonEmpty) >= n
    BY <1>4 DEF Max
  <2> QED
    BY <1>4, <2>1, <2>2
<1>5. Repaired(s) = IF nonEmpty # {} /\ ~Parses(LineAt(s, Max(nonEmpty)))
                      THEN SubSeq(s, 1, Max(nonEmpty) - 1) ELSE s
  BY DEF Repaired
<1>6. CASE ~Odd(L)
  <2>1. Whole(s)
    BY <1>6 DEF Whole
  <2>2. Repaired(s) = s
    <3>1. CASE L = 0
      <4>1. nonEmpty = {}
        BY <1>2, <3>1
      <4> QED
        BY <1>5, <4>1
    <3>2. CASE L # 0
      <4>1. L - 1 \in nonEmpty /\ \A n \in nonEmpty : L - 1 >= n
        BY <1>1, <1>2, <1>6, <3>2 DEF Odd
      <4>2. Max(nonEmpty) = L - 1
        BY <1>4, <4>1
      <4>3. Odd(L - 1) /\ L - 1 \in DOMAIN s
        BY <1>1, <1>2, <4>1
      <4>4. Parses(LineAt(s, L - 1))
        BY <1>3, <2>1, <4>1, <4>3, WholeBodies
      <4> QED
        BY <1>5, <4>2, <4>4
    <3> QED
      BY <3>1, <3>2
  <2> QED
    BY <2>1, <2>2
<1>7. CASE Odd(L)
  <2> DEFINE k == L - 1
             cut == SubSeq(s, 1, k)
  <2>1. L \in nonEmpty /\ \A n \in nonEmpty : L >= n
    BY <1>1, <1>2, <1>7 DEF Odd
  <2>2. Max(nonEmpty) = L
    BY <1>4, <2>1
  <2>3. \E i \in Ids : s[L] = Torn(i)
    <3>1. L \in DOMAIN s /\ ~ (L < Len(s))
      BY <1>1, <1>2, <2>1
    <3> QED
      BY <1>7, <3>1 DEF Written
  <2>4. \A i \in Ids : s[L] # Body(i)
    BY <2>3, PiecesDiffer
  <2>5. Repaired(s) = cut
    BY <1>3, <1>5, <2>1, <2>2, <2>4
  <2>6. k \in Nat /\ k <= L /\ ~Odd(k) /\ L = k + 1
    BY <1>1, <1>7, <2>1, <1>2 DEF Odd
  <2>7. /\ cut \in Seq(Pieces) /\ Len(cut) = k
        /\ \A n \in 1 .. k : cut[n] = s[n]
    <3> HIDE DEF k, L
    <3>1. \A n \in 1 .. k : s[n] \in Pieces
      BY <1>1, <2>6
    <3>2. cut \in Seq(Pieces)
      BY <1>1, <2>6, <3>1
    <3>3. Len(cut) = k
      BY <1>1, <2>6
    <3> QED
      BY <1>1, <2>6, <3>2, <3>3
  <2>8. DOMAIN cut = 1 .. k
    BY <2>7
  <2> HIDE DEF cut, k, L
  <2>9. Whole(cut)
    <3>1. \A n \in DOMAIN cut : ~Odd(n) => cut[n] = Newline
      BY <1>1, <2>6, <2>7, <2>8 DEF Written
    <3>2. ASSUME NEW n \in DOMAIN cut, Odd(n)
          PROVE  n < Len(cut) /\ \E i \in Ids : cut[n] = Body(i)
      <4>1. n \in DOMAIN s /\ n < Len(s) /\ n < k
        BY <1>1, <2>6, <2>8, <3>2 DEF Odd, L
      <4> QED
        BY <2>7, <2>8, <3>2, <4>1 DEF Written
    <3> QED
      BY <2>6, <2>7, <3>1, <3>2 DEF Whole, Written
  <2>10. RecordsIn(cut) = RecordsIn(s)
    <3>1. \A n \in DOMAIN s, i \in Ids : s[n] = Body(i) => n \in 1 .. k
      BY <1>1, <2>4, <2>6
    <3> QED
      BY <1>1, <2>6, <2>7, <2>8, <3>1 DEF RecordsIn
  <2> QED
    BY <1>1, <2>5, <2>6, <2>7, <2>8, <2>9, <2>10
<1> QED
  BY <1>6, <1>7

-----------------------------------------------------------------------------
(* Appending to whole lines.                                               *)
LEMMA OddSum ==
  ASSUME NEW a \in Nat, NEW b \in Nat, ~Odd(a)
  PROVE  Odd(a + b) <=> Odd(b)
BY DEF Odd

LEMMA RecordsAt ==
  ASSUME NEW s, NEW i
  PROVE  i \in RecordsIn(s) <=> i \in Ids /\ \E n \in DOMAIN s : s[n] = Body(i)
BY DEF RecordsIn

LEMMA JoinedWritten ==
  ASSUME NEW s, Whole(s), NEW t, Written(t)
  PROVE  /\ Written(s \o t)
         /\ Whole(t) => Whole(s \o t)
         /\ RecordsIn(s \o t) = RecordsIn(s) \cup RecordsIn(t)
         /\ Len(s \o t) = Len(s) + Len(t)
         /\ \A n \in 1 .. Len(s) : (s \o t)[n] = s[n]
         /\ \A n \in 1 .. Len(t) : (s \o t)[Len(s) + n] = t[n]
<1> DEFINE u == s \o t
           K == Len(s)
           L == Len(t)
<1>1. /\ s \in Seq(Pieces) /\ DOMAIN s = 1 .. K /\ K \in Nat /\ ~Odd(K)
      /\ t \in Seq(Pieces) /\ DOMAIN t = 1 .. L /\ L \in Nat
  BY DEF Whole, Written
<1>2. /\ u \in Seq(Pieces) /\ Len(u) = K + L
      /\ \A n \in 1 .. K + L : u[n] = IF n <= K THEN s[n] ELSE t[n - K]
  BY <1>1, ConcatProperties
<1>3. DOMAIN u = 1 .. K + L
  BY <1>2
<1> HIDE DEF u
<1>4. /\ \A n \in 1 .. K : n \in DOMAIN u /\ u[n] = s[n]
      /\ \A n \in 1 .. L : K + n \in DOMAIN u /\ u[K + n] = t[n]
  <2> HIDE DEF K, L
  <2>1. \A n \in 1 .. K : n \in 1 .. K + L /\ n <= K
    BY <1>1
  <2>2. \A n \in 1 .. L : K + n \in 1 .. K + L /\ ~ (K + n <= K) /\ (K + n) - K = n
    BY <1>1
  <2> QED
    BY <1>2, <1>3, <2>1, <2>2
<1>5. ASSUME NEW n \in DOMAIN u
      PROVE  n \in 1 .. K \/ \E m \in 1 .. L : n = K + m
  <2>1. n > K => n - K \in 1 .. L /\ n = K + (n - K)
    BY <1>1, <1>3
  <2>2. n <= K => n \in 1 .. K
    BY <1>1, <1>3
  <2> QED
    BY <1>1, <1>3, <2>1, <2>2
<1>6. ASSUME NEW n \in DOMAIN u
      PROVE  /\ ~Odd(n) => u[n] = Newline
             /\ Odd(n) => \E i \in Ids : u[n] = IF n < Len(u) THEN Body(i) ELSE Torn(i)
  <2>1. CASE n \in 1 .. K
    <3>1. u[n] = s[n] /\ (Odd(n) => n + 1 \in DOMAIN s)
      BY <1>1, <1>4, <2>1, WholeBodies
    <3>2. Odd(n) => n < Len(u)
      BY <1>1, <1>2, <2>1, <3>1
    <3> QED
      BY <1>1, <2>1, <3>1, <3>2, WholeBodies DEF Whole, Written
  <2>2. ASSUME NEW m \in 1 .. L, n = K + m
        PROVE  /\ ~Odd(n) => u[n] = Newline
               /\ Odd(n) => \E i \in Ids : u[n] = IF n < Len(u) THEN Body(i) ELSE Torn(i)
    <3>1. Odd(n) <=> Odd(m)
      <4>1. K \in Nat /\ m \in Nat /\ ~Odd(K)
        BY <1>1
      <4> HIDE DEF K
      <4> QED
        BY <2>2, <4>1, OddSum
    <3>2. (n < Len(u) <=> m < L) /\ u[n] = t[m]
      BY <1>1, <1>2, <1>4, <2>2
    <3> QED
      BY <1>1, <2>2, <3>1, <3>2 DEF Written
  <2> QED
    BY <1>5, <2>1, <2>2
<1>7. Written(u)
  BY <1>2, <1>6 DEF Written
<1>8. Whole(t) => Whole(u)
  BY <1>1, <1>2, <1>7, OddSum DEF Whole
<1>9. RecordsIn(u) = RecordsIn(s) \cup RecordsIn(t)
  <2>1. ASSUME NEW i \in Ids
        PROVE  (\E n \in DOMAIN u : u[n] = Body(i))
                 <=> \/ \E n \in DOMAIN s : s[n] = Body(i)
                     \/ \E n \in DOMAIN t : t[n] = Body(i)
    BY <1>1, <1>4, <1>5
  <2> HIDE DEF K, L
  <2> QED
    BY <2>1, RecordsAt
<1> QED
  BY <1>2, <1>4, <1>7, <1>8, <1>9 DEF u

LEMMA OneRecord ==
  ASSUME NEW i \in Ids
  PROVE  /\ Whole(<<Body(i), Newline>>)
         /\ RecordsIn(<<Body(i), Newline>>) = {i}
<1> DEFINE t == <<Body(i), Newline>>
<1>1. Body(i) \in Pieces /\ Newline \in Pieces
  BY DEF Pieces
<1>2. t \in Seq(Pieces) /\ Len(t) = 2 /\ t[1] = Body(i) /\ t[2] = Newline
  BY <1>1
<1>3. DOMAIN t = 1 .. 2
  BY <1>2
<1> HIDE DEF t
<1>4. ~Odd(2) /\ Odd(1) /\ \A n \in 1 .. 2 : n = 1 \/ n = 2
  BY DEF Odd
<1>5. Whole(t)
  BY <1>2, <1>3, <1>4 DEF Whole, Written
<1>6. RecordsIn(t) = {i}
  <2>1. \A j \in Ids : Body(j) \in {t[n] : n \in DOMAIN t} <=> Body(j) = Body(i) \/ Body(j) = Newline
    BY <1>2, <1>3, <1>4
  <2>2. \A j \in Ids : Body(j) # Newline /\ (Body(j) = Body(i) <=> j = i)
    BY PiecesDiffer
  <2> QED
    BY <2>1, <2>2 DEF RecordsIn
<1> QED
  BY <1>5, <1>6 DEF t

LEMMA EmptyWhole == Whole(<<>>) /\ RecordsIn(<<>>) = {}
BY DEF Whole, Written, RecordsIn, Odd

(* What a kill keeps has no more than its last line torn, and no record    *)
(* that was not there, nor at another place.                               *)
LEMMA SurvivorsWritten ==
  ASSUME ~CutAtNewline, NEW s, Whole(s), NEW p \in Survivors(s)
  PROVE  /\ Written(p)
         /\ Len(p) <= Len(s)
         /\ \A n \in DOMAIN p, i \in Ids : p[n] = Body(i) => n \in DOMAIN s /\ s[n] = Body(i)
<1>1. s \in Seq(Pieces) /\ DOMAIN s = 1 .. Len(s) /\ Len(s) \in Nat
  BY DEF Whole, Written
<1>2. \A n \in 0 .. Len(s) :
         /\ SubSeq(s, 1, n) \in Seq(Pieces) /\ Len(SubSeq(s, 1, n)) = n
         /\ \A m \in 1 .. n : SubSeq(s, 1, n)[m] = s[m]
  <2> SUFFICES ASSUME NEW n \in 0 .. Len(s)
               PROVE  /\ SubSeq(s, 1, n) \in Seq(Pieces) /\ Len(SubSeq(s, 1, n)) = n
                      /\ \A m \in 1 .. n : SubSeq(s, 1, n)[m] = s[m]
    OBVIOUS
  <2>1. \A m \in 1 .. n : s[m] \in Pieces
    BY <1>1
  <2>2. n \in Int /\ 1 \in Int
    OBVIOUS
  <2>3. /\ SubSeq(s, 1, n) \in Seq(Pieces)
        /\ Len(SubSeq(s, 1, n)) = IF 1 <= n THEN n - 1 + 1 ELSE 0
        /\ \A m \in 1 .. n - 1 + 1 : SubSeq(s, 1, n)[m] = s[1 + m - 1]
    BY <2>1, <2>2, SubSeqProperties
  <2> QED
    BY <2>3
<1>3. \A n \in DOMAIN s : s[n] = Newline <=> ~Odd(n)
  BY PiecesDiffer DEF Whole, Written
<1>4. \A n \in DOMAIN s : Odd(n) => n < Len(s) /\ \E i \in Ids : s[n] = Body(i)
  BY <1>1, WholeBodies
<1>5. ASSUME NEW n \in 0 .. Len(s), ~Odd(n)
      PROVE  Whole(SubSeq(s, 1, n))
  <2> DEFINE u == SubSeq(s, 1, n)
  <2>1. u \in Seq(Pieces) /\ Len(u) = n /\ \A m \in 1 .. n : u[m] = s[m]
    BY <1>2
  <2>2. DOMAIN u = 1 .. n
    BY <2>1
  <2> HIDE DEF u
  <2>3. \A m \in 1 .. n : m \in DOMAIN s /\ (Odd(m) => m < n)
    BY <1>1, <1>5 DEF Odd
  <2>4. Whole(u)
    BY <1>3, <1>4, <1>5, <2>1, <2>2, <2>3 DEF Whole, Written
  <2> QED
    BY <2>4 DEF u
<1>6. CASE \E n \in 0 .. Len(s) : p = SubSeq(s, 1, n) /\ (p = <<>> \/ p[Len(p)] = Newline)
  <2>1. PICK n \in 0 .. Len(s) : p = SubSeq(s, 1, n) /\ (p = <<>> \/ p[Len(p)] = Newline)
    BY <1>6
  <2>2. Len(p) = n /\ DOMAIN p = 1 .. n /\ \A m \in 1 .. n : p[m] = s[m]
    BY <1>2, <2>1
  <2>3. ~Odd(n)
    <3>1. CASE n = 0
      BY <3>1 DEF Odd
    <3>2. CASE n # 0
      <4>1. n \in DOMAIN s /\ p # <<>> /\ p[n] = s[n]
        BY <1>1, <2>2, <3>2
      <4> QED
        BY <1>3, <2>1, <2>2, <4>1
    <3> QED
      BY <3>1, <3>2
  <2> QED
    BY <1>1, <1>5, <2>1, <2>2, <2>3 DEF Whole
<1>7. CASE \E n \in DOMAIN s : s[n] # Newline /\ p = SubSeq(s, 1, n - 1) \o <<Torn(s[n][2])>>
  <2>1. PICK n \in DOMAIN s : s[n] # Newline /\ p = SubSeq(s, 1, n - 1) \o <<Torn(s[n][2])>>
    BY <1>7
  <2> DEFINE u == SubSeq(s, 1, n - 1)
  <2>2. PICK i \in Ids : s[n] = Body(i)
    BY <1>3, <1>4, <2>1
  <2>3. Torn(s[n][2]) = Torn(i)
    BY <2>2, PiecesDiffer
  <2>4. n - 1 \in 0 .. Len(s) /\ ~Odd(n - 1)
    BY <1>1, <1>3, <2>1 DEF Odd
  <2>5. Whole(u) /\ Len(u) = n - 1 /\ \A m \in 1 .. n - 1 : u[m] = s[m]
    BY <1>2, <1>5, <2>4
  <2> DEFINE t == <<Torn(i)>>
  <2>6. Written(t) /\ Len(t) = 1 /\ t[1] = Torn(i)
    <3>1. Torn(i) \in Pieces
      BY DEF Pieces
    <3>2. t \in Seq(Pieces) /\ Len(t) = 1 /\ t[1] = Torn(i)
      BY <3>1
    <3>3. DOMAIN t = 1 .. 1
      BY <3>2
    <3> HIDE DEF t
    <3> QED
      BY <3>2, <3>3 DEF Written, Odd
  <2>7. p = u \o t
    BY <2>1, <2>3
  <2> HIDE DEF u, t
  <2>8. /\ Written(p) /\ Len(p) = (n - 1) + 1
        /\ \A m \in 1 .. n - 1 : p[m] = s[m]
        /\ p[(n - 1) + 1] = Torn(i)
    <3>1. /\ Written(u \o t) /\ Len(u \o t) = Len(u) + Len(t)
          /\ \A m \in 1 .. Len(u) : (u \o t)[m] = u[m]
          /\ \A m \in 1 .. Len(t) : (u \o t)[Len(u) + m] = t[m]
      <4>1. Whole(u) /\ Written(t)
        BY <2>5, <2>6
      <4> QED
        BY <4>1, JoinedWritten
    <3>2. 1 \in 1 .. 1
      OBVIOUS
    <3> QED
      BY <2>5, <2>6, <2>7, <3>1, <3>2
  <2>9. p \in Seq(Pieces) /\ n \in Nat /\ n <= Len(s)
    BY <1>1, <2>8 DEF Written
  <2>10. DOMAIN p = 1 .. n /\ Len(p) = n /\ p[n] = Torn(i)
    BY <2>8, <2>9
  <2>11. ASSUME NEW m \in DOMAIN p, NEW j \in Ids, p[m] = Body(j)
         PROVE  m \in DOMAIN s /\ s[m] = Body(j)
    <3>1. m # n
      BY <2>10, <2>11, PiecesDiffer
    <3>2. m \in 1 .. n - 1 /\ m \in DOMAIN s
      BY <1>1, <2>9, <2>10, <3>1
    <3> QED
      BY <2>8, <2>11, <3>2
  <2> QED
    BY <2>8, <2>9, <2>10, <2>11
<1> QED
  BY <1>6, <1>7 DEF Survivors

-----------------------------------------------------------------------------
(* The invariant.                                                          *)

JournalTypes ==
  /\ pc \in {"down", "half", "loaded", "open"}
  /\ file \in [Kinds -> Seq(Pieces)]
  /\ buffer \in [Kinds -> Seq(Pieces)]
  /\ sinceSync \in Nat
  /\ pending \in SUBSET Ids
  /\ errorLog \in SUBSET Ids
  /\ final \in SUBSET Ids
  /\ finalized \in BOOLEAN
  /\ synced \in SUBSET Ids

(* What is loaded is repaired, and only an open journal has a buffer.      *)
LinesInv ==
  /\ \A k \in Kinds : Written(file[k]) /\ Whole(buffer[k])
  /\ pc \in {"half", "loaded", "open"} => Whole(file["success"])
  /\ pc \in {"loaded", "open"} => Whole(file["notFound"])
  /\ pc # "open" => \A k \in Kinds : buffer[k] = <<>>

AllRecords(journal) == UNION {RecordsIn(journal[k]) : k \in Kinds}

(* What is pending is in neither journal loaded so far nor in a buffer, and *)
(* an open batch has dealt with the rest: recorded it, or given it up.      *)
Dealt == AllRecords(file) \cup AllRecords(buffer)

KnownInv ==
  /\ pc = "half" => pending = Ids \ RecordsIn(file["success"])
  /\ pc \in {"loaded", "open"} =>
       /\ pending \cap Dealt = {}
       /\ Ids \subseteq pending \cup Dealt \cup errorLog

(* No ID is at two places.                                                 *)
Once(s) == \A i \in Ids : \A m, n \in DOMAIN s : s[m] = Body(i) /\ s[n] = Body(i) => m = n

Apart(f, b) ==
  /\ \A k \in Kinds : Once(f[k]) /\ Once(b[k])
  /\ RecordsIn(f["success"]) \cap RecordsIn(f["notFound"]) = {}
  /\ RecordsIn(b["success"]) \cap RecordsIn(b["notFound"]) = {}
  /\ AllRecords(f) \cap AllRecords(b) = {}

(* The final file was written over journals that had every ID that was not  *)
(* given up, and is the success journal.                                    *)
FinalInv ==
  finalized =>
    /\ pc = "down"
    /\ Ids \subseteq AllRecords(file) \cup errorLog
    /\ final = RecordsIn(file["success"])

BatchInv ==
  /\ JournalTypes
  /\ LinesInv
  /\ KnownInv
  /\ Apart(file, buffer)
  /\ synced \subseteq AllRecords(file)
  /\ FinalInv

LEMMA AllRecordsAre ==
  ASSUME NEW f
  PROVE  /\ AllRecords(f) = RecordsIn(f["success"]) \cup RecordsIn(f["notFound"])
         /\ \A k \in Kinds : RecordsIn(f[k]) \subseteq AllRecords(f)
<1>1. \A k : k \in Kinds <=> k = "success" \/ k = "notFound"
  BY DEF Kinds
<1> QED
  BY <1>1 DEF AllRecords

LEMMA BufferedIsAll == Buffered = AllRecords(buffer)
BY DEF Buffered, AllRecords

LEMMA RecoveredIsAll == LinesInv => Recovered = AllRecords(file)
<1> SUFFICES ASSUME LinesInv PROVE Recovered = AllRecords(file)
  OBVIOUS
<1>1. \A k \in Kinds : RecordsOf(file[k]) = RecordsIn(file[k])
  BY RecordsOfWritten DEF LinesInv
<1> QED
  BY <1>1 DEF Recovered, AllRecords

LEMMA JoinedOnce ==
  ASSUME NEW s, Whole(s), NEW t, Written(t), Once(s), Once(t), RecordsIn(s) \cap RecordsIn(t) = {}
  PROVE  Once(s \o t)
<1> DEFINE u == s \o t
           K == Len(s)
           L == Len(t)
<1>1. /\ K \in Nat /\ L \in Nat /\ DOMAIN s = 1 .. K /\ DOMAIN t = 1 .. L
  BY DEF Whole, Written
<1>2. /\ u \in Seq(Pieces) /\ Len(u) = K + L
      /\ \A n \in 1 .. K : u[n] = s[n]
      /\ \A n \in 1 .. L : u[K + n] = t[n]
  BY JoinedWritten DEF Written
<1>3. DOMAIN u = 1 .. K + L
  BY <1>2
<1> HIDE DEF u, K, L
<1>4. ASSUME NEW n \in DOMAIN u
      PROVE  \/ n \in DOMAIN s /\ u[n] = s[n]
             \/ \E m \in DOMAIN t : n = K + m /\ u[n] = t[m]
  <2>1. CASE n <= K
    BY <1>1, <1>2, <1>3, <2>1
  <2>2. CASE ~ (n <= K)
    <3>1. n - K \in 1 .. L /\ n = K + (n - K)
      BY <1>1, <1>3, <2>2
    <3> QED
      BY <1>1, <1>2, <3>1
  <2> QED
    BY <2>1, <2>2
<1>5. SUFFICES ASSUME NEW i \in Ids, NEW m \in DOMAIN u, NEW n \in DOMAIN u,
                      u[m] = Body(i), u[n] = Body(i)
               PROVE  m = n
  BY DEF Once, u
<1>6. ~ ((\E x \in DOMAIN s : s[x] = Body(i)) /\ (\E x \in DOMAIN t : t[x] = Body(i)))
  BY RecordsAt
<1>7. CASE m \in DOMAIN s /\ u[m] = s[m]
  <2>1. n \in DOMAIN s /\ u[n] = s[n]
    BY <1>4, <1>5, <1>6, <1>7
  <2> QED
    BY <1>5, <1>7, <2>1 DEF Once
<1>8. CASE \E x \in DOMAIN t : m = K + x /\ u[m] = t[x]
  <2>1. PICK x \in DOMAIN t : m = K + x /\ u[m] = t[x]
    BY <1>8
  <2>2. PICK y \in DOMAIN t : n = K + y /\ u[n] = t[y]
    BY <1>4, <1>5, <1>6, <2>1
  <2>3. x = y
    BY <1>5, <2>1, <2>2 DEF Once
  <2> QED
    BY <2>1, <2>2, <2>3
<1> QED
  BY <1>4, <1>7, <1>8

(* Writing what is buffered, or what a kill keeps of it, behind the files. *)
LEMMA WrittenOut ==
  ASSUME NEW f \in [Kinds -> Seq(Pieces)], NEW b \in [Kinds -> Seq(Pieces)],
         \A k \in Kinds : Whole(f[k]) /\ Written(b[k]),
         Apart(f, b)
  PROVE  LET g == [k \in Kinds |-> f[k] \o b[k]]
             e == [k \in Kinds |-> <<>>]
         IN  /\ g \in [Kinds -> Seq(Pieces)]
             /\ \A k \in Kinds : /\ Written(g[k])
                                 /\ Whole(b[k]) => Whole(g[k])
                                 /\ RecordsIn(g[k]) = RecordsIn(f[k]) \cup RecordsIn(b[k])
             /\ AllRecords(g) = AllRecords(f) \cup AllRecords(b)
             /\ Apart(g, e)
<1> DEFINE g == [k \in Kinds |-> f[k] \o b[k]]
           e == [k \in Kinds |-> <<>>]
<1>1. ASSUME NEW k \in Kinds
      PROVE  /\ g[k] \in Seq(Pieces) /\ Written(g[k])
             /\ Whole(b[k]) => Whole(g[k])
             /\ RecordsIn(g[k]) = RecordsIn(f[k]) \cup RecordsIn(b[k])
             /\ Once(g[k])
  <2>1. g[k] = f[k] \o b[k] /\ Whole(f[k]) /\ Written(b[k])
    OBVIOUS
  <2>2. Once(f[k]) /\ Once(b[k]) /\ RecordsIn(f[k]) \cap RecordsIn(b[k]) = {}
    BY AllRecordsAre DEF Apart
  <2> HIDE DEF g
  <2>3. Once(f[k] \o b[k])
    BY <2>1, <2>2, JoinedOnce
  <2>4. /\ Written(f[k] \o b[k])
        /\ Whole(b[k]) => Whole(f[k] \o b[k])
        /\ RecordsIn(f[k] \o b[k]) = RecordsIn(f[k]) \cup RecordsIn(b[k])
    BY <2>1, JoinedWritten
  <2>5. f[k] \o b[k] \in Seq(Pieces)
    BY <2>4 DEF Written
  <2> QED
    BY <2>1, <2>3, <2>4, <2>5
<1>2. g \in [Kinds -> Seq(Pieces)]
  BY <1>1
<1> HIDE DEF g
<1>3. "success" \in Kinds /\ "notFound" \in Kinds
  BY DEF Kinds
<1>4. AllRecords(g) = AllRecords(f) \cup AllRecords(b)
  BY <1>1, <1>3, AllRecordsAre
<1>5. \A k \in Kinds : e[k] = <<>> /\ RecordsIn(e[k]) = {} /\ Once(e[k])
  BY EmptyWhole DEF Once
<1> HIDE DEF e
<1>6. Apart(g, e)
  <2>1. RecordsIn(g["success"]) \cap RecordsIn(g["notFound"]) = {}
    <3>1. /\ RecordsIn(f["success"]) \cap RecordsIn(f["notFound"]) = {}
          /\ RecordsIn(b["success"]) \cap RecordsIn(b["notFound"]) = {}
          /\ RecordsIn(f["success"]) \cap RecordsIn(b["notFound"]) = {}
          /\ RecordsIn(b["success"]) \cap RecordsIn(f["notFound"]) = {}
      BY AllRecordsAre DEF Apart
    <3> QED
      BY <1>1, <1>3, <3>1
  <2>2. AllRecords(e) = {}
    BY <1>3, <1>5, AllRecordsAre
  <2> QED
    BY <1>1, <1>3, <1>5, <2>1, <2>2 DEF Apart
<1> QED
  BY <1>1, <1>2, <1>4, <1>6 DEF g, e

(* Repairing a journal loses no record and adds none.                      *)
LEMMA RepairedOnce ==
  ASSUME NEW s, Written(s), Once(s)
  PROVE  Once(Repaired(s))
BY RepairedWritten DEF Once

LEMMA InitBatch == Init => BatchInv
<1> SUFFICES ASSUME Init PROVE BatchInv
  OBVIOUS
<1> USE DEF Init
<1>1. \A k \in Kinds : file[k] = <<>> /\ buffer[k] = <<>>
  OBVIOUS
<1>2. "success" \in Kinds /\ "notFound" \in Kinds
  BY DEF Kinds
<1>3. Written(<<>>) /\ Whole(<<>>) /\ RecordsIn(<<>>) = {} /\ Once(<<>>)
  BY EmptyWhole DEF Whole, Once
<1>4. JournalTypes
  <2>1. <<>> \in Seq(Pieces)
    OBVIOUS
  <2> QED
    BY <2>1 DEF JournalTypes
<1>5. AllRecords(file) = {} /\ AllRecords(buffer) = {}
  BY <1>1, <1>2, <1>3, AllRecordsAre
<1>6. LinesInv
  BY <1>1, <1>3 DEF LinesInv
<1>7. Apart(file, buffer)
  BY <1>1, <1>2, <1>3, <1>5 DEF Apart
<1>8. KnownInv /\ FinalInv
  BY DEF KnownInv, FinalInv
<1> QED
  BY <1>4, <1>5, <1>6, <1>7, <1>8 DEF BatchInv

-----------------------------------------------------------------------------
(* What the operations on journals keep.                                   *)

LEMMA TwoKinds == "success" \in Kinds /\ "notFound" \in Kinds
BY DEF Kinds

LEMMA OpenIsWhole ==
  ASSUME LinesInv, pc \in {"loaded", "open"}
  PROVE  \A k \in Kinds : Whole(file[k])
BY DEF LinesInv, Kinds

(* Loading a journal.                                                      *)
LEMMA LoadKeeps ==
  ASSUME BatchInv, pc # "open", NEW k \in Kinds,
         file' = [file EXCEPT ![k] = Repaired(@)], buffer' = buffer
  PROVE  /\ file' \in [Kinds -> Seq(Pieces)]
         /\ Whole(file'[k])
         /\ \A l \in Kinds : /\ Written(file'[l])
                             /\ RecordsIn(file'[l]) = RecordsIn(file[l])
                             /\ l # k => file'[l] = file[l]
         /\ AllRecords(file') = AllRecords(file)
         /\ Apart(file', buffer')
<1> USE DEF BatchInv
<1>1. file \in [Kinds -> Seq(Pieces)] /\ \A l \in Kinds : Written(file[l]) /\ Once(file[l])
  BY DEF JournalTypes, LinesInv, Apart
<1>2. /\ Whole(Repaired(file[k])) /\ Once(Repaired(file[k]))
      /\ RecordsIn(Repaired(file[k])) = RecordsIn(file[k])
  BY <1>1, RepairedWritten, RepairedOnce
<1>3. Repaired(file[k]) \in Seq(Pieces) /\ Written(Repaired(file[k]))
  BY <1>2 DEF Whole, Written
<1>4. file'[k] = Repaired(file[k]) /\ \A l \in Kinds : l # k => file'[l] = file[l]
  BY <1>1
<1>5. file' \in [Kinds -> Seq(Pieces)]
  BY <1>1, <1>3
<1>6. ASSUME NEW l \in Kinds
      PROVE  Written(file'[l]) /\ RecordsIn(file'[l]) = RecordsIn(file[l]) /\ Once(file'[l])
  <2>1. CASE l = k
    BY <1>2, <1>3, <1>4, <2>1
  <2>2. CASE l # k
    BY <1>1, <1>4, <2>2
  <2> QED
    BY <2>1, <2>2
<1>7. AllRecords(file') = AllRecords(file)
  BY <1>6, AllRecordsAre, TwoKinds
<1>8. Apart(file', buffer')
  BY <1>6, <1>7, TwoKinds DEF Apart
<1> QED
  BY <1>2, <1>4, <1>5, <1>6, <1>7, <1>8

(* A sync.                                                                 *)
LEMMA FlushKeeps ==
  ASSUME BatchInv, pc = "open", NEW b \in [Kinds -> Seq(Pieces)],
         \A k \in Kinds : Whole(b[k]), Apart(file, b), Flush(b)
  PROVE  /\ file' \in [Kinds -> Seq(Pieces)] /\ buffer' \in [Kinds -> Seq(Pieces)]
         /\ sinceSync' = 0
         /\ \A k \in Kinds : Whole(file'[k]) /\ buffer'[k] = <<>>
         /\ AllRecords(file') = AllRecords(file) \cup AllRecords(b)
         /\ AllRecords(buffer') = {}
         /\ Apart(file', buffer')
         /\ synced' \in SUBSET Ids /\ synced' \subseteq AllRecords(file')
<1>1. /\ file \in [Kinds -> Seq(Pieces)] /\ synced \in SUBSET Ids
      /\ synced \subseteq AllRecords(file)
      /\ \A k \in Kinds : Whole(file[k]) /\ Written(b[k])
  BY OpenIsWhole DEF BatchInv, JournalTypes, Whole
<1>2. /\ file' = [k \in Kinds |-> file[k] \o b[k]]
      /\ buffer' = [k \in Kinds |-> <<>>]
      /\ sinceSync' = 0
      /\ synced' = synced \cup AllRecords(b)
  BY DEF Flush, AllRecords
<1>3. /\ file' \in [Kinds -> Seq(Pieces)]
      /\ \A k \in Kinds : Whole(b[k]) => Whole(file'[k])
      /\ AllRecords(file') = AllRecords(file) \cup AllRecords(b)
      /\ Apart(file', buffer')
  BY <1>1, <1>2, WrittenOut
<1>4. \A k \in Kinds : buffer'[k] = <<>>
  BY <1>2
<1>5. buffer' \in [Kinds -> Seq(Pieces)]
  <2>1. <<>> \in Seq(Pieces)
    OBVIOUS
  <2> QED
    BY <1>2, <2>1
<1>6. AllRecords(buffer') = {}
  BY <1>4, AllRecordsAre, TwoKinds, EmptyWhole
<1>7. AllRecords(b) \subseteq Ids
  BY DEF AllRecords, RecordsIn
<1> QED
  BY <1>1, <1>2, <1>3, <1>4, <1>5, <1>6, <1>7

(* A record goes behind what is buffered, and is nowhere else.             *)
LEMMA RecordBuffered ==
  ASSUME BatchInv, pc = "open", NEW i \in pending, NEW k \in Kinds,
         NEW b, b = [buffer EXCEPT ![k] = @ \o <<Body(i), Newline>>]
  PROVE  /\ b \in [Kinds -> Seq(Pieces)]
         /\ \A l \in Kinds : Whole(b[l])
         /\ AllRecords(b) = AllRecords(buffer) \cup {i}
         /\ Apart(file, b)
<1> USE DEF BatchInv
<1> DEFINE line == <<Body(i), Newline>>
<1>1. /\ i \in Ids /\ i \notin AllRecords(file) /\ i \notin AllRecords(buffer)
      /\ \A l \in Kinds : i \notin RecordsIn(file[l]) /\ i \notin RecordsIn(buffer[l])
  BY AllRecordsAre DEF JournalTypes, KnownInv, Dealt
<1>2. Whole(line) /\ Written(line) /\ RecordsIn(line) = {i}
  BY <1>1, OneRecord DEF Whole
<1>3. Once(line)
  <2>1. line \in Seq(Pieces) /\ DOMAIN line = 1 .. 2 /\ line[2] = Newline
    <3>1. Len(line) = 2
      OBVIOUS
    <3> QED
      BY <1>2, <3>1 DEF Written
  <2> HIDE DEF line
  <2>2. \A j \in Ids, n \in 1 .. 2 : line[n] = Body(j) => n = 1
    BY <2>1, PiecesDiffer
  <2> QED
    BY <2>1, <2>2 DEF Once
<1> HIDE DEF line
<1>4. /\ buffer \in [Kinds -> Seq(Pieces)]
      /\ \A l \in Kinds : Whole(buffer[l]) /\ Once(buffer[l])
  BY DEF JournalTypes, LinesInv, Apart
<1>5. b[k] = buffer[k] \o line /\ \A l \in Kinds : l # k => b[l] = buffer[l]
  BY <1>4 DEF line
<1>6. Whole(b[k]) /\ RecordsIn(b[k]) = RecordsIn(buffer[k]) \cup {i}
  <2>1. Whole(buffer[k])
    BY <1>4
  <2>2. /\ Whole(buffer[k] \o line)
        /\ RecordsIn(buffer[k] \o line) = RecordsIn(buffer[k]) \cup RecordsIn(line)
    BY <1>2, <2>1, JoinedWritten
  <2> QED
    BY <1>2, <1>5, <2>2
<1>7. Once(b[k])
  BY <1>1, <1>2, <1>3, <1>4, <1>5, JoinedOnce
<1>8. b \in [Kinds -> Seq(Pieces)]
  <2>1. buffer[k] \o line \in Seq(Pieces)
    BY <1>5, <1>6 DEF Whole, Written
  <2> QED
    BY <1>4, <2>1 DEF line
<1>9. \A l \in Kinds : Whole(b[l]) /\ Once(b[l])
  BY <1>4, <1>5, <1>6, <1>7
<1>10. /\ AllRecords(b) = AllRecords(buffer) \cup {i}
       /\ RecordsIn(b["success"]) \cap RecordsIn(b["notFound"]) = {}
  <2>1. RecordsIn(buffer["success"]) \cap RecordsIn(buffer["notFound"]) = {}
    BY DEF Apart
  <2> DEFINE S == RecordsIn(buffer["success"])
             N == RecordsIn(buffer["notFound"])
  <2>2. AllRecords(buffer) = S \cup N /\ i \notin S \cup N
    BY <1>1, AllRecordsAre
  <2>3. AllRecords(b) = RecordsIn(b["success"]) \cup RecordsIn(b["notFound"])
    BY AllRecordsAre
  <2>4. \/ RecordsIn(b["success"]) = S \cup {i} /\ RecordsIn(b["notFound"]) = N
        \/ RecordsIn(b["success"]) = S /\ RecordsIn(b["notFound"]) = N \cup {i}
    <3>1. CASE k = "success"
      <4>1. b["notFound"] = buffer["notFound"]
        BY <1>5, <3>1, TwoKinds
      <4> QED
        BY <1>6, <3>1, <4>1
    <3>2. CASE k = "notFound"
      <4>1. b["success"] = buffer["success"]
        BY <1>5, <3>2, TwoKinds
      <4> QED
        BY <1>6, <3>2, <4>1
    <3> QED
      BY <3>1, <3>2 DEF Kinds
  <2> HIDE DEF S, N
  <2>5. S \cap N = {}
    BY <2>1 DEF S, N
  <2> QED
    BY <2>2, <2>3, <2>4, <2>5
<1>11. Apart(file, b)
  BY <1>1, <1>9, <1>10 DEF Apart
<1> QED
  BY <1>8, <1>9, <1>10, <1>11

(* What a kill keeps of the buffers.                                       *)
LEMMA KeptApart ==
  ASSUME ~CutAtNewline, BatchInv, NEW kept,
         \A k \in Kinds : kept[k] \in Survivors(buffer[k])
  PROVE  /\ \A k \in Kinds : Written(kept[k])
         /\ AllRecords(kept) \subseteq AllRecords(buffer)
         /\ Apart(file, kept)
<1>1. ASSUME NEW k \in Kinds
      PROVE  /\ Written(kept[k])
             /\ RecordsIn(kept[k]) \subseteq RecordsIn(buffer[k])
             /\ Once(kept[k])
  <2> DEFINE p == kept[k]
             s == buffer[k]
  <2>1. Whole(s) /\ Once(s) /\ p \in Survivors(s)
    BY DEF BatchInv, LinesInv, Apart
  <2> HIDE DEF p, s
  <2>2. /\ Written(p)
        /\ \A n \in DOMAIN p, i \in Ids : p[n] = Body(i) => n \in DOMAIN s /\ s[n] = Body(i)
    BY <2>1, SurvivorsWritten
  <2>3. RecordsIn(p) \subseteq RecordsIn(s)
    BY <2>2, RecordsAt
  <2>4. Once(p)
    BY <2>1, <2>2 DEF Once
  <2> QED
    BY <2>2, <2>3, <2>4 DEF p, s
<1>2. AllRecords(kept) \subseteq AllRecords(buffer)
  BY <1>1, AllRecordsAre, TwoKinds
<1>3. Apart(file, kept)
  BY <1>1, <1>2, TwoKinds DEF BatchInv, Apart
<1> QED
  BY <1>1, <1>2, <1>3

-----------------------------------------------------------------------------
(* Each step keeps the invariant, every record in the files and every row. *)

Kept ==
  /\ BatchInv'
  /\ AllRecords(file) \subseteq AllRecords(file')
  /\ errorLog \subseteq errorLog'

LEMMA LoadStepKeeps ==
  ASSUME BatchInv, LoadSuccess \/ LoadNotFound
  PROVE  Kept
<1> USE DEF BatchInv
<1>1. PICK k \in Kinds :
        /\ pc = IF k = "success" THEN "down" ELSE "half"
        /\ pc' = IF k = "success" THEN "half" ELSE "loaded"
        /\ file' = [file EXCEPT ![k] = Repaired(@)]
        /\ pending' = (IF k = "success" THEN Ids ELSE pending) \ RecordsOf(file[k])
        /\ UNCHANGED <<buffer, sinceSync, errorLog, final, finalized, synced>>
  <2>1. CASE LoadSuccess
    BY <2>1, TwoKinds DEF LoadSuccess, Lacking, sealing
  <2>2. CASE LoadNotFound
    BY <2>2, TwoKinds DEF LoadNotFound, Lacking, sealing
  <2> QED
    BY <2>1, <2>2
<1>2. pc # "open" /\ \A l \in Kinds : Written(file[l]) /\ buffer[l] = <<>>
  BY <1>1 DEF LinesInv
<1>3. /\ file' \in [Kinds -> Seq(Pieces)]
      /\ Whole(file'[k])
      /\ \A l \in Kinds : /\ Written(file'[l])
                          /\ RecordsIn(file'[l]) = RecordsIn(file[l])
                          /\ l # k => file'[l] = file[l]
      /\ AllRecords(file') = AllRecords(file)
      /\ Apart(file', buffer')
  BY <1>1, <1>2, LoadKeeps
<1>4. RecordsOf(file[k]) = RecordsIn(file[k]) /\ RecordsIn(file[k]) \subseteq Ids
  BY <1>2, RecordsOfWritten DEF RecordsIn
<1>5. JournalTypes'
  BY <1>1, <1>3, <1>4 DEF JournalTypes
<1>6. LinesInv'
  <2>1. \A l \in Kinds : Written(file'[l]) /\ Whole(buffer'[l]) /\ buffer'[l] = <<>>
    BY <1>1, <1>2, <1>3 DEF LinesInv
  <2>2. k = "notFound" => Whole(file'["success"])
    BY <1>1, <1>3, TwoKinds DEF LinesInv
  <2> QED
    BY <1>1, <1>3, <2>1, <2>2 DEF LinesInv, Kinds
<1>7. KnownInv'
  <2>1. AllRecords(buffer') = {}
    BY <1>1, <1>2, AllRecordsAre, TwoKinds, EmptyWhole
  <2>2. CASE k = "success"
    BY <1>1, <1>3, <1>4, <2>2 DEF KnownInv
  <2>3. CASE k = "notFound"
    <3>1. pending' = Ids \ (RecordsIn(file["notFound"]) \cup RecordsIn(file["success"]))
      BY <1>1, <1>4, <2>3 DEF KnownInv
    <3>2. Dealt' = RecordsIn(file["notFound"]) \cup RecordsIn(file["success"])
      BY <1>3, <2>1, AllRecordsAre DEF Dealt
    <3> QED
      BY <1>1, <2>3, <3>1, <3>2 DEF KnownInv
  <2> QED
    BY <2>2, <2>3 DEF Kinds
<1>8. ~finalized
  BY <1>1 DEF FinalInv, LoadSuccess, LoadNotFound
<1>9. FinalInv' /\ synced' \subseteq AllRecords(file')
  BY <1>1, <1>3, <1>8 DEF FinalInv
<1> QED
  BY <1>1, <1>3, <1>5, <1>6, <1>7, <1>9 DEF Kept

LEMMA RecordKeeps ==
  ASSUME BatchInv, NEW i \in Ids, NEW k \in Kinds, Record(i, k)
  PROVE  Kept
<1> USE DEF BatchInv
<1> DEFINE b == [buffer EXCEPT ![k] = @ \o <<Body(i), Newline>>]
<1>1. /\ pc = "open" /\ i \in pending
      /\ pending' = pending \ {i}
      /\ \/ Flush(b)
         \/ buffer' = b /\ sinceSync' = sinceSync + 1 /\ UNCHANGED <<file, synced>>
      /\ UNCHANGED <<pc, errorLog, final, finalized>>
  BY DEF Record, sealing
<1>2. /\ b \in [Kinds -> Seq(Pieces)]
      /\ \A l \in Kinds : Whole(b[l])
      /\ AllRecords(b) = AllRecords(buffer) \cup {i}
      /\ Apart(file, b)
  BY <1>1, RecordBuffered
<1> HIDE DEF b
<1>3. \A l \in Kinds : Whole(file[l])
  BY <1>1, OpenIsWhole
<1>4. /\ file' \in [Kinds -> Seq(Pieces)] /\ buffer' \in [Kinds -> Seq(Pieces)]
      /\ sinceSync' \in Nat
      /\ \A l \in Kinds : Whole(file'[l]) /\ Whole(buffer'[l])
      /\ AllRecords(file) \subseteq AllRecords(file')
      /\ AllRecords(file') \cup AllRecords(buffer') = AllRecords(file) \cup AllRecords(b)
      /\ Apart(file', buffer')
      /\ synced' \in SUBSET Ids /\ synced' \subseteq AllRecords(file')
  <2>1. CASE Flush(b)
    <3>1. /\ file' \in [Kinds -> Seq(Pieces)] /\ buffer' \in [Kinds -> Seq(Pieces)]
          /\ sinceSync' = 0
          /\ \A l \in Kinds : Whole(file'[l]) /\ buffer'[l] = <<>>
          /\ AllRecords(file') = AllRecords(file) \cup AllRecords(b)
          /\ AllRecords(buffer') = {}
          /\ Apart(file', buffer')
          /\ synced' \in SUBSET Ids /\ synced' \subseteq AllRecords(file')
      BY <1>1, <1>2, <2>1, FlushKeeps
    <3> QED
      BY <3>1, EmptyWhole
  <2>2. CASE buffer' = b /\ sinceSync' = sinceSync + 1 /\ UNCHANGED <<file, synced>>
    BY <1>2, <1>3, <2>2 DEF JournalTypes
  <2> QED
    BY <1>1, <2>1, <2>2
<1>5. Dealt' = Dealt \cup {i}
  BY <1>2, <1>4 DEF Dealt
<1>6. JournalTypes'
  BY <1>1, <1>4 DEF JournalTypes
<1>7. LinesInv'
  BY <1>1, <1>4, TwoKinds DEF LinesInv, Whole
<1>8. KnownInv' /\ FinalInv'
  BY <1>1, <1>5 DEF KnownInv, FinalInv
<1> QED
  BY <1>1, <1>4, <1>6, <1>7, <1>8 DEF Kept

LEMMA CloseKeeps ==
  ASSUME BatchInv, Close
  PROVE  Kept
<1> USE DEF BatchInv
<1>1. /\ pc = "open" /\ pc' = "down" /\ Flush(buffer) /\ pending' = {}
      /\ UNCHANGED <<errorLog, final, finalized>>
  BY DEF Close, sealing
<1>2. buffer \in [Kinds -> Seq(Pieces)] /\ \A k \in Kinds : Whole(buffer[k])
  BY DEF JournalTypes, LinesInv
<1>3. /\ file' \in [Kinds -> Seq(Pieces)] /\ buffer' \in [Kinds -> Seq(Pieces)]
      /\ sinceSync' = 0
      /\ \A k \in Kinds : Whole(file'[k]) /\ buffer'[k] = <<>>
      /\ AllRecords(file') = AllRecords(file) \cup AllRecords(buffer)
      /\ Apart(file', buffer')
      /\ synced' \in SUBSET Ids /\ synced' \subseteq AllRecords(file')
  BY <1>1, <1>2, FlushKeeps
<1>4. JournalTypes'
  BY <1>1, <1>3 DEF JournalTypes
<1>5. LinesInv'
  BY <1>1, <1>3, EmptyWhole DEF LinesInv, Whole
<1>6. KnownInv' /\ FinalInv'
  BY <1>1 DEF KnownInv, FinalInv
<1> QED
  BY <1>1, <1>3, <1>4, <1>5, <1>6 DEF Kept

(* Giving an ID up touches no journal of the checkpoint.                   *)
LEMMA GiveUpKeeps ==
  ASSUME BatchInv, NEW i \in Ids, GiveUp(i)
  PROVE  Kept
<1> USE DEF BatchInv
<1>1. /\ pc = "open" /\ pending' = pending \ {i} /\ errorLog' = errorLog \cup {i}
      /\ UNCHANGED <<pc, file, buffer, sinceSync, final, finalized, synced>>
  BY DEF GiveUp, journals, sealing
<1>2. JournalTypes' /\ LinesInv'
  BY <1>1 DEF JournalTypes, LinesInv
<1>3. Dealt' = Dealt
  BY <1>1 DEF Dealt
<1>4. KnownInv' /\ FinalInv'
  BY <1>1, <1>3 DEF KnownInv, FinalInv
<1> QED
  BY <1>1, <1>2, <1>4 DEF Kept

(* finalize reads back all that was recorded.                              *)
LEMMA FinalizeKeeps ==
  ASSUME BatchInv, Finalize
  PROVE  Kept /\ Ids \subseteq AllRecords(file') \cup errorLog'
<1> USE DEF BatchInv
<1> DEFINE g == [k \in Kinds |-> file[k] \o buffer[k]]
<1>1. /\ pc = "open" /\ pc' = "down" /\ pending = {} /\ pending' = {}
      /\ errorLog' = errorLog
      /\ file' = [k \in Kinds |-> Repaired(g[k])]
      /\ buffer' = [k \in Kinds |-> <<>>]
      /\ sinceSync' = 0
      /\ synced' = synced \cup AllRecords(buffer)
      /\ final' = RecordsOf(g["success"]) /\ finalized' = TRUE
  BY BufferedIsAll, TwoKinds DEF Finalize, FinalProducts
<1>2. /\ file \in [Kinds -> Seq(Pieces)] /\ buffer \in [Kinds -> Seq(Pieces)]
      /\ \A k \in Kinds : Whole(file[k]) /\ Whole(buffer[k]) /\ Written(buffer[k])
  BY <1>1, OpenIsWhole DEF JournalTypes, LinesInv, Whole
<1>3. /\ \A k \in Kinds : Whole(g[k])
      /\ AllRecords(g) = AllRecords(file) \cup AllRecords(buffer)
      /\ Apart(g, buffer')
  BY <1>1, <1>2, WrittenOut
<1> HIDE DEF g
<1>4. \A k \in Kinds : Written(g[k]) /\ Once(g[k])
  BY <1>3 DEF Whole, Apart
<1>5. ASSUME NEW k \in Kinds
      PROVE  /\ Whole(file'[k]) /\ Once(file'[k])
             /\ RecordsIn(file'[k]) = RecordsIn(g[k])
  <2>1. file'[k] = Repaired(g[k])
    BY <1>1
  <2> QED
    BY <1>4, <2>1, RepairedWritten, RepairedOnce
<1>6. AllRecords(file') = AllRecords(g)
  BY <1>5, AllRecordsAre, TwoKinds
<1>7. Apart(file', buffer')
  BY <1>3, <1>5, <1>6, TwoKinds DEF Apart
<1>8. /\ Ids \subseteq AllRecords(file') \cup errorLog
      /\ AllRecords(file') \subseteq Ids /\ AllRecords(buffer) \subseteq Ids
  BY <1>1, <1>3, <1>6 DEF KnownInv, Dealt, AllRecords, RecordsIn
<1>9. final' = RecordsIn(file'["success"])
  BY <1>1, <1>4, <1>5, RecordsOfWritten, TwoKinds
<1>10. \A k \in Kinds : buffer'[k] = <<>>
  BY <1>1
<1>11. JournalTypes'
  <2>1. \A k \in Kinds : file'[k] \in Seq(Pieces) /\ buffer'[k] \in Seq(Pieces)
    BY <1>5, <1>10, EmptyWhole DEF Whole, Written
  <2>2. file' \in [Kinds -> Seq(Pieces)]
    BY <1>1, <2>1
  <2>3. buffer' \in [Kinds -> Seq(Pieces)]
    BY <1>1, <2>1
  <2>4. final' \in SUBSET Ids
    BY <1>9 DEF RecordsIn
  <2> QED
    BY <1>1, <1>8, <2>2, <2>3, <2>4 DEF JournalTypes
<1>12. LinesInv'
  BY <1>1, <1>5, <1>10, EmptyWhole DEF LinesInv, Whole
<1>13. KnownInv'
  BY <1>1 DEF KnownInv
<1>14. FinalInv'
  BY <1>1, <1>8, <1>9 DEF FinalInv
<1>15. synced' \subseteq AllRecords(file') /\ AllRecords(file) \subseteq AllRecords(file')
  BY <1>1, <1>3, <1>6
<1> QED
  BY <1>1, <1>7, <1>8, <1>11, <1>12, <1>13, <1>14, <1>15 DEF Kept

(* A kill loses and tears only what no sync has covered.                   *)
LEMMA KillKeeps ==
  ASSUME ~CutAtNewline, BatchInv, Kill
  PROVE  Kept
<1> USE DEF BatchInv
<1>1. PICK kept \in [Kinds -> UNION {Survivors(buffer[k]) : k \in Kinds}] :
        /\ \A k \in Kinds : kept[k] \in Survivors(buffer[k])
        /\ file' = [k \in Kinds |-> file[k] \o kept[k]]
  BY DEF Kill
<1>2. /\ pc # "down" /\ pc' = "down" /\ pending' = {} /\ sinceSync' = 0
      /\ buffer' = [k \in Kinds |-> <<>>]
      /\ UNCHANGED <<errorLog, final, finalized, synced>>
  BY DEF Kill, sealing
<1>3. /\ \A k \in Kinds : Written(kept[k])
      /\ AllRecords(kept) \subseteq AllRecords(buffer)
      /\ Apart(file, kept)
  BY <1>1, KeptApart
<1>4. /\ file \in [Kinds -> Seq(Pieces)]
      /\ kept \in [Kinds -> Seq(Pieces)]
  <2>1. \A k \in Kinds : kept[k] \in Seq(Pieces)
    BY <1>3 DEF Written
  <2> QED
    BY <1>1, <2>1 DEF JournalTypes
<1>5. /\ file' \in [Kinds -> Seq(Pieces)]
      /\ \A k \in Kinds : Written(file'[k])
      /\ AllRecords(file) \subseteq AllRecords(file')
      /\ Apart(file', buffer')
  <2>1. CASE pc = "open"
    <3>1. \A k \in Kinds : Whole(file[k])
      BY <2>1, OpenIsWhole
    <3>2. /\ file' \in [Kinds -> Seq(Pieces)]
          /\ \A k \in Kinds : Written(file'[k])
          /\ AllRecords(file') = AllRecords(file) \cup AllRecords(kept)
          /\ Apart(file', buffer')
      BY <1>1, <1>2, <1>3, <1>4, <3>1, WrittenOut
    <3> QED
      BY <3>2
  <2>2. CASE pc # "open"
    <3>1. \A k \in Kinds : buffer[k] = <<>>
      BY <2>2 DEF LinesInv
    <3>2. \A k \in Kinds : kept[k] = <<>>
      <4> SUFFICES ASSUME NEW k \in Kinds PROVE kept[k] = <<>>
        OBVIOUS
      <4>1. Len(kept[k]) <= Len(<<>>) /\ kept[k] \in Seq(Pieces)
        BY <1>1, <1>4, <3>1, EmptyWhole, SurvivorsWritten
      <4> QED
        BY <4>1
    <3>3. \A k \in Kinds : file'[k] = file[k]
      <4> SUFFICES ASSUME NEW k \in Kinds PROVE file'[k] = file[k]
        OBVIOUS
      <4>1. file[k] \in Seq(Pieces) /\ file'[k] = file[k] \o <<>>
        BY <1>1, <1>4, <3>2
      <4> QED
        BY <4>1, ConcatEmptySeq
    <3>4. file' = file
      BY <1>1, <1>4, <3>3
    <3>5. buffer' = buffer
      BY <1>2, <3>1 DEF JournalTypes
    <3> QED
      BY <1>4, <3>4, <3>5 DEF LinesInv
  <2> QED
    BY <2>1, <2>2
<1>6. \A k \in Kinds : buffer'[k] = <<>>
  BY <1>2
<1>7. JournalTypes'
  <2>1. <<>> \in Seq(Pieces)
    OBVIOUS
  <2>2. buffer' \in [Kinds -> Seq(Pieces)]
    BY <1>2, <2>1
  <2> QED
    BY <1>2, <1>5, <2>2 DEF JournalTypes
<1>8. LinesInv'
  BY <1>2, <1>5, <1>6, EmptyWhole DEF LinesInv
<1>9. KnownInv' /\ FinalInv'
  BY <1>2 DEF KnownInv, FinalInv
<1> QED
  BY <1>2, <1>5, <1>7, <1>8, <1>9 DEF Kept

LEMMA StutterKeeps ==
  ASSUME BatchInv, UNCHANGED <<journals, errorLog, sealing, synced>>,
         UNCHANGED <<pc, pending>> \/ Open
  PROVE  Kept
<1> USE DEF BatchInv, journals, sealing
<1>1. Open => pc = "loaded" /\ pc' = "open" /\ UNCHANGED <<file, buffer, pending, errorLog, final, finalized>>
  BY DEF Open
<1>2. LinesInv' /\ KnownInv' /\ FinalInv'
  BY <1>1 DEF LinesInv, KnownInv, Dealt, FinalInv, Open
<1>3. JournalTypes'
  BY <1>1 DEF JournalTypes, Open
<1> QED
  BY <1>2, <1>3 DEF Kept

LEMMA StepKeeps ==
  ASSUME ~CutAtNewline, BatchInv, [Next]_vars
  PROVE  Kept
<1>1. CASE Open
  BY <1>1, StutterKeeps DEF Open
<1>2. CASE Skipped \/ UNCHANGED vars
  BY <1>2, StutterKeeps DEF Skipped, vars
<1> QED
  BY <1>1, <1>2, LoadStepKeeps, RecordKeeps, GiveUpKeeps, CloseKeeps, FinalizeKeeps, KillKeeps DEF Next

-----------------------------------------------------------------------------
(* If no kill falls between a record and its newline: the journals hold    *)
(* whole lines but for a torn last one until they are loaded, an attempt   *)
(* has still to deal with what it neither recorded nor gave up, no record  *)
(* is at two places, and the final file holds the success journal.         *)
THEOREM BatchInvariant ==
  ASSUME ~CutAtNewline
  PROVE  Spec => []BatchInv
<1>1. BatchInv /\ [Next]_vars => BatchInv'
  BY StepKeeps DEF Kept
<1> QED
  BY <1>1, InitBatch, PTL DEF Spec

(* No sync is ever undone.                                                 *)
THEOREM SyncedIsKept ==
  ASSUME ~CutAtNewline
  PROVE  Spec => []SyncedSurvives
<1>1. BatchInv => SyncedSurvives
  BY RecoveredIsAll DEF BatchInv, SyncedSurvives
<1> QED
  BY <1>1, BatchInvariant, PTL

(* No record is ever glued to another.                                     *)
THEOREM LinesStayWhole ==
  ASSUME ~CutAtNewline
  PROVE  Spec => []AppendsToWholeLines
<1>1. ASSUME BatchInv, pc = "open", NEW k \in Kinds
      PROVE  /\ file[k] # <<>> => file[k][Len(file[k])] = Newline
             /\ \A n \in LineStarts(file[k]) : Parses(LineAt(file[k], n))
  <2> DEFINE s == file[k]
  <2>1. Whole(s) /\ Written(s)
    BY <1>1, OpenIsWhole DEF BatchInv, Whole
  <2> HIDE DEF s
  <2>2. s # <<>> => s[Len(s)] = Newline
    <3>1. s \in Seq(Pieces) /\ ~Odd(Len(s))
      BY <2>1 DEF Whole, Written
    <3>2. s # <<>> => Len(s) \in DOMAIN s
      BY <3>1
    <3> QED
      BY <2>1, <3>1, <3>2 DEF Written
  <2>3. ASSUME NEW n \in LineStarts(s)
        PROVE  Parses(LineAt(s, n))
    <3>1. n \in DOMAIN s /\ Odd(n) /\ LineAt(s, n) = <<s[n]>>
      BY <2>1, LinesOfWritten
    <3> QED
      BY <2>1, <3>1, WholeBodies DEF Parses
  <2> QED
    BY <2>2, <2>3 DEF s
<1>2. BatchInv => AppendsToWholeLines
  BY <1>1 DEF AppendsToWholeLines
<1> QED
  BY <1>2, BatchInvariant, PTL

(* No ID is checkpointed twice, in this or any later attempt.              *)
THEOREM RecordsAreUnique ==
  ASSUME ~CutAtNewline
  PROVE  Spec => []RecordedOnce
<1>1. ASSUME BatchInv, NEW i \in Ids
      PROVE  LET copies(k) == {n \in DOMAIN file[k] : file[k][n] = Body(i)}
             IN  Cardinality(copies("success")) + Cardinality(copies("notFound")) <= 1
  <2> DEFINE copies(k) == {n \in DOMAIN file[k] : file[k][n] = Body(i)}
  <2>1. \A k \in Kinds : \A m, n \in copies(k) : m = n
    BY <1>1 DEF BatchInv, Apart, Once
  <2>2. copies("success") = {} \/ copies("notFound") = {}
    BY <1>1, RecordsAt DEF BatchInv, Apart
  <2> HIDE DEF copies
  <2>3. Cardinality({}) = 0
    BY FS_EmptySet
  <2>4. ASSUME NEW k \in Kinds
        PROVE  Cardinality(copies(k)) = 0 \/ Cardinality(copies(k)) = 1
    <3>1. CASE copies(k) = {}
      BY <2>3, <3>1
    <3>2. CASE copies(k) # {}
      <4>1. PICK n : copies(k) = {n}
        BY <2>1, <3>2
      <4> QED
        BY <4>1, FS_Singleton
    <3> QED
      BY <3>1, <3>2
  <2>5. Cardinality(copies("success")) + Cardinality(copies("notFound")) <= 1
    BY <2>2, <2>3, <2>4, TwoKinds
  <2> QED
    BY <2>5 DEF copies
<1>2. BatchInv => RecordedOnce
  BY <1>1 DEF RecordedOnce
<1> QED
  BY <1>2, BatchInvariant, PTL

(* The final file is the success journal, and an ID that is in neither     *)
(* journal was given up as an error.                                       *)
THEOREM FinalIsComplete ==
  ASSUME ~CutAtNewline
  PROVE  Spec => []FinalHoldsProducts
<1>1. ASSUME BatchInv, finalized
      PROVE  /\ final = RecordsOf(file["success"])
             /\ Ids \ final \subseteq RecordsOf(file["notFound"]) \cup errorLog
  <2>1. \A k \in Kinds : RecordsOf(file[k]) = RecordsIn(file[k])
    BY <1>1, RecordsOfWritten DEF BatchInv, LinesInv
  <2>2. final = RecordsIn(file["success"]) /\ Ids \subseteq AllRecords(file) \cup errorLog
    BY <1>1 DEF BatchInv, FinalInv
  <2> QED
    BY <2>1, <2>2, TwoKinds, AllRecordsAre
<1>2. BatchInv => FinalHoldsProducts
  BY <1>1 DEF FinalHoldsProducts
<1> QED
  BY <1>2, BatchInvariant, PTL

-----------------------------------------------------------------------------
(* A step on the lines of the journals is a step of the run directory.     *)
LEMMA StepImplements ==
  ASSUME ~CutAtNewline, BatchInv, [Next]_vars
  PROVE  [Run!Next]_(Run!runVars)
<1>1. Kept
  BY StepKeeps
<1>2. Recovered = AllRecords(file) /\ Recovered' = AllRecords(file')
  <2>1. (LinesInv => Recovered = AllRecords(file))'
    BY RecoveredIsAll, PTL
  <2> QED
    BY <1>1, <2>1, RecoveredIsAll DEF Kept, BatchInv
<1>3. CASE UNCHANGED <<file, errorLog, finalized>>
  <2>1. Recovered' = Recovered
    BY <1>2, <1>3
  <2> QED
    BY <1>3, <2>1 DEF Run!runVars
<1>4. CASE ~ UNCHANGED <<file, errorLog, finalized>>
  <2>1. ~finalized
    BY <1>4 DEF Next, LoadSuccess, LoadNotFound, Open, Record, GiveUp, Flush, Finalize, Close, Kill,
                Skipped, vars, journals, sealing, BatchInv, FinalInv
  <2>2. Recovered \subseteq Recovered' /\ Recovered' \in SUBSET Ids
    BY <1>1, <1>2 DEF Kept, AllRecords, RecordsIn
  <2>3. errorLog \subseteq errorLog' /\ errorLog' \in SUBSET Ids
    BY <1>1 DEF Kept, BatchInv, JournalTypes
  <2>4. Run!JournalsGrow
    BY <2>1, <2>2, <2>3 DEF Run!JournalsGrow, Run!SealedIds
  <2>5. CASE finalized' = finalized
    BY <2>4, <2>5 DEF Run!Next, Run!Advance
  <2>6. CASE finalized' # finalized
    <3>1. Finalize
      BY <2>6 DEF Next, LoadSuccess, LoadNotFound, Open, Record, GiveUp, Flush, Close, Kill,
                  Skipped, vars, journals, sealing
    <3>2. Ids \subseteq Recovered' \cup errorLog' /\ finalized'
      BY <1>2, <3>1, FinalizeKeeps DEF Finalize
    <3>3. Run!Seal("batch")
      BY <2>1, <2>4, <3>2 DEF Run!Seal
    <3> QED
      BY <3>3 DEF Run!Next
  <2> QED
    BY <2>5, <2>6
<1> QED
  BY <1>3, <1>4

(* What can be read back from the journals of a batch, and the IDs given   *)
(* up, are what a run directory promises: they only grow, cover the batch  *)
(* when it is finalized, and do not change after that.                     *)
THEOREM Implementation ==
  ASSUME ~CutAtNewline
  PROVE  Spec => ImplementsResumableRun
<1>1. Init => Run!Init
  <2> SUFFICES ASSUME Init PROVE Run!Init
    OBVIOUS
  <2>1. \A k \in Kinds : RecordsOf(file[k]) = {}
    BY DEF Init, RecordsOf, LineStarts
  <2>2. Recovered = {}
    BY <2>1 DEF Recovered
  <2> QED
    BY <2>2 DEF Init, Run!Init
<1>2. BatchInv /\ [Next]_vars => [Run!Next]_(Run!runVars)
  BY StepImplements
<1> QED
  BY <1>1, <1>2, BatchInvariant, PTL DEF Spec, ImplementsResumableRun, Run!Spec

=============================================================================
