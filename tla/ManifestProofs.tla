--------------------------- MODULE ManifestProofs ---------------------------
(***************************************************************************)
(* The shards of Partitioning and the attempts of Manifest, for any input  *)
(* file, batch size, number of browsers and number of attempts.            *)
(***************************************************************************)
EXTENDS Manifest, FiniteSetTheorems, SequenceTheorems, TLAPS

-----------------------------------------------------------------------------
(* The places of a finite set of numbers, in ascending order.              *)
Rank(places, n) == Cardinality({m \in places : m <= n})
Place(places, k) == CHOOSE n \in places : Cardinality({m \in places : m <= n}) = k

LEMMA RanksAscend ==
  ASSUME NEW places \in SUBSET Nat, IsFiniteSet(places)
  PROVE  /\ \A n \in places : Rank(places, n) \in 1 .. Cardinality(places)
         /\ \A m, n \in places : m < n => Rank(places, m) < Rank(places, n)
<1> DEFINE below(n) == {m \in places : m <= n}
<1>1. Cardinality(places) \in Nat
  BY FS_CardinalityType
<1>2. ASSUME NEW n \in places
      PROVE  /\ below(n) \in SUBSET places
             /\ IsFiniteSet(below(n))
             /\ Cardinality(below(n)) \in Nat
             /\ Cardinality(below(n)) <= Cardinality(places)
             /\ n \in below(n)
             /\ Cardinality(below(n)) # 0
  <2>1. below(n) \in SUBSET places /\ n \in below(n)
    OBVIOUS
  <2>2. IsFiniteSet(below(n)) /\ Cardinality(below(n)) <= Cardinality(places)
    BY <2>1, FS_Subset
  <2> HIDE DEF below
  <2>3. Cardinality(below(n)) \in Nat
    BY <2>2, FS_CardinalityType
  <2>4. Cardinality(below(n)) # 0
    BY <2>1, <2>2, FS_EmptySet
  <2> QED
    BY <2>1, <2>2, <2>3, <2>4
<1>3. ASSUME NEW m \in places, NEW n \in places, m < n
      PROVE  Cardinality(below(m)) < Cardinality(below(n))
  <2>0. m \in Nat /\ n \in Nat /\ \A q \in places : q \in Nat
    OBVIOUS
  <2>1. below(m) \in SUBSET below(n) /\ n \in below(n) /\ n \notin below(m)
    <3>1. \A q \in places : q <= m => q <= n
      BY <2>0, <1>3
    <3>2. n <= n /\ ~(n <= m)
      BY <2>0, <1>3
    <3> QED
      BY <3>1, <3>2
  <2> HIDE DEF below
  <2>2. Cardinality(below(m)) <= Cardinality(below(n)) /\ Cardinality(below(m)) # Cardinality(below(n))
    BY <2>1, <1>2, FS_Subset
  <2> QED
    BY <2>2, <1>2
<1> QED
  BY <1>1, <1>2, <1>3 DEF Rank

(* Each rank is that of one place.                                         *)
LEMMA PlacesAscend ==
  ASSUME NEW places \in SUBSET Nat, IsFiniteSet(places)
  PROVE  /\ Cardinality(places) \in Nat
         /\ \A k \in 1 .. Cardinality(places) :
              Place(places, k) \in places /\ Rank(places, Place(places, k)) = k
         /\ \A n \in places : /\ Rank(places, n) \in 1 .. Cardinality(places)
                              /\ Place(places, Rank(places, n)) = n
         /\ \A j, k \in 1 .. Cardinality(places) : j < k => Place(places, j) < Place(places, k)
<1> DEFINE size == Cardinality(places)
           ranks == [n \in places |-> Rank(places, n)]
<1>1. size \in Nat
  BY FS_CardinalityType
<1>2. \A n \in places : Rank(places, n) \in 1 .. size
  BY RanksAscend
<1>3. \A m, n \in places : m < n => Rank(places, m) < Rank(places, n)
  BY RanksAscend
<1>4. \A m, n \in places : Rank(places, m) = Rank(places, n) => m = n
  <2> SUFFICES ASSUME NEW m \in places, NEW n \in places, m # n
               PROVE  Rank(places, m) # Rank(places, n)
    OBVIOUS
  <2>1. m < n \/ n < m
    OBVIOUS
  <2>2. Rank(places, m) \in Int /\ Rank(places, n) \in Int
    BY <1>2
  <2> QED
    BY <2>1, <2>2, <1>3
<1>5. \A k \in 1 .. size : \E n \in places : Rank(places, n) = k
  <2> HIDE DEF size
  <2>1. ranks \in [places -> 1 .. size]
    BY <1>2
  <2>2. ranks \in Injection(places, 1 .. size)
    BY <2>1, <1>4 DEF Injection, IsInjective
  <2>3. IsFiniteSet(1 .. size) /\ Cardinality(1 .. size) = size
    BY <1>1, FS_Interval
  <2>4. ranks \in Surjection(places, 1 .. size)
    BY <2>2, <2>3, FS_Injection DEF size
  <2> QED
    BY <2>4 DEF Surjection
<1>6. ASSUME NEW k \in 1 .. size
      PROVE  Place(places, k) \in places /\ Rank(places, Place(places, k)) = k
  <2>1. \E n \in places : Rank(places, n) = k
    BY <1>5
  <2>2. Place(places, k) = CHOOSE n \in places : Rank(places, n) = k
    BY DEF Place, Rank
  <2> QED
    BY <2>1, <2>2
<1>7. ASSUME NEW n \in places PROVE Place(places, Rank(places, n)) = n
  BY <1>2, <1>4, <1>6
<1>8. ASSUME NEW j \in 1 .. size, NEW k \in 1 .. size, j < k
      PROVE  Place(places, j) < Place(places, k)
  <2>1. Place(places, j) \in Nat /\ Place(places, k) \in Nat
    BY <1>6
  <2>2. CASE Place(places, k) < Place(places, j)
    <3>1. Rank(places, Place(places, k)) < Rank(places, Place(places, j))
      BY <1>3, <1>6, <2>2
    <3>2. k < j
      BY <1>6, <3>1
    <3> QED
      BY <1>1, <1>8, <3>2
  <2>3. CASE Place(places, k) = Place(places, j)
    BY <1>6, <1>8, <2>3
  <2> QED
    BY <2>1, <2>2, <2>3
<1> QED
  BY <1>1, <1>2, <1>6, <1>7, <1>8

(* The places from one number to another are these numbers.                *)
LEMMA PlacesOfInterval ==
  ASSUME NEW a \in Nat, NEW b \in Nat, a <= b + 1
  PROVE  /\ Cardinality(a .. b) = b - a + 1
         /\ \A k \in 1 .. b - a + 1 : Place(a .. b, k) = a + k - 1
<1>1. IsFiniteSet(a .. b) /\ Cardinality(a .. b) = b - a + 1
  BY FS_Interval
<1>2. ASSUME NEW k \in 1 .. b - a + 1 PROVE Place(a .. b, k) = a + k - 1
  <2> DEFINE n == a + k - 1
  <2>1. n \in a .. b
    OBVIOUS
  <2>2. {m \in a .. b : m <= n} = a .. n
    OBVIOUS
  <2>3. Rank(a .. b, n) = k
    <3>1. n \in Int /\ ~(a > n) /\ n - a + 1 = k
      OBVIOUS
    <3>2. a \in Int
      OBVIOUS
    <3> HIDE DEF n
    <3>3. Cardinality(a .. n) = IF a > n THEN 0 ELSE n - a + 1
      BY <3>1, <3>2, FS_Interval
    <3> QED
      BY <2>2, <3>1, <3>3 DEF Rank
  <2>4. a .. b \in SUBSET Nat
    OBVIOUS
  <2> HIDE DEF n
  <2>5. Place(a .. b, Rank(a .. b, n)) = n
    BY <1>1, <2>1, <2>4, PlacesAscend
  <2> QED
    BY <2>3, <2>5 DEF n
<1> QED
  BY <1>1, <1>2

(* What is at some places of a sequence.                                   *)
LEMMA AtPlacesIs ==
  ASSUME NEW X, NEW seq \in Seq(X), NEW places \in SUBSET DOMAIN seq
  PROVE  /\ IsFiniteSet(places) /\ places \in SUBSET Nat
         /\ Cardinality(places) \in Nat /\ Cardinality(places) <= Len(seq)
         /\ AtPlaces(seq, places) \in Seq(X)
         /\ Len(AtPlaces(seq, places)) = Cardinality(places)
         /\ DOMAIN AtPlaces(seq, places) = 1 .. Cardinality(places)
         /\ \A k \in 1 .. Cardinality(places) :
              AtPlaces(seq, places)[k] = seq[Place(places, k)]
<1>1. places \in SUBSET (1 .. Len(seq)) /\ Len(seq) \in Nat
  OBVIOUS
<1>2. IsFiniteSet(places) /\ Cardinality(places) <= Len(seq)
  <2> DEFINE size == Len(seq)
  <2>1. IsFiniteSet(1 .. size) /\ Cardinality(1 .. size) = size
    <3>1. size \in Nat
      OBVIOUS
    <3> HIDE DEF size
    <3> QED
      BY <3>1, FS_Interval
  <2> HIDE DEF size
  <2>2. places \in SUBSET (1 .. size)
    BY <1>1 DEF size
  <2> QED
    BY <2>1, <2>2, FS_Subset DEF size
<1>3. places \in SUBSET Nat
  BY <1>1
<1>4. Cardinality(places) \in Nat
  BY <1>2, FS_CardinalityType
<1>5. AtPlaces(seq, places) = [k \in 1 .. Cardinality(places) |-> seq[Place(places, k)]]
  BY DEF AtPlaces, Place
<1>6. \A k \in 1 .. Cardinality(places) : seq[Place(places, k)] \in X
  BY <1>2, <1>3, <1>1, PlacesAscend
<1> DEFINE at == [k \in 1 .. Cardinality(places) |-> seq[Place(places, k)]]
           size == Cardinality(places)
<1>7. at \in Seq(X) /\ Len(at) = size /\ DOMAIN at = 1 .. size
  <2>1. at \in [1 .. size -> X]
    BY <1>6
  <2> HIDE DEF at, size
  <2> QED
    BY <2>1, <1>4 DEF size
<1> QED
  BY <1>2, <1>3, <1>4, <1>5, <1>7

(* A finite set of numbers that is not empty has a least one.              *)
LEMMA LeastPlace ==
  ASSUME NEW places \in SUBSET Nat, IsFiniteSet(places), places # {}
  PROVE  \E n \in places : \A m \in places : n <= m
<1> DEFINE size == Cardinality(places)
<1>1. size \in Nat /\ size # 0
  BY FS_CardinalityType, FS_EmptySet
<1>2. /\ \A k \in 1 .. size : Place(places, k) \in places
      /\ \A n \in places : Rank(places, n) \in 1 .. size /\ Place(places, Rank(places, n)) = n
      /\ \A j, k \in 1 .. size : j < k => Place(places, j) < Place(places, k)
  BY PlacesAscend
<1> HIDE DEF size
<1>3. 1 \in 1 .. size
  BY <1>1
<1>4. ASSUME NEW m \in places PROVE Place(places, 1) <= m
  <2>1. Rank(places, m) = 1 \/ 1 < Rank(places, m)
    BY <1>1, <1>2
  <2>2. Place(places, 1) \in Nat /\ m \in Nat
    BY <1>2, <1>3
  <2>3. CASE Rank(places, m) = 1
    BY <1>2, <2>2, <2>3
  <2>4. CASE 1 < Rank(places, m)
    <3>1. Place(places, 1) < Place(places, Rank(places, m))
      BY <1>2, <1>3, <2>4
    <3> QED
      BY <1>2, <2>2, <3>1
  <2> QED
    BY <2>1, <2>3, <2>4
<1> QED
  BY <1>2, <1>3, <1>4

-----------------------------------------------------------------------------
(* Sequences, put one after another, are another sequence if each is the   *)
(* piece of it that begins where the one before ends.                      *)
Pieces(seqs, whole, ends) ==
  /\ ends \in [0 .. Len(seqs) -> 0 .. Len(whole)]
  /\ ends[0] = 0 /\ ends[Len(seqs)] = Len(whole)
  /\ \A k \in 1 .. Len(seqs) :
       /\ ends[k] = ends[k - 1] + Len(seqs[k])
       /\ \A n \in 1 .. Len(seqs[k]) : seqs[k][n] = whole[ends[k - 1] + n]

LEMMA PieceAdded ==
  ASSUME NEW X, NEW piece \in Seq(X), NEW whole \in Seq(X),
         NEW before \in 0 .. Len(whole), before + Len(piece) <= Len(whole),
         \A n \in 1 .. Len(piece) : piece[n] = whole[before + n]
  PROVE  SubSeq(whole, 1, before + Len(piece)) = SubSeq(whole, 1, before) \o piece
<1> DEFINE left == SubSeq(whole, 1, before)
           both == SubSeq(whole, 1, before + Len(piece))
<1>0. before \in Nat /\ Len(piece) \in Nat /\ before <= Len(whole) /\ Len(whole) \in Nat
  OBVIOUS
<1>1. /\ left \in Seq(X) /\ Len(left) = before
      /\ \A n \in 1 .. before : left[n] = whole[n]
  OBVIOUS
<1>2. /\ both \in Seq(X) /\ Len(both) = before + Len(piece)
      /\ \A n \in 1 .. before + Len(piece) : both[n] = whole[n]
  OBVIOUS
<1> HIDE DEF left, both
<1>3. /\ left \o piece \in Seq(X)
      /\ Len(left \o piece) = before + Len(piece)
      /\ \A n \in 1 .. before + Len(piece) :
           (left \o piece)[n] = IF n <= before THEN left[n] ELSE piece[n - before]
  BY <1>1, ConcatProperties
<1>4. ASSUME NEW n \in 1 .. before + Len(piece) PROVE (left \o piece)[n] = both[n]
  <2>1. CASE n <= before
    <3>1. n \in 1 .. before
      BY <1>0, <2>1
    <3> QED
      BY <1>1, <1>2, <1>3, <2>1, <3>1
  <2>2. CASE ~(n <= before)
    <3>1. n - before \in 1 .. Len(piece) /\ before + (n - before) = n
      BY <1>0, <2>2
    <3>2. piece[n - before] = whole[n]
      BY <3>1
    <3> QED
      BY <1>2, <1>3, <2>2, <3>2
  <2> QED
    BY <2>1, <2>2
<1>5. left \o piece = both
  <2>1. \A n \in 1 .. Len(left \o piece) : (left \o piece)[n] = both[n]
    BY <1>3, <1>4
  <2>2. Len(left \o piece) = Len(both)
    BY <1>2, <1>3
  <2> QED
    BY <1>2, <1>3, <2>1, <2>2, SeqEqual
<1> QED
  BY <1>5 DEF left, both

LEMMA FlattenIs ==
  ASSUME NEW X, NEW seqs \in Seq(Seq(X)), Len(seqs) # 0,
         NEW whole \in Seq(X), NEW ends, Pieces(seqs, whole, ends)
  PROVE  FlattenSeq(seqs) = whole
<1> DEFINE size == Len(seqs)
           next(f) == [i \in 1 .. size |-> IF i = 1 THEN seqs[i] ELSE f[i - 1] \o seqs[i]]
           begun == [i \in 1 .. size |-> SubSeq(whole, 1, ends[i])]
           flatten == CHOOSE f : f = next(f)
           wrong == {i \in 1 .. size : flatten[i] # begun[i]}
<1>1. size \in Nat \ {0} /\ FlattenSeq(seqs) = flatten[size]
  BY DEF FlattenSeq
<1>2. begun = next(begun)
  <2>1. ASSUME NEW i \in 1 .. size
        PROVE  begun[i] = IF i = 1 THEN seqs[i] ELSE begun[i - 1] \o seqs[i]
    <3>1. /\ seqs[i] \in Seq(X) /\ Len(seqs[i]) \in Nat
          /\ i - 1 \in 0 .. size /\ ends[i - 1] \in 0 .. Len(whole) /\ ends[i] \in 0 .. Len(whole)
          /\ ends[i] = ends[i - 1] + Len(seqs[i])
          /\ \A n \in 1 .. Len(seqs[i]) : seqs[i][n] = whole[ends[i - 1] + n]
      <4>1. i \in 1 .. Len(seqs) /\ i - 1 \in 0 .. Len(seqs) /\ i \in 0 .. Len(seqs)
        BY <1>1
      <4>2. seqs[i] \in Seq(X)
        BY <4>1
      <4>3. Len(seqs[i]) \in Nat
        BY <4>2
      <4> QED
        BY <4>1, <4>2, <4>3 DEF Pieces
    <3>2. begun[i] = SubSeq(whole, 1, ends[i - 1]) \o seqs[i]
      <4>1. begun[i] = SubSeq(whole, 1, ends[i - 1] + Len(seqs[i]))
        BY <3>1
      <4>2. ends[i - 1] + Len(seqs[i]) <= Len(whole)
        BY <3>1
      <4> HIDE DEF begun
      <4> QED
        BY <3>1, <4>1, <4>2, PieceAdded
    <3>3. CASE i = 1
      <4>1. SubSeq(whole, 1, ends[i - 1]) = <<>>
        BY <3>3 DEF Pieces
      <4> HIDE DEF begun
      <4> QED
        BY <3>1, <3>2, <3>3, <4>1
    <3>4. CASE i # 1
      <4>1. i - 1 \in 1 .. size
        BY <1>1, <3>4
      <4> QED
        BY <3>2, <3>4, <4>1
    <3> HIDE DEF begun
    <3> QED
      BY <3>3, <3>4
  <2> QED
    BY <2>1
<1>3. flatten = next(flatten)
  <2> HIDE DEF next, begun
  <2> QED
    BY <1>2
<1>4. wrong = {}
  <2> SUFFICES ASSUME wrong # {} PROVE FALSE
    OBVIOUS
  <2>1. IsFiniteSet(wrong) /\ wrong \in SUBSET Nat
    <3>1. IsFiniteSet(1 .. size)
      BY <1>1, FS_Interval
    <3>2. wrong \in SUBSET (1 .. size)
      OBVIOUS
    <3> HIDE DEF wrong, size
    <3>3. wrong \in SUBSET Nat
      BY <1>1, <3>2
    <3>4. IsFiniteSet(wrong)
      BY <3>1, <3>2, FS_Subset
    <3> QED
      BY <3>3, <3>4
  <2>2. PICK i \in wrong : \A j \in wrong : i <= j
    BY <2>1, LeastPlace
  <2>3. i \in 1 .. size /\ i \in Nat
    BY <1>1
  <2>4. i # 1 => flatten[i - 1] = begun[i - 1]
    <3> SUFFICES ASSUME i # 1 PROVE i - 1 \notin wrong /\ i - 1 \in 1 .. size
      BY DEF wrong
    <3>1. i - 1 \in 1 .. size /\ ~(i <= i - 1)
      BY <1>1, <2>3
    <3> HIDE DEF wrong
    <3> QED
      BY <2>2, <3>1
  <2>5. flatten[i] = IF i = 1 THEN seqs[i] ELSE flatten[i - 1] \o seqs[i]
    <3> HIDE DEF flatten
    <3> QED
      BY <1>3, <2>3
  <2>6. begun[i] = IF i = 1 THEN seqs[i] ELSE begun[i - 1] \o seqs[i]
    <3> HIDE DEF begun
    <3> QED
      BY <1>2, <2>3
  <2>7. flatten[i] # begun[i]
    BY DEF wrong
  <2> HIDE DEF flatten, begun, wrong
  <2> QED
    BY <2>4, <2>5, <2>6, <2>7
<1>5. flatten[size] = begun[size]
  <2> HIDE DEF flatten, begun
  <2> QED
    BY <1>1, <1>4
<1>6. begun[size] = whole
  <2>1. begun[size] = SubSeq(whole, 1, Len(whole))
    BY <1>1 DEF Pieces
  <2> HIDE DEF begun, size
  <2> QED
    BY <2>1, SubSeqFull
<1> QED
  BY <1>1, <1>5, <1>6

-----------------------------------------------------------------------------
(* A file has numbers and other lines.                                     *)
Files == {file \in Seq(IdLines \cup {Junk}) : Len(file) <= MaxLines}

(* Each ID is kept once.                                                   *)
LEMMA UniqueIdsAre ==
  ASSUME NEW file \in Files
  PROVE  /\ UniqueIds(file) \in Seq(IdLines)
         /\ Len(UniqueIds(file)) \in Nat /\ Len(UniqueIds(file)) <= MaxLines
         /\ \A m, n \in 1 .. Len(UniqueIds(file)) :
              UniqueIds(file)[m] = UniqueIds(file)[n] => m = n
<1> DEFINE places == {n \in DOMAIN file : file[n] # Junk /\ \A m \in 1 .. n - 1 : file[m] # file[n]}
           size == Cardinality(places)
           ids == UniqueIds(file)
<1>1. file \in Seq(IdLines \cup {Junk}) /\ Len(file) \in Nat /\ Len(file) <= MaxLines
  BY DEF Files
<1>2. places \in SUBSET DOMAIN file
  OBVIOUS
<1>3. \A n \in places : n \in 1 .. Len(file) /\ file[n] \in IdLines
  BY <1>1
<1>4. \A m, n \in places : m < n => file[m] # file[n]
  BY <1>1
<1>5. ids = AtPlaces(file, places)
  BY DEF UniqueIds
<1> HIDE DEF places
<1>6. /\ IsFiniteSet(places) /\ places \in SUBSET Nat
      /\ size \in Nat /\ size <= Len(file)
      /\ Len(ids) = size /\ DOMAIN ids = 1 .. size
      /\ \A k \in 1 .. size : ids[k] = file[Place(places, k)]
      /\ ids \in Seq(IdLines \cup {Junk})
  BY <1>1, <1>2, <1>5, AtPlacesIs
<1>7. /\ \A k \in 1 .. size : Place(places, k) \in places
      /\ \A j, k \in 1 .. size : j < k => Place(places, j) < Place(places, k)
  BY <1>6, PlacesAscend
<1> HIDE DEF size, ids
<1>8. \A k \in 1 .. size : ids[k] \in IdLines
  BY <1>3, <1>6, <1>7
<1>9. ids \in Seq(IdLines)
  BY <1>6, <1>8
<1>10. \A j, k \in 1 .. size : j < k => ids[j] # ids[k]
  <2> SUFFICES ASSUME NEW j \in 1 .. size, NEW k \in 1 .. size, j < k
               PROVE  file[Place(places, j)] # file[Place(places, k)]
    BY <1>6
  <2> QED
    BY <1>4, <1>7
<1>11. \A j, k \in 1 .. size : ids[j] = ids[k] => j = k
  <2> SUFFICES ASSUME NEW j \in 1 .. size, NEW k \in 1 .. size, j # k
               PROVE  ids[j] # ids[k]
    OBVIOUS
  <2>1. j < k \/ k < j
    BY <1>6
  <2> QED
    BY <1>10, <2>1
<1>12. size <= MaxLines
  BY <1>1, <1>6, PartitioningAssumption
<1> QED
  BY <1>6, <1>9, <1>11, <1>12 DEF ids

-----------------------------------------------------------------------------
LEMMA Division ==
  ASSUME NEW a \in Nat, NEW b \in Nat \ {0}
  PROVE  /\ a \div b \in Nat /\ a % b \in 0 .. b - 1
         /\ a = (a \div b) * b + (a % b)
<1>1. a \div b \in Nat
  OBVIOUS
<1>2. a % b \in 0 .. b - 1
  OBVIOUS
<1>3. a = (a \div b) * b + (a % b)
  OBVIOUS
<1> QED
  BY <1>1, <1>2, <1>3

LEMMA QuotientIs ==
  ASSUME NEW a \in Nat, NEW b \in Nat \ {0}, NEW q \in Nat, q * b <= a, a < q * b + b
  PROVE  a \div b = q
OBVIOUS

LEMMA ProductType == ASSUME NEW a \in Nat, NEW b \in Nat PROVE a * b \in Nat
OBVIOUS

LEMMA MultiplesGrow ==
  ASSUME NEW j \in Nat, NEW k \in Nat, NEW b \in Nat, j <= k
  PROVE  j * b \in Nat /\ k * b \in Nat /\ j * b <= k * b
OBVIOUS

LEMMA NextMultiple ==
  ASSUME NEW k \in Nat, NEW b \in Nat
  PROVE  (k + 1) * b = k * b + b
OBVIOUS

(* Chunks cover a sequence; all but the last are of the full size.         *)
LEMMA ChunksAre ==
  ASSUME NEW X, NEW ids \in Seq(X), NEW size \in Nat \ {0}
  PROVE  /\ Len(Chunks(ids, size)) \in Nat
         /\ DOMAIN Chunks(ids, size) = 1 .. Len(Chunks(ids, size))
         /\ Len(ids) <= Len(Chunks(ids, size)) * size
         /\ \A k \in 1 .. Len(Chunks(ids, size)) :
              /\ (k - 1) * size < Len(ids)
              /\ Chunks(ids, size)[k] \in Seq(X)
              /\ Len(Chunks(ids, size)[k]) = LesserOf(k * size, Len(ids)) - (k - 1) * size
              /\ \A n \in 1 .. Len(Chunks(ids, size)[k]) :
                   Chunks(ids, size)[k][n] = ids[(k - 1) * size + n]
<1> DEFINE all == Len(ids)
           count == (all + size - 1) \div size
           chunks == Chunks(ids, size)
<1>1. all \in Nat /\ size \in Nat /\ size >= 1 /\ \A n \in 1 .. all : ids[n] \in X
  OBVIOUS
<1> HIDE DEF all
<1>2. count \in Nat /\ count * size \in Nat /\ count * size <= all + size - 1 /\ all <= count * size
  <2> DEFINE a == all + size - 1
  <2>1. a \in Nat
    BY <1>1
  <2> HIDE DEF a
  <2>2. a \div size \in Nat /\ a % size \in 0 .. size - 1 /\ a = (a \div size) * size + (a % size)
    BY <2>1, Division
  <2>3. (a \div size) * size \in Nat
    BY <1>1, <2>2, ProductType
  <2> DEFINE q == a \div size
             r == a % size
             m == q * size
  <2>4. m \in Nat /\ r \in 0 .. size - 1 /\ a = m + r
    BY <2>2, <2>3
  <2> HIDE DEF q, r, m
  <2>5. m <= a /\ a <= m + size - 1
    BY <1>1, <2>4
  <2>6. m <= all + size - 1 /\ all <= m
    BY <1>1, <2>4, <2>5 DEF a
  <2>7. count = q /\ q \in Nat
    BY <2>2 DEF a, q
  <2> QED
    BY <2>4, <2>6, <2>7 DEF m
<1> HIDE DEF count
<1>3. chunks = [k \in 1 .. count |-> SubSeq(ids, (k - 1) * size + 1, LesserOf(k * size, all))]
  BY DEF Chunks, count, all
<1>4. DOMAIN chunks = 1 .. count /\ Len(chunks) = count
  <2> DEFINE chunk(k) == SubSeq(ids, (k - 1) * size + 1, LesserOf(k * size, all))
  <2> HIDE DEF chunk
  <2>1. chunks = [k \in 1 .. count |-> chunk(k)]
    BY <1>3 DEF chunk
  <2> HIDE DEF chunks
  <2> QED
    BY <1>2, <2>1
<1>5. ASSUME NEW k \in 1 .. count
      PROVE  /\ (k - 1) * size < all
             /\ chunks[k] \in Seq(X)
             /\ Len(chunks[k]) = LesserOf(k * size, all) - (k - 1) * size
             /\ \A n \in 1 .. Len(chunks[k]) : chunks[k][n] = ids[(k - 1) * size + n]
  <2> DEFINE a == (k - 1) * size
             b == LesserOf(k * size, all)
  <2>1. a \in Nat /\ k * size = a + size /\ a < all
    <3>1. k - 1 \in Nat /\ k \in Nat /\ k <= count /\ k = (k - 1) + 1
      BY <1>2
    <3>2. a \in Nat /\ k * size = a + size
      BY <3>1, NextMultiple
    <3>3. k * size \in Nat /\ k * size <= count * size
      BY <1>2, <3>1, MultiplesGrow
    <3>4. a + size <= all + size - 1
      <4> DEFINE m == count * size
      <4> HIDE DEF m, a
      <4>1. m \in Nat /\ m <= all + size - 1 /\ a + size <= m
        BY <1>2, <3>2, <3>3 DEF m
      <4> QED
        BY <1>1, <3>2, <4>1
    <3> HIDE DEF a
    <3> QED
      BY <1>1, <3>2, <3>4
  <2>2. b \in Nat /\ a < b /\ b <= all
    <3> HIDE DEF a
    <3> QED
      BY <1>1, <2>1 DEF LesserOf
  <2>3. chunks[k] = SubSeq(ids, a + 1, b)
    BY <1>3
  <2> HIDE DEF a, b
  <2>4. a + 1 \in Int /\ b \in Int /\ a + 1 <= b /\ b - (a + 1) + 1 = b - a
    BY <2>1, <2>2
  <2>5. \A n \in a + 1 .. b : ids[n] \in X
    BY <1>1, <2>1, <2>2
  <2>6. /\ SubSeq(ids, a + 1, b) \in Seq(X)
        /\ Len(SubSeq(ids, a + 1, b)) = b - a
        /\ \A n \in 1 .. b - a : SubSeq(ids, a + 1, b)[n] = ids[a + 1 + n - 1]
    <3> DEFINE c == a + 1
    <3>1. c \in Int /\ b \in Int /\ c <= b /\ b - c + 1 = b - a
      BY <2>4
    <3>2. \A n \in c .. b : ids[n] \in X
      BY <2>5
    <3> HIDE DEF c
    <3>3. /\ SubSeq(ids, c, b) \in Seq(X)
          /\ Len(SubSeq(ids, c, b)) = b - c + 1
          /\ \A n \in 1 .. b - c + 1 : SubSeq(ids, c, b)[n] = ids[c + n - 1]
      BY <3>1, <3>2, SubSeqProperties
    <3> QED
      BY <3>1, <3>3 DEF c
  <2>7. \A n \in 1 .. b - a : a + 1 + n - 1 = a + n
    BY <2>1, <2>2
  <2>8. \A n \in 1 .. b - a : SubSeq(ids, a + 1, b)[n] = ids[a + n]
    BY <2>6, <2>7
  <2>9. /\ a < all /\ chunks[k] \in Seq(X) /\ Len(chunks[k]) = b - a
        /\ \A n \in 1 .. Len(chunks[k]) : chunks[k][n] = ids[a + n]
    BY <2>1, <2>3, <2>6, <2>8
  <2> QED
    BY <2>9 DEF a, b
<1> HIDE DEF chunks
<1>6. all <= Len(chunks) * size
  BY <1>2, <1>4
<1> QED
  BY <1>2, <1>4, <1>5, <1>6 DEF chunks, all

-----------------------------------------------------------------------------
(* The entries of consecutive batches: those of the IDs from the first of  *)
(* these batches to the last.                                              *)
Consecutive(begin, end) == [k \in 1 .. end - begin + 1 |-> begin + k - 1]
Before(begin) == (begin - 1) * BatchSize
Through(file, end) == LesserOf(end * BatchSize, Len(UniqueIds(file)))
Entries(file, begin, end) ==
  [p \in 1 .. Through(file, end) - Before(begin) |->
     <<begin + ((p - 1) \div BatchSize), UniqueIds(file)[Before(begin) + p]>>]

LEMMA BatchesAre ==
  ASSUME NEW file \in Files
  PROVE  /\ Len(Batches(file)) \in Nat
         /\ DOMAIN Batches(file) = 1 .. Len(Batches(file))
         /\ \A k \in 1 .. Len(Batches(file)) :
              /\ Before(k) \in Nat /\ Before(k) < Len(UniqueIds(file))
              /\ k * BatchSize = Before(k) + BatchSize
              /\ Through(file, k) \in Nat /\ Before(k) < Through(file, k)
              /\ Through(file, k) <= Len(UniqueIds(file))
              /\ Through(file, k) <= Before(k) + BatchSize
              /\ Batches(file)[k] \in Seq(IdLines)
              /\ Len(Batches(file)[k]) = Through(file, k) - Before(k)
              /\ \A n \in 1 .. Through(file, k) - Before(k) :
                   Batches(file)[k][n] = UniqueIds(file)[Before(k) + n]
<1> DEFINE ids == UniqueIds(file)
           all == Len(ids)
           batches == Batches(file)
           count == Len(batches)
<1>1. ids \in Seq(IdLines) /\ all \in Nat
  BY UniqueIdsAre
<1>2. BatchSize \in Nat \ {0}
  BY PartitioningAssumption
<1>3. batches = Chunks(ids, BatchSize)
  BY DEF Batches
<1> HIDE DEF ids
<1>4. /\ count \in Nat /\ DOMAIN batches = 1 .. count
      /\ \A k \in 1 .. count :
           /\ (k - 1) * BatchSize < all
           /\ batches[k] \in Seq(IdLines)
           /\ Len(batches[k]) = LesserOf(k * BatchSize, all) - (k - 1) * BatchSize
           /\ \A n \in 1 .. Len(batches[k]) : batches[k][n] = ids[(k - 1) * BatchSize + n]
  <2> DEFINE chunks == Chunks(ids, BatchSize)
  <2>1. /\ Len(chunks) \in Nat /\ DOMAIN chunks = 1 .. Len(chunks)
        /\ \A k \in 1 .. Len(chunks) :
             /\ (k - 1) * BatchSize < Len(ids)
             /\ chunks[k] \in Seq(IdLines)
             /\ Len(chunks[k]) = LesserOf(k * BatchSize, Len(ids)) - (k - 1) * BatchSize
             /\ \A n \in 1 .. Len(chunks[k]) : chunks[k][n] = ids[(k - 1) * BatchSize + n]
    BY <1>1, <1>2, ChunksAre
  <2>2. count = Len(chunks) /\ batches = chunks
    BY <1>3
  <2> HIDE DEF batches, chunks, count
  <2> QED
    BY <2>1, <2>2
<1> HIDE DEF batches, count, all
<1>5. ASSUME NEW k \in 1 .. count
      PROVE  /\ Before(k) \in Nat /\ Before(k) < all
             /\ k * BatchSize = Before(k) + BatchSize
             /\ Through(file, k) \in Nat /\ Before(k) < Through(file, k)
             /\ Through(file, k) <= all
             /\ Through(file, k) <= Before(k) + BatchSize
             /\ batches[k] \in Seq(IdLines)
             /\ Len(batches[k]) = Through(file, k) - Before(k)
             /\ \A n \in 1 .. Through(file, k) - Before(k) : batches[k][n] = ids[Before(k) + n]
  <2>1. k - 1 \in Nat /\ k = (k - 1) + 1
    BY <1>4
  <2>2. Before(k) \in Nat /\ k * BatchSize = Before(k) + BatchSize
    BY <1>2, <2>1, ProductType, NextMultiple DEF Before
  <2>3. Before(k) < all
    BY <1>4 DEF Before
  <2>4. Through(file, k) = LesserOf(Before(k) + BatchSize, all)
    BY <2>2 DEF Through, ids, all
  <2>5. /\ Through(file, k) \in Nat /\ Before(k) < Through(file, k) /\ Through(file, k) <= all
        /\ Through(file, k) <= Before(k) + BatchSize
    BY <1>1, <1>2, <2>2, <2>3, <2>4 DEF LesserOf
  <2>6. Len(batches[k]) = Through(file, k) - Before(k)
    BY <1>4, <2>2, <2>4 DEF Before
  <2>7. \A n \in 1 .. Len(batches[k]) : batches[k][n] = ids[Before(k) + n]
    BY <1>4 DEF Before
  <2> QED
    BY <1>4, <2>2, <2>3, <2>5, <2>6, <2>7
<1> QED
  BY <1>4, <1>5 DEF batches, count, ids, all

(* What is before a batch is what the batches before it hold.              *)
LEMMA BeforeGrows ==
  ASSUME NEW j \in Nat \ {0}, NEW k \in Nat \ {0}, j <= k
  PROVE  Before(j) \in Nat /\ Before(k) \in Nat /\ Before(j) <= Before(k)
<1>1. j - 1 \in Nat /\ k - 1 \in Nat /\ j - 1 <= k - 1 /\ BatchSize \in Nat
  BY PartitioningAssumption
<1> QED
  BY <1>1, MultiplesGrow DEF Before

(* A batch that is not the last ends where the next one begins.            *)
LEMMA ThroughIsBefore ==
  ASSUME NEW file \in Files, NEW k \in 1 .. Len(Batches(file)), k # 1
  PROVE  Through(file, k - 1) = Before(k)
<1>1. Before(k) \in Nat /\ Before(k) < Len(UniqueIds(file)) /\ Len(UniqueIds(file)) \in Nat
  BY BatchesAre, UniqueIdsAre
<1>2. Before(k) = (k - 1) * BatchSize
  BY DEF Before
<1> QED
  BY <1>1, <1>2 DEF Through, LesserOf

LEMMA EntriesAre ==
  ASSUME NEW file \in Files, NEW begin \in Nat \ {0}, NEW end \in Nat,
         begin <= end, end <= Len(Batches(file))
  PROVE  /\ Through(file, end) - Before(begin) \in Nat \ {0}
         /\ Entries(file, begin, end) \in Seq(Nat \X IdLines)
         /\ Len(Entries(file, begin, end)) = Through(file, end) - Before(begin)
         /\ Len(Entries(file, begin, end)) <= MaxLines
         /\ \A p \in 1 .. Through(file, end) - Before(begin) :
              Before(begin) + p \in 1 .. Len(UniqueIds(file))
<1> DEFINE ids == UniqueIds(file)
           size == Through(file, end) - Before(begin)
<1>1. /\ ids \in Seq(IdLines) /\ Len(ids) \in Nat /\ Len(ids) <= MaxLines
      /\ MaxLines \in Nat /\ BatchSize \in Nat \ {0}
  BY UniqueIdsAre, PartitioningAssumption
<1>2. end \in 1 .. Len(Batches(file))
  BY BatchesAre
<1>3. /\ Through(file, end) \in Nat /\ Before(end) < Through(file, end) /\ Through(file, end) <= Len(ids)
  BY <1>2, BatchesAre
<1>4. Before(begin) \in Nat /\ Before(begin) <= Before(end) /\ Before(end) \in Nat
  BY <1>2, BeforeGrows
<1> HIDE DEF ids
<1>5. size \in Nat \ {0} /\ size <= MaxLines
  BY <1>1, <1>3, <1>4
<1>6. \A p \in 1 .. size : Before(begin) + p \in 1 .. Len(ids)
  BY <1>1, <1>3, <1>4
<1> DEFINE entry(p) == <<begin + ((p - 1) \div BatchSize), ids[Before(begin) + p]>>
<1>7. \A p \in 1 .. size : entry(p) \in Nat \X IdLines
  <2> SUFFICES ASSUME NEW p \in 1 .. size PROVE entry(p) \in Nat \X IdLines
    OBVIOUS
  <2>1. ids[Before(begin) + p] \in IdLines
    BY <1>1, <1>6
  <2>2. p - 1 \in Nat
    BY <1>5
  <2>3. (p - 1) \div BatchSize \in Nat
    BY <1>1, <2>2, Division
  <2> QED
    BY <2>1, <2>3
<1>8. Entries(file, begin, end) = [p \in 1 .. size |-> entry(p)]
  BY DEF Entries, ids
<1> HIDE DEF size, entry
<1>9. /\ Entries(file, begin, end) \in Seq(Nat \X IdLines)
      /\ Len(Entries(file, begin, end)) = size
  <2>1. Entries(file, begin, end) \in [1 .. size -> Nat \X IdLines]
    BY <1>7, <1>8
  <2> QED
    BY <1>5, <2>1
<1> QED
  BY <1>5, <1>6, <1>9 DEF size, ids

LEMMA NumberedIs ==
  ASSUME NEW file \in Files, NEW begin \in Nat \ {0}, NEW end \in Nat,
         begin <= end, end <= Len(Batches(file))
  PROVE  NumberedIds(file, Consecutive(begin, end)) = Entries(file, begin, end)
<1> DEFINE X == Nat \X IdLines
           numbers == Consecutive(begin, end)
           count == end - begin + 1
           number(k) == begin + k - 1
           batch(k) == Batches(file)[number(k)]
           seqs == [k \in 1 .. count |-> [n \in DOMAIN batch(k) |-> <<number(k), batch(k)[n]>>]]
           whole == Entries(file, begin, end)
           ends == [k \in 0 .. count |-> IF k = 0 THEN 0 ELSE Through(file, number(k)) - Before(begin)]
<1>1. count \in Nat \ {0} /\ count >= 1 /\ number(1) = begin /\ number(count) = end
  OBVIOUS
<1>2. DOMAIN numbers = 1 .. count /\ \A k \in 1 .. count : numbers[k] = number(k)
  BY DEF Consecutive
<1>3. NumberedIds(file, numbers) = FlattenSeq(seqs)
  <2> HIDE DEF numbers
  <2> QED
    BY <1>2 DEF NumberedIds
<1>4. ASSUME NEW k \in 1 .. count
      PROVE  /\ number(k) \in 1 .. Len(Batches(file)) /\ number(k) \in Nat \ {0}
             /\ begin <= number(k) /\ number(k) <= end
  BY BatchesAre
<1>5. /\ whole \in Seq(X) /\ Len(whole) = Through(file, end) - Before(begin)
      /\ Len(whole) \in Nat \ {0}
  <2> HIDE DEF X
  <2> QED
    BY EntriesAre DEF X
<1>6. Before(begin) \in Nat /\ Through(file, end) \in Nat
  <2>1. end \in 1 .. Len(Batches(file)) /\ begin \in 1 .. Len(Batches(file))
    BY BatchesAre
  <2> QED
    BY <2>1, BatchesAre
<1>7. ASSUME NEW k \in 1 .. count
      PROVE  LET n == number(k)
             IN  /\ Before(n) \in Nat /\ Through(file, n) \in Nat
                 /\ Before(begin) <= Before(n) /\ Before(n) < Through(file, n)
                 /\ Through(file, n) <= Through(file, end)
                 /\ Through(file, n) <= Before(n) + BatchSize
                 /\ Before(n) = Before(begin) + (k - 1) * BatchSize
                 /\ ends[k - 1] = Before(n) - Before(begin)
                 /\ ends[k] = Through(file, n) - Before(begin)
  <2> DEFINE n == number(k)
  <2>0. k \in Nat \ {0} /\ k - 1 \in Nat /\ BatchSize \in Nat /\ k <= count
    BY <1>1, PartitioningAssumption
  <2>1. /\ Before(n) \in Nat /\ Through(file, n) \in Nat /\ Before(n) < Through(file, n)
        /\ Through(file, n) <= Before(n) + BatchSize
    BY <1>4, BatchesAre
  <2>2. Before(begin) <= Before(n)
    BY <1>4, BeforeGrows
  <2>3. Through(file, n) <= Through(file, end)
    <3>1. CASE n = end
      BY <2>1, <3>1
    <3>2. CASE n # end
      <4>1. /\ n + 1 \in 1 .. Len(Batches(file)) /\ n + 1 # 1 /\ n + 1 - 1 = n
            /\ n + 1 <= end /\ n + 1 \in Nat \ {0} /\ end \in 1 .. Len(Batches(file))
        BY <1>4, <3>2, BatchesAre
      <4>2. Through(file, n) = Before(n + 1)
        BY <4>1, ThroughIsBefore
      <4>3. Before(n + 1) \in Nat /\ Before(end) \in Nat /\ Before(n + 1) <= Before(end)
        BY <4>1, BeforeGrows
      <4>4. Before(end) < Through(file, end)
        BY <4>1, BatchesAre
      <4> HIDE DEF n
      <4> QED
        BY <1>6, <2>1, <4>2, <4>3, <4>4
    <3> QED
      BY <3>1, <3>2
  <2>4. Before(n) = Before(begin) + (k - 1) * BatchSize
    <3> DEFINE a == begin - 1
               b == k - 1
    <3>1. a \in Nat /\ b \in Nat /\ n - 1 = a + b
      BY <2>0
    <3> HIDE DEF a, b
    <3>2. (a + b) * BatchSize = a * BatchSize + b * BatchSize
      BY <2>0, <3>1
    <3>3. Before(n) = (a + b) * BatchSize /\ Before(begin) = a * BatchSize
      BY <3>1 DEF Before, a
    <3> QED
      BY <3>2, <3>3 DEF b
  <2>5. ends[k - 1] = Before(n) - Before(begin)
    <3>1. k - 1 \in 0 .. count
      BY <2>0, <1>1
    <3>2. CASE k = 1
      <4>1. n = begin
        BY <3>2
      <4>2. ends[k - 1] = 0
        BY <3>1, <3>2
      <4> QED
        BY <1>6, <4>1, <4>2
    <3>3. CASE k # 1
      <4>1. number(k - 1) = n - 1 /\ k - 1 # 0
        BY <2>0, <3>3
      <4>2. ends[k - 1] = Through(file, n - 1) - Before(begin)
        BY <3>1, <4>1
      <4>3. n # 1
        BY <2>0, <3>3
      <4> QED
        BY <1>4, <4>2, <4>3, ThroughIsBefore
    <3> QED
      BY <3>2, <3>3
  <2>6. ends[k] = Through(file, n) - Before(begin)
    BY <2>0, <1>1
  <2> HIDE DEF ends
  <2> QED
    BY <2>1, <2>2, <2>3, <2>4, <2>5, <2>6
<1>8. ASSUME NEW k \in 1 .. count
      PROVE  LET n == number(k)
             IN  /\ seqs[k] \in Seq(X)
                 /\ Len(seqs[k]) = Through(file, n) - Before(n)
                 /\ \A m \in 1 .. Through(file, n) - Before(n) :
                      seqs[k][m] = <<n, UniqueIds(file)[Before(n) + m]>>
  <2> DEFINE n == number(k)
             size == Through(file, n) - Before(n)
             pair(m) == <<n, batch(k)[m]>>
  <2>1. /\ batch(k) \in Seq(IdLines) /\ Len(batch(k)) = size /\ size \in Nat
        /\ \A m \in 1 .. size : batch(k)[m] = UniqueIds(file)[Before(n) + m]
    BY <1>4, <1>7, BatchesAre
  <2>2. DOMAIN batch(k) = 1 .. size
    <3> DEFINE s == batch(k)
    <3> HIDE DEF s, size
    <3> QED
      BY <2>1 DEF s
  <2>3. seqs[k] = [m \in 1 .. size |-> pair(m)]
    BY <2>2
  <2>4. \A m \in 1 .. size : batch(k)[m] \in IdLines
    <3> DEFINE s == batch(k)
    <3> HIDE DEF s, size
    <3> QED
      BY <2>1 DEF s
  <2>5. \A m \in 1 .. size : pair(m) \in X
    BY <1>4, <2>4
  <2>6. seqs[k] \in Seq(X) /\ Len(seqs[k]) = size
    <3>1. seqs[k] \in [1 .. size -> X]
      <4> HIDE DEF X, seqs, pair
      <4> QED
        BY <2>3, <2>5
    <3> DEFINE s == seqs[k]
    <3>2. s \in [1 .. size -> X] /\ size \in Nat
      BY <2>1, <3>1
    <3> HIDE DEF X, s, size
    <3>3. s \in Seq(X) /\ Len(s) = size
      BY <3>2
    <3> QED
      BY <3>3 DEF s
  <2>7. \A m \in 1 .. size : seqs[k][m] = <<n, UniqueIds(file)[Before(n) + m]>>
    BY <2>1, <2>3
  <2> HIDE DEF seqs
  <2> QED
    BY <2>6, <2>7
<1>9. seqs \in Seq(Seq(X)) /\ Len(seqs) = count
  <2>1. \A k \in 1 .. count : seqs[k] \in Seq(X)
    BY <1>8
  <2> HIDE DEF X
  <2>2. seqs \in [1 .. count -> Seq(X)]
    BY <2>1
  <2> HIDE DEF seqs, count
  <2> QED
    BY <1>1, <2>2
<1>10. Pieces(seqs, whole, ends)
  <2>1. ends[0] = 0
    BY <1>1
  <2>2. ends[count] = Len(whole)
    BY <1>1, <1>5, <1>7
  <2>3. ends \in [0 .. count -> 0 .. Len(whole)]
    <3>1. ASSUME NEW k \in 0 .. count PROVE ends[k] \in 0 .. Len(whole)
      <4>1. CASE k = 0
        BY <1>5, <2>1, <4>1
      <4>2. CASE k # 0
        <5>1. k \in 1 .. count
          BY <1>1, <4>2
        <5>2. /\ ends[k] = Through(file, number(k)) - Before(begin)
              /\ Before(number(k)) \in Nat /\ Through(file, number(k)) \in Nat
              /\ Before(begin) <= Before(number(k)) /\ Before(number(k)) < Through(file, number(k))
              /\ Through(file, number(k)) <= Through(file, end)
          BY <1>7, <5>1
        <5> HIDE DEF ends, number, whole
        <5> QED
          BY <1>5, <1>6, <5>2
      <4> QED
        BY <4>1, <4>2
    <3> HIDE DEF count, whole
    <3> QED
      BY <3>1
  <2>4. ASSUME NEW k \in 1 .. count
        PROVE  /\ ends[k] = ends[k - 1] + Len(seqs[k])
               /\ \A m \in 1 .. Len(seqs[k]) : seqs[k][m] = whole[ends[k - 1] + m]
    <3> DEFINE n == number(k)
    <3>1. /\ Before(n) \in Nat /\ Through(file, n) \in Nat
          /\ Before(begin) <= Before(n) /\ Before(n) < Through(file, n)
          /\ Through(file, n) <= Through(file, end)
          /\ Through(file, n) <= Before(n) + BatchSize
          /\ Before(n) = Before(begin) + (k - 1) * BatchSize
          /\ ends[k - 1] = Before(n) - Before(begin)
          /\ ends[k] = Through(file, n) - Before(begin)
      BY <1>7
    <3>2. /\ Len(seqs[k]) = Through(file, n) - Before(n)
          /\ \A m \in 1 .. Through(file, n) - Before(n) :
                 seqs[k][m] = <<n, UniqueIds(file)[Before(n) + m]>>
      BY <1>8
    <3>3. k - 1 \in Nat /\ n = begin + (k - 1) /\ BatchSize \in Nat \ {0}
      BY <1>1, PartitioningAssumption
    <3> HIDE DEF n, ends, seqs, whole
    <3>4. ends[k] = ends[k - 1] + Len(seqs[k])
      BY <1>6, <3>1, <3>2
    <3>5. ASSUME NEW m \in 1 .. Len(seqs[k]) PROVE seqs[k][m] = whole[ends[k - 1] + m]
      <4> DEFINE p == ends[k - 1] + m
      <4>1. m \in Nat \ {0} /\ m <= BatchSize /\ m <= Through(file, n) - Before(n)
        <5> DEFINE top == Through(file, n)
                   base == Before(n)
        <5>1. m \in 1 .. top - base
          BY <3>2
        <5>2. top \in Nat /\ base \in Nat /\ top <= base + BatchSize
          BY <3>1
        <5> HIDE DEF top, base
        <5>3. m \in Nat \ {0} /\ m <= BatchSize /\ m <= top - base
          BY <3>3, <5>1, <5>2
        <5> QED
          BY <5>3 DEF top, base
      <4>2. p \in 1 .. Through(file, end) - Before(begin) /\ Before(begin) + p = Before(n) + m
        BY <1>6, <3>1, <4>1
      <4>3. (p - 1) \div BatchSize = k - 1
        <5> DEFINE a == p - 1
                   q == k - 1
                   c == q * BatchSize
        <5>1. c \in Nat /\ q \in Nat
          BY <3>3, ProductType
        <5>2. a = c + m - 1 /\ a \in Nat
          <6> HIDE DEF c
          <6>1. Before(n) = Before(begin) + c
            BY <3>1 DEF c
          <6>2. ends[k - 1] = c
            BY <1>6, <3>1, <5>1, <6>1
          <6>3. m \in Nat \ {0}
            BY <4>1
          <6> QED
            BY <5>1, <6>2, <6>3
        <5>3. c <= a /\ a < c + BatchSize
          <6> HIDE DEF a, c
          <6> QED
            BY <3>3, <4>1, <5>1, <5>2
        <5> HIDE DEF a, q
        <5>4. a \div BatchSize = q
          BY <3>3, <5>1, <5>2, <5>3, QuotientIs
        <5> QED
          BY <5>4 DEF a, q
      <4>4. whole[p] = <<begin + ((p - 1) \div BatchSize), UniqueIds(file)[Before(begin) + p]>>
        <5> HIDE DEF p
        <5> QED
          BY <4>2 DEF Entries, whole
      <4>5. whole[p] = <<n, UniqueIds(file)[Before(n) + m]>>
        BY <3>3, <4>2, <4>3, <4>4
      <4>6. m \in 1 .. Through(file, n) - Before(n)
        BY <3>2
      <4> QED
        BY <3>2, <4>5, <4>6
    <3> QED
      BY <3>4, <3>5
  <2> HIDE DEF ends, seqs, whole, count
  <2> QED
    BY <1>9, <2>1, <2>2, <2>3, <2>4 DEF Pieces
<1> HIDE DEF X, seqs, whole, ends, count, numbers
<1>11. FlattenSeq(seqs) = whole
  BY <1>1, <1>5, <1>9, <1>10, FlattenIs
<1>12. NumberedIds(file, numbers) = whole
  BY <1>3, <1>11
<1> QED
  BY <1>12 DEF numbers, whole

-----------------------------------------------------------------------------
(* The entries of one browser, grouped.  A group begins where the number   *)
(* of the batch changes; it has every entry of its number.                 *)
Parts == Seq(Nat \X IdLines)
Heads(part) == {n \in DOMAIN part : n = 1 \/ part[n - 1][1] # part[n][1]}
Owned(part, number) == {n \in DOMAIN part : part[n][1] = number}
NumberOf(part, k) == part[Place(Heads(part), k)][1]

LEMMA PartIs ==
  ASSUME NEW part \in Parts
  PROVE  /\ Len(part) \in Nat /\ DOMAIN part = 1 .. Len(part)
         /\ \A n \in DOMAIN part : part[n][1] \in Nat /\ part[n][2] \in IdLines
         /\ Heads(part) \in SUBSET DOMAIN part
         /\ \A number : Owned(part, number) \in SUBSET DOMAIN part
<1>1. part \in Seq(Nat \X IdLines)
  BY DEF Parts
<1>2. Len(part) \in Nat /\ DOMAIN part = 1 .. Len(part)
  BY <1>1
<1>3. ASSUME NEW n \in DOMAIN part PROVE part[n][1] \in Nat /\ part[n][2] \in IdLines
  <2>1. part[n] \in Nat \X IdLines
    BY <1>1
  <2> QED
    BY <2>1
<1>4. Heads(part) \in SUBSET DOMAIN part
  BY DEF Heads
<1>5. ASSUME NEW number PROVE Owned(part, number) \in SUBSET DOMAIN part
  BY DEF Owned
<1> QED
  BY <1>2, <1>3, <1>4, <1>5

LEMMA PlacesOfPart ==
  ASSUME NEW part \in Parts, NEW places \in SUBSET DOMAIN part
  PROVE  /\ IsFiniteSet(places) /\ places \in SUBSET Nat
         /\ Cardinality(places) \in Nat /\ Cardinality(places) <= Len(part)
         /\ \A k \in 1 .. Cardinality(places) : Place(places, k) \in places
         /\ \A n \in places : /\ Rank(places, n) \in 1 .. Cardinality(places)
                              /\ Place(places, Rank(places, n)) = n
         /\ \A j, k \in 1 .. Cardinality(places) : j < k => Place(places, j) < Place(places, k)
         /\ DOMAIN AtPlaces(part, places) = 1 .. Cardinality(places)
         /\ \A k \in 1 .. Cardinality(places) : AtPlaces(part, places)[k] = part[Place(places, k)]
<1>1. part \in Seq(Nat \X IdLines)
  BY DEF Parts
<1>2. /\ IsFiniteSet(places) /\ places \in SUBSET Nat
      /\ Cardinality(places) \in Nat /\ Cardinality(places) <= Len(part)
      /\ DOMAIN AtPlaces(part, places) = 1 .. Cardinality(places)
      /\ \A k \in 1 .. Cardinality(places) : AtPlaces(part, places)[k] = part[Place(places, k)]
  BY <1>1, AtPlacesIs
<1> QED
  BY <1>2, PlacesAscend

LEMMA GroupedIs ==
  ASSUME NEW part \in Parts
  PROVE  /\ Len(Grouped(part)) = Cardinality(Heads(part))
         /\ Cardinality(Heads(part)) \in Nat /\ Cardinality(Heads(part)) <= Len(part)
         /\ DOMAIN Grouped(part) = 1 .. Cardinality(Heads(part))
         /\ \A k \in 1 .. Cardinality(Heads(part)) :
              LET owned == Owned(part, NumberOf(part, k))
                  shard == Grouped(part)[k]
              IN  /\ shard[1] = NumberOf(part, k) /\ NumberOf(part, k) \in Nat
                  /\ Cardinality(owned) \in Nat /\ Cardinality(owned) <= Len(part)
                  /\ IdsOfShard(shard) \in Seq(IdLines)
                  /\ DOMAIN IdsOfShard(shard) = 1 .. Cardinality(owned)
                  /\ Len(IdsOfShard(shard)) = Cardinality(owned)
                  /\ \A n \in 1 .. Cardinality(owned) :
                       IdsOfShard(shard)[n] = part[Place(owned, n)][2]
<1> DEFINE heads == AtPlaces(part, Heads(part))
           own(number) == AtPlaces(part, Owned(part, number))
           ids(number) == [n \in DOMAIN own(number) |-> own(number)[n][2]]
           size == Cardinality(Heads(part))
<1>1. Grouped(part) = [k \in DOMAIN heads |-> <<heads[k][1], ids(heads[k][1])>>]
  BY DEF Grouped, Heads, Owned
<1>2. /\ size \in Nat /\ size <= Len(part)
      /\ DOMAIN heads = 1 .. size
      /\ \A k \in 1 .. size : heads[k] = part[Place(Heads(part), k)]
      /\ \A k \in 1 .. size : Place(Heads(part), k) \in Heads(part)
  BY PartIs, PlacesOfPart
<1>3. ASSUME NEW k \in 1 .. size
      PROVE  /\ heads[k][1] = NumberOf(part, k) /\ NumberOf(part, k) \in Nat
             /\ Grouped(part)[k] = <<NumberOf(part, k), ids(NumberOf(part, k))>>
  <2>1. heads[k][1] = NumberOf(part, k)
    BY <1>2 DEF NumberOf
  <2>2. NumberOf(part, k) \in Nat
    BY <1>2, PartIs DEF NumberOf
  <2> HIDE DEF heads, ids
  <2> QED
    BY <1>1, <1>2, <2>1, <2>2
<1>4. ASSUME NEW number
      PROVE  LET owned == Owned(part, number)
             IN  /\ Cardinality(owned) \in Nat /\ Cardinality(owned) <= Len(part)
                 /\ ids(number) \in Seq(IdLines)
                 /\ DOMAIN ids(number) = 1 .. Cardinality(owned)
                 /\ Len(ids(number)) = Cardinality(owned)
                 /\ \A n \in 1 .. Cardinality(owned) : ids(number)[n] = part[Place(owned, n)][2]
  <2> DEFINE owned == Owned(part, number)
             count == Cardinality(owned)
             named == ids(number)
  <2>1. owned \in SUBSET DOMAIN part
    BY PartIs
  <2> HIDE DEF owned
  <2>2. /\ count \in Nat /\ count <= Len(part)
        /\ DOMAIN own(number) = 1 .. count
        /\ \A n \in 1 .. count : own(number)[n] = part[Place(owned, n)]
        /\ \A n \in 1 .. count : Place(owned, n) \in owned
    <3> DEFINE at == AtPlaces(part, owned)
    <3>1. own(number) = at
      BY DEF owned
    <3>2. /\ count \in Nat /\ count <= Len(part)
          /\ DOMAIN at = 1 .. count
          /\ \A n \in 1 .. count : at[n] = part[Place(owned, n)]
          /\ \A n \in 1 .. count : Place(owned, n) \in owned
      BY <2>1, PlacesOfPart
    <3> HIDE DEF own, at, count
    <3> QED
      BY <3>1, <3>2
  <2> HIDE DEF own
  <2>3. named = [n \in 1 .. count |-> part[Place(owned, n)][2]]
    BY <2>2
  <2>4. \A n \in 1 .. count : part[Place(owned, n)][2] \in IdLines
    BY <2>1, <2>2, PartIs
  <2> HIDE DEF named, count
  <2>5. named \in [1 .. count -> IdLines]
    BY <2>3, <2>4
  <2>6. /\ named \in Seq(IdLines) /\ DOMAIN named = 1 .. count /\ Len(named) = count
        /\ \A n \in 1 .. count : named[n] = part[Place(owned, n)][2]
    BY <2>2, <2>3, <2>5
  <2> QED
    BY <2>2, <2>6 DEF named, owned, count
<1>5. ASSUME NEW k \in 1 .. size
      PROVE  /\ Grouped(part)[k][1] = NumberOf(part, k)
             /\ IdsOfShard(Grouped(part)[k]) = ids(NumberOf(part, k))
  <2> HIDE DEF ids, heads
  <2> QED
    BY <1>3 DEF IdsOfShard
<1>6. DOMAIN Grouped(part) = 1 .. size /\ Len(Grouped(part)) = size
  <2> HIDE DEF heads, ids
  <2>1. DOMAIN Grouped(part) = 1 .. size
    BY <1>1, <1>2
  <2> DEFINE entry(k) == <<heads[k][1], ids(heads[k][1])>>
  <2>2. Grouped(part) = [k \in 1 .. size |-> entry(k)]
    BY <1>1, <1>2
  <2> HIDE DEF entry, size
  <2> QED
    BY <1>2, <2>1, <2>2
<1> HIDE DEF ids, size, heads
<1>7. ASSUME NEW k \in 1 .. size
      PROVE  LET owned == Owned(part, NumberOf(part, k))
                 shard == Grouped(part)[k]
             IN  /\ shard[1] = NumberOf(part, k) /\ NumberOf(part, k) \in Nat
                 /\ Cardinality(owned) \in Nat /\ Cardinality(owned) <= Len(part)
                 /\ IdsOfShard(shard) \in Seq(IdLines)
                 /\ DOMAIN IdsOfShard(shard) = 1 .. Cardinality(owned)
                 /\ Len(IdsOfShard(shard)) = Cardinality(owned)
                 /\ \A n \in 1 .. Cardinality(owned) :
                      IdsOfShard(shard)[n] = part[Place(owned, n)][2]
  BY <1>3, <1>4, <1>5
<1> QED
  BY <1>2, <1>6, <1>7 DEF size

(* Entries come in the order of their batches, so each group is a run.     *)
Ascending(part) == \A m, n \in DOMAIN part : m <= n => part[m][1] <= part[n][1]
HeadAt(part, k) == Place(Heads(part), k)
EndOfRun(part, k) == IF k = Cardinality(Heads(part)) THEN Len(part) ELSE HeadAt(part, k + 1) - 1

LEMMA HeadsAre ==
  ASSUME NEW part \in Parts
  PROVE  /\ Cardinality(Heads(part)) \in Nat
         /\ \A k \in 1 .. Cardinality(Heads(part)) :
              /\ HeadAt(part, k) \in DOMAIN part /\ HeadAt(part, k) \in 1 .. Len(part)
              /\ HeadAt(part, k) = 1 \/ part[HeadAt(part, k) - 1][1] # NumberOf(part, k)
              /\ part[HeadAt(part, k)][1] = NumberOf(part, k) /\ NumberOf(part, k) \in Nat
         /\ \A j, k \in 1 .. Cardinality(Heads(part)) : j < k => HeadAt(part, j) < HeadAt(part, k)
<1>1. /\ Cardinality(Heads(part)) \in Nat
      /\ \A k \in 1 .. Cardinality(Heads(part)) : HeadAt(part, k) \in Heads(part)
      /\ \A j, k \in 1 .. Cardinality(Heads(part)) : j < k => HeadAt(part, j) < HeadAt(part, k)
  BY PartIs, PlacesOfPart DEF HeadAt
<1>2. ASSUME NEW k \in 1 .. Cardinality(Heads(part))
      PROVE  /\ HeadAt(part, k) \in DOMAIN part /\ HeadAt(part, k) \in 1 .. Len(part)
             /\ HeadAt(part, k) = 1 \/ part[HeadAt(part, k) - 1][1] # NumberOf(part, k)
             /\ part[HeadAt(part, k)][1] = NumberOf(part, k) /\ NumberOf(part, k) \in Nat
  <2>1. HeadAt(part, k) \in DOMAIN part
    BY <1>1 DEF Heads
  <2>2. HeadAt(part, k) = 1 \/ part[HeadAt(part, k) - 1][1] # part[HeadAt(part, k)][1]
    BY <1>1 DEF Heads
  <2>3. part[HeadAt(part, k)][1] = NumberOf(part, k)
    BY DEF HeadAt, NumberOf
  <2> QED
    BY <2>1, <2>2, <2>3, PartIs
<1> QED
  BY <1>1, <1>2

LEMMA BelowHead ==
  ASSUME NEW part \in Parts, Ascending(part), NEW k \in 1 .. Cardinality(Heads(part)),
         NEW n \in DOMAIN part, n < HeadAt(part, k)
  PROVE  part[n][1] < NumberOf(part, k)
<1> DEFINE head == HeadAt(part, k)
<1>1. /\ head \in 1 .. Len(part) /\ head \in DOMAIN part
      /\ head = 1 \/ part[head - 1][1] # NumberOf(part, k)
      /\ part[head][1] = NumberOf(part, k) /\ NumberOf(part, k) \in Nat
  BY HeadsAre
<1>2. n \in 1 .. Len(part) /\ DOMAIN part = 1 .. Len(part) /\ Len(part) \in Nat
  BY PartIs
<1> HIDE DEF head
<1>3. n < head
  BY DEF head
<1>4. head - 1 \in DOMAIN part /\ n <= head - 1 /\ head - 1 <= head /\ head # 1
  BY <1>1, <1>2, <1>3
<1>5. part[n][1] <= part[head - 1][1] /\ part[head - 1][1] <= part[head][1]
  BY <1>1, <1>4 DEF Ascending
<1>6. part[n][1] \in Nat /\ part[head - 1][1] \in Nat
  BY <1>4, PartIs
<1> QED
  BY <1>1, <1>4, <1>5, <1>6

LEMMA NumbersAscend ==
  ASSUME NEW part \in Parts, Ascending(part),
         NEW j \in 1 .. Cardinality(Heads(part)), NEW k \in 1 .. Cardinality(Heads(part)), j < k
  PROVE  NumberOf(part, j) < NumberOf(part, k)
<1>1. HeadAt(part, j) \in DOMAIN part /\ HeadAt(part, j) < HeadAt(part, k)
      /\ part[HeadAt(part, j)][1] = NumberOf(part, j)
  BY HeadsAre
<1>2. part[HeadAt(part, j)][1] < NumberOf(part, k)
  BY <1>1, BelowHead
<1> QED
  BY <1>1, <1>2

LEMMA NumbersDiffer ==
  ASSUME NEW part \in Parts, Ascending(part),
         NEW j \in 1 .. Cardinality(Heads(part)), NEW k \in 1 .. Cardinality(Heads(part)),
         NumberOf(part, j) = NumberOf(part, k)
  PROVE  j = k
<1>1. NumberOf(part, j) \in Nat /\ Cardinality(Heads(part)) \in Nat
  BY HeadsAre
<1>2. ~(j < k) /\ ~(k < j)
  BY <1>1, NumbersAscend
<1> QED
  BY <1>1, <1>2

(* No entry is left out of the groups.                                     *)
LEMMA EachIsGrouped ==
  ASSUME NEW part \in Parts, NEW m \in DOMAIN part
  PROVE  \E k \in 1 .. Cardinality(Heads(part)) : NumberOf(part, k) = part[m][1]
<1> DEFINE owned == Owned(part, part[m][1])
<1>1. owned \in SUBSET DOMAIN part
  BY PartIs
<1>2. IsFiniteSet(owned) /\ owned \in SUBSET Nat
  <2> HIDE DEF owned
  <2> QED
    BY <1>1, PlacesOfPart
<1>3. m \in owned
  BY DEF Owned
<1>4. PICK n \in owned : \A l \in owned : n <= l
  <2> HIDE DEF owned
  <2> QED
    BY <1>2, <1>3, LeastPlace
<1>5. n \in 1 .. Len(part) /\ part[n][1] = part[m][1] /\ DOMAIN part = 1 .. Len(part) /\ Len(part) \in Nat
  BY PartIs DEF Owned
<1>6. n \in Heads(part)
  <2> SUFFICES ASSUME n # 1, part[n - 1][1] = part[n][1] PROVE FALSE
    BY <1>5 DEF Heads
  <2>1. n - 1 \in 1 .. Len(part) /\ ~(n <= n - 1)
    BY <1>5
  <2>2. n - 1 \in owned
    BY <1>5, <2>1 DEF Owned
  <2> HIDE DEF owned
  <2> QED
    BY <1>4, <2>1, <2>2
<1>7. /\ Rank(Heads(part), n) \in 1 .. Cardinality(Heads(part))
      /\ Place(Heads(part), Rank(Heads(part), n)) = n
  BY <1>6, PartIs, PlacesOfPart
<1>8. NumberOf(part, Rank(Heads(part), n)) = part[m][1]
  BY <1>5, <1>7 DEF NumberOf
<1> QED
  BY <1>7, <1>8

LEMMA RunIs ==
  ASSUME NEW part \in Parts, Ascending(part), NEW k \in 1 .. Cardinality(Heads(part))
  PROVE  /\ EndOfRun(part, k) \in HeadAt(part, k) .. Len(part)
         /\ Owned(part, NumberOf(part, k)) = HeadAt(part, k) .. EndOfRun(part, k)
<1> DEFINE size == Cardinality(Heads(part))
           from == HeadAt(part, k)
           to == EndOfRun(part, k)
           number == NumberOf(part, k)
<1>1. Len(part) \in Nat /\ DOMAIN part = 1 .. Len(part) /\ \A n \in DOMAIN part : part[n][1] \in Nat
  BY PartIs
<1>2. size \in Nat /\ from \in 1 .. Len(part) /\ part[from][1] = number /\ number \in Nat
  BY HeadsAre
<1>3. k # size => /\ k + 1 \in 1 .. size /\ k < k + 1
                  /\ HeadAt(part, k + 1) \in 1 .. Len(part) /\ from < HeadAt(part, k + 1)
                  /\ NumberOf(part, k + 1) \in Nat /\ number < NumberOf(part, k + 1)
                  /\ part[HeadAt(part, k + 1)][1] = NumberOf(part, k + 1)
  <2> SUFFICES ASSUME k # size
               PROVE  /\ k + 1 \in 1 .. size /\ k < k + 1
                      /\ HeadAt(part, k + 1) \in 1 .. Len(part) /\ from < HeadAt(part, k + 1)
                      /\ NumberOf(part, k + 1) \in Nat /\ number < NumberOf(part, k + 1)
                      /\ part[HeadAt(part, k + 1)][1] = NumberOf(part, k + 1)
    OBVIOUS
  <2>1. k + 1 \in 1 .. size /\ k < k + 1
    BY <1>2
  <2> QED
    BY <2>1, HeadsAre, NumbersAscend
<1>4. to \in from .. Len(part)
  <2>1. CASE k = size
    BY <1>1, <1>2, <2>1 DEF EndOfRun
  <2>2. CASE k # size
    <3>1. to = HeadAt(part, k + 1) - 1
      BY <2>2 DEF EndOfRun
    <3> HIDE DEF to, from
    <3> QED
      BY <1>1, <1>2, <1>3, <2>2, <3>1
  <2> QED
    BY <2>1, <2>2
<1>5. ASSUME NEW n \in from .. to PROVE n \in Owned(part, number)
  <2>1. n \in DOMAIN part /\ from <= n /\ from \in DOMAIN part
    BY <1>1, <1>2, <1>4
  <2>2. part[from][1] <= part[n][1]
    BY <2>1 DEF Ascending
  <2>3. PICK j \in 1 .. size : NumberOf(part, j) = part[n][1]
    BY <2>1, EachIsGrouped
  <2>4. j \in Nat /\ k \in Nat /\ NumberOf(part, j) \in Nat
    BY <1>2, HeadsAre
  <2>5. ~(j < k)
    <3> SUFFICES ASSUME j < k PROVE FALSE
      OBVIOUS
    <3>1. NumberOf(part, j) < number
      BY NumbersAscend
    <3> QED
      BY <1>2, <2>2, <2>3, <2>4, <3>1
  <2>6. ~(k < j)
    <3> SUFFICES ASSUME k < j PROVE FALSE
      OBVIOUS
    <3>1. k # size /\ (j = k + 1 \/ k + 1 < j)
      BY <1>2, <2>4
    <3>2. NumberOf(part, k + 1) <= NumberOf(part, j)
      <4>1. CASE j = k + 1
        BY <2>4, <4>1
      <4>2. CASE k + 1 < j
        <5>1. NumberOf(part, k + 1) < NumberOf(part, j)
          BY <1>3, <3>1, <4>2, NumbersAscend
        <5> QED
          BY <1>3, <2>4, <3>1, <5>1
      <4> QED
        BY <3>1, <4>1, <4>2
    <3>3. n < HeadAt(part, k + 1)
      <4>1. to = HeadAt(part, k + 1) - 1
        BY <3>1 DEF EndOfRun
      <4> HIDE DEF to, from
      <4> QED
        BY <1>1, <1>2, <1>3, <1>4, <3>1, <4>1
    <3>4. part[n][1] < NumberOf(part, k + 1)
      BY <1>3, <2>1, <3>1, <3>3, BelowHead
    <3> QED
      BY <1>3, <2>3, <2>4, <3>1, <3>2, <3>4
  <2>7. j = k
    BY <2>4, <2>5, <2>6
  <2> QED
    BY <2>1, <2>3, <2>7 DEF Owned
<1>6. ASSUME NEW n \in Owned(part, number) PROVE n \in from .. to
  <2>1. n \in DOMAIN part /\ part[n][1] = number /\ n \in 1 .. Len(part)
    BY <1>1 DEF Owned
  <2>2. from <= n
    <3> SUFFICES ASSUME n < from PROVE FALSE
      BY <1>2, <2>1
    <3>1. part[n][1] < number
      BY <2>1, BelowHead
    <3> QED
      BY <1>2, <2>1, <3>1
  <2>3. n <= to
    <3>1. CASE k = size
      BY <1>1, <2>1, <3>1 DEF EndOfRun
    <3>2. CASE k # size
      <4>1. to = HeadAt(part, k + 1) - 1
        BY <3>2 DEF EndOfRun
      <4>2. n < HeadAt(part, k + 1)
        <5> SUFFICES ASSUME HeadAt(part, k + 1) <= n PROVE FALSE
          BY <1>3, <2>1, <3>2
        <5>1. part[HeadAt(part, k + 1)][1] <= part[n][1]
          BY <1>1, <1>3, <2>1, <3>2 DEF Ascending
        <5> QED
          BY <1>2, <1>3, <2>1, <3>2, <5>1
      <4> HIDE DEF to, from
      <4> QED
        BY <1>3, <2>1, <3>2, <4>1, <4>2
    <3> QED
      BY <3>1, <3>2
  <2> QED
    BY <1>1, <1>2, <1>4, <2>1, <2>2, <2>3
<1> QED
  BY <1>4, <1>5, <1>6

(* The IDs of the groups, one group after another, are those of the part.  *)
IdsOf(part) == [n \in 1 .. Len(part) |-> part[n][2]]

LEMMA IdsAre ==
  ASSUME NEW part \in Parts
  PROVE  IdsOf(part) \in Seq(IdLines) /\ Len(IdsOf(part)) = Len(part)
<1>1. Len(part) \in Nat /\ \A n \in 1 .. Len(part) : part[n][2] \in IdLines
  BY PartIs
<1>2. IdsOf(part) \in [1 .. Len(part) -> IdLines]
  BY <1>1 DEF IdsOf
<1> DEFINE size == Len(part)
<1>3. size \in Nat /\ IdsOf(part) \in [1 .. size -> IdLines]
  BY <1>1, <1>2
<1> HIDE DEF size
<1>4. IdsOf(part) \in Seq(IdLines) /\ Len(IdsOf(part)) = size
  BY <1>3
<1> QED
  BY <1>4 DEF size

LEMMA FirstHead ==
  ASSUME NEW part \in Parts, Ascending(part), 1 \in 1 .. Cardinality(Heads(part))
  PROVE  HeadAt(part, 1) = 1
<1>1. HeadAt(part, 1) \in 1 .. Len(part) /\ Len(part) \in Nat /\ DOMAIN part = 1 .. Len(part)
  BY HeadsAre, PartIs
<1>2. ~(1 < HeadAt(part, 1))
  <2> SUFFICES ASSUME 1 < HeadAt(part, 1) PROVE FALSE
    OBVIOUS
  <2>1. 1 \in DOMAIN part
    BY <1>1
  <2>2. PICK j \in 1 .. Cardinality(Heads(part)) : NumberOf(part, j) = part[1][1]
    BY <2>1, EachIsGrouped
  <2>3. part[1][1] < NumberOf(part, 1)
    BY <2>1, BelowHead
  <2>4. NumberOf(part, 1) \in Nat /\ NumberOf(part, j) \in Nat /\ Cardinality(Heads(part)) \in Nat
    BY HeadsAre
  <2>5. j = 1 \/ 1 < j
    BY <2>4
  <2>6. 1 < j => NumberOf(part, 1) < NumberOf(part, j)
    BY NumbersAscend
  <2> QED
    BY <2>2, <2>3, <2>4, <2>5, <2>6
<1> QED
  BY <1>1, <1>2

LEMMA RegroupedIs ==
  ASSUME NEW part \in Parts, Ascending(part)
  PROVE  IdsOfBrowser(Grouped(part)) = IdsOf(part)
<1> DEFINE work == Grouped(part)
           size == Cardinality(Heads(part))
           seqs == [k \in DOMAIN work |-> IdsOfShard(work[k])]
           whole == IdsOf(part)
           ends == [k \in 0 .. size |-> IF k = 0 THEN 0 ELSE EndOfRun(part, k)]
<1>1. IdsOfBrowser(work) = FlattenSeq(seqs)
  BY DEF IdsOfBrowser
<1>2. size \in Nat /\ DOMAIN work = 1 .. size /\ Len(part) \in Nat /\ DOMAIN part = 1 .. Len(part)
  BY GroupedIs, PartIs
<1>3. whole \in Seq(IdLines) /\ Len(whole) = Len(part)
  BY IdsAre
<1>4. ASSUME NEW k \in 1 .. size
      PROVE  LET from == HeadAt(part, k)
                 to == EndOfRun(part, k)
             IN  /\ from \in 1 .. Len(part) /\ to \in from .. Len(part)
                 /\ IdsOfShard(work[k]) \in Seq(IdLines)
                 /\ Len(IdsOfShard(work[k])) = to - from + 1
                 /\ \A n \in 1 .. to - from + 1 : IdsOfShard(work[k])[n] = part[from + n - 1][2]
  <2> DEFINE from == HeadAt(part, k)
             to == EndOfRun(part, k)
             owned == Owned(part, NumberOf(part, k))
  <2>1. from \in 1 .. Len(part) /\ to \in from .. Len(part) /\ owned = from .. to
    BY HeadsAre, RunIs
  <2>2. /\ IdsOfShard(work[k]) \in Seq(IdLines)
        /\ Len(IdsOfShard(work[k])) = Cardinality(owned)
        /\ \A n \in 1 .. Cardinality(owned) : IdsOfShard(work[k])[n] = part[Place(owned, n)][2]
    BY GroupedIs
  <2> HIDE DEF owned, from, to, work
  <2>3. from \in Nat /\ to \in Nat /\ from <= to + 1
    BY <1>2, <2>1
  <2>4. /\ Cardinality(owned) = to - from + 1
        /\ \A n \in 1 .. to - from + 1 : Place(owned, n) = from + n - 1
    BY <2>1, <2>3, PlacesOfInterval
  <2>5. \A n \in 1 .. to - from + 1 : IdsOfShard(work[k])[n] = part[from + n - 1][2]
    BY <2>2, <2>4
  <2>6. Len(IdsOfShard(work[k])) = to - from + 1
    BY <2>2, <2>4
  <2> QED
    BY <2>1, <2>2, <2>5, <2>6 DEF from, to
<1>5. seqs \in Seq(Seq(IdLines)) /\ Len(seqs) = size
  <2>1. \A k \in 1 .. size : IdsOfShard(work[k]) \in Seq(IdLines)
    BY <1>4
  <2> HIDE DEF work, size
  <2>2. seqs \in [1 .. size -> Seq(IdLines)]
    BY <1>2, <2>1
  <2> HIDE DEF seqs
  <2> QED
    BY <1>2, <2>2
<1>6. CASE size = 0
  <2>1. Len(part) = 0
    <3> SUFFICES ASSUME Len(part) # 0 PROVE FALSE
      OBVIOUS
    <3>1. 1 \in DOMAIN part
      BY <1>2
    <3>2. PICK k \in 1 .. size : NumberOf(part, k) = part[1][1]
      BY <3>1, EachIsGrouped
    <3> HIDE DEF size
    <3> QED
      BY <1>2, <1>6
  <2>2. FlattenSeq(seqs) = seqs
    <3> HIDE DEF seqs
    <3> QED
      BY <1>5, <1>6 DEF FlattenSeq
  <2>3. seqs = <<>> /\ whole = <<>>
    <3> HIDE DEF seqs, whole
    <3> QED
      BY <1>3, <1>5, <1>6, <2>1, EmptySeq
  <2> QED
    BY <1>1, <2>2, <2>3
<1>7. CASE size # 0
  <2>1. 1 \in 1 .. size /\ HeadAt(part, 1) = 1
    BY <1>2, <1>7, FirstHead
  <2>2. ends[0] = 0 /\ ends[size] = Len(part)
    BY <1>2, <1>7 DEF EndOfRun
  <2>3. ends \in [0 .. size -> 0 .. Len(part)]
    <3>1. ASSUME NEW k \in 0 .. size PROVE ends[k] \in 0 .. Len(part)
      <4>1. CASE k = 0
        BY <1>2, <2>2, <4>1
      <4>2. CASE k # 0
        <5>1. k \in 1 .. size /\ ends[k] = EndOfRun(part, k)
          BY <1>2, <4>2
        <5>2. HeadAt(part, k) \in 1 .. Len(part) /\ EndOfRun(part, k) \in HeadAt(part, k) .. Len(part)
          BY <1>4, <5>1
        <5> HIDE DEF ends
        <5> QED
          BY <1>2, <5>1, <5>2
      <4> QED
        BY <4>1, <4>2
    <3> HIDE DEF size
    <3> QED
      BY <3>1
  <2>4. ASSUME NEW k \in 1 .. size
        PROVE  ends[k - 1] = HeadAt(part, k) - 1 /\ ends[k] = EndOfRun(part, k)
    <3>1. k - 1 \in 0 .. size /\ k \in 0 .. size /\ k # 0 /\ k - 1 # size /\ (k - 1) + 1 = k
      BY <1>2
    <3>2. CASE k = 1
      BY <2>1, <2>2, <3>1, <3>2
    <3>3. CASE k # 1
      <4>1. k - 1 # 0 /\ ends[k - 1] = EndOfRun(part, k - 1)
        BY <3>1, <3>3
      <4> HIDE DEF ends
      <4>2. EndOfRun(part, k - 1) = HeadAt(part, (k - 1) + 1) - 1
        BY <3>1 DEF EndOfRun
      <4>3. ends[k] = EndOfRun(part, k)
        BY <3>1 DEF ends
      <4> QED
        BY <3>1, <4>1, <4>2, <4>3
    <3> QED
      BY <3>2, <3>3
  <2>5. ASSUME NEW k \in 1 .. size
        PROVE  /\ ends[k] = ends[k - 1] + Len(seqs[k])
               /\ \A n \in 1 .. Len(seqs[k]) : seqs[k][n] = whole[ends[k - 1] + n]
    <3> DEFINE from == HeadAt(part, k)
               to == EndOfRun(part, k)
               shard == seqs[k]
    <3>1. shard = IdsOfShard(work[k])
      BY <1>2
    <3>2. from \in 1 .. Len(part) /\ to \in from .. Len(part) /\ ends[k - 1] = from - 1 /\ ends[k] = to
      BY <1>4, <2>4
    <3>3. /\ Len(shard) = to - from + 1
          /\ \A n \in 1 .. to - from + 1 : shard[n] = part[from + n - 1][2]
      <4> HIDE DEF shard, work
      <4> QED
        BY <1>4, <3>1
    <3> HIDE DEF shard, ends, from, to, whole
    <3>4. ends[k] = ends[k - 1] + Len(shard)
      BY <1>2, <3>2, <3>3
    <3>5. ASSUME NEW n \in 1 .. Len(shard) PROVE shard[n] = whole[ends[k - 1] + n]
      <4>1. n \in 1 .. to - from + 1 /\ ends[k - 1] + n = from + n - 1 /\ from + n - 1 \in 1 .. Len(part)
        BY <1>2, <3>2, <3>3
      <4> QED
        BY <3>3, <4>1 DEF whole, IdsOf
    <3> QED
      BY <3>4, <3>5 DEF shard
  <2> HIDE DEF seqs, whole, ends, size
  <2>6. Pieces(seqs, whole, ends)
    BY <1>3, <1>5, <2>2, <2>3, <2>5 DEF Pieces
  <2>7. FlattenSeq(seqs) = whole
    BY <1>3, <1>5, <1>7, <2>6, FlattenIs
  <2> QED
    BY <1>1, <2>7 DEF whole
<1> QED
  BY <1>6, <1>7

-----------------------------------------------------------------------------
(* Where the part of a browser begins, in closed form.                     *)
StartOf(all, count, k) == k * (all \div count) + LesserOf(k, all % count)
Share(entries, count, k) ==
  SubSeq(entries, StartOf(Len(entries), count, k - 1) + 1, StartOf(Len(entries), count, k))

LEMMA StartsAre ==
  ASSUME NEW all \in Nat, NEW count \in Nat \ {0}
  PROVE  /\ StartOf(all, count, 0) = 0 /\ StartOf(all, count, count) = all
         /\ \A k \in 0 .. count : StartOf(all, count, k) \in 0 .. all
         /\ \A k \in 1 .. count :
              StartOf(all, count, k) = StartOf(all, count, k - 1) + (all \div count)
                                         + (IF k - 1 < all % count THEN 1 ELSE 0)
<1> DEFINE base == all \div count
           rest == all % count
<1>1. base \in Nat /\ rest \in 0 .. count - 1 /\ all = base * count + rest
  BY Division
<1>2. \A k \in Nat : StartOf(all, count, k) = k * base + LesserOf(k, rest)
  BY DEF StartOf
<1> HIDE DEF base, rest
<1>3. 0 * base = 0 /\ count * base = base * count
  BY <1>1
<1>4. StartOf(all, count, 0) = 0
  BY <1>1, <1>2, <1>3 DEF LesserOf
<1>5. StartOf(all, count, count) = all
  BY <1>1, <1>2, <1>3 DEF LesserOf
<1>6. ASSUME NEW k \in 0 .. count PROVE StartOf(all, count, k) \in 0 .. all
  <2>1. k \in Nat /\ k <= count /\ count \in Nat
    OBVIOUS
  <2>2. k * base \in Nat /\ count * base \in Nat /\ k * base <= count * base
    BY <1>1, <2>1, MultiplesGrow
  <2>3. LesserOf(k, rest) \in Nat /\ LesserOf(k, rest) <= rest
    BY <1>1, <2>1 DEF LesserOf
  <2> DEFINE a == k * base
             b == count * base
  <2>4. a \in Nat /\ b \in Nat /\ a <= b /\ all = b + rest /\ StartOf(all, count, k) = a + LesserOf(k, rest)
    BY <1>1, <1>2, <1>3, <2>1, <2>2
  <2> HIDE DEF a, b
  <2> QED
    BY <1>1, <2>3, <2>4
<1>7. ASSUME NEW k \in 1 .. count
      PROVE  StartOf(all, count, k) = StartOf(all, count, k - 1) + base + (IF k - 1 < rest THEN 1 ELSE 0)
  <2> DEFINE j == k - 1
             a == j * base
  <2>1. j \in Nat /\ k = j + 1 /\ k \in Nat
    OBVIOUS
  <2>2. a \in Nat /\ k * base = a + base
    BY <1>1, <2>1, ProductType, NextMultiple
  <2>3. LesserOf(k, rest) = LesserOf(j, rest) + (IF j < rest THEN 1 ELSE 0) /\ LesserOf(j, rest) \in Nat
    BY <1>1, <2>1 DEF LesserOf
  <2>4. StartOf(all, count, k) = k * base + LesserOf(k, rest) /\ StartOf(all, count, j) = a + LesserOf(j, rest)
    BY <1>2, <2>1
  <2> HIDE DEF a, j
  <2>5. StartOf(all, count, k) = StartOf(all, count, j) + base + (IF j < rest THEN 1 ELSE 0)
    BY <1>1, <2>2, <2>3, <2>4
  <2> QED
    BY <2>5 DEF j
<1> QED
  BY <1>4, <1>5, <1>6, <1>7 DEF base, rest

LEMMA StartsGrow ==
  ASSUME NEW all \in Nat, NEW count \in Nat \ {0}, NEW j \in Nat, NEW k \in Nat, j <= k
  PROVE  StartOf(all, count, j) <= StartOf(all, count, k)
<1> DEFINE base == all \div count
           rest == all % count
           a == j * base
           b == k * base
<1>1. base \in Nat /\ rest \in Nat
  BY Division
<1>2. StartOf(all, count, j) = a + LesserOf(j, rest) /\ StartOf(all, count, k) = b + LesserOf(k, rest)
  BY DEF StartOf
<1> HIDE DEF base, rest
<1>3. a \in Nat /\ b \in Nat /\ a <= b
  BY <1>1, MultiplesGrow
<1> HIDE DEF a, b
<1>4. /\ LesserOf(j, rest) \in Nat /\ LesserOf(k, rest) \in Nat
      /\ LesserOf(j, rest) <= LesserOf(k, rest)
  BY <1>1 DEF LesserOf
<1> QED
  BY <1>2, <1>3, <1>4

(* A share is a piece of the entries, and in their order.                  *)
LEMMA ShareIs ==
  ASSUME NEW entries \in Parts, NEW count \in Nat \ {0}, NEW k \in 1 .. count
  PROVE  LET before == StartOf(Len(entries), count, k - 1)
             through == StartOf(Len(entries), count, k)
             share == Share(entries, count, k)
         IN  /\ before \in 0 .. Len(entries) /\ through \in before .. Len(entries)
             /\ through = before + (Len(entries) \div count)
                            + (IF k - 1 < Len(entries) % count THEN 1 ELSE 0)
             /\ share \in Parts /\ Len(share) = through - before
             /\ \A n \in 1 .. through - before :
                  share[n] = entries[before + n] /\ before + n \in DOMAIN entries
             /\ Ascending(entries) => Ascending(share)
<1> DEFINE all == Len(entries)
           before == StartOf(all, count, k - 1)
           through == StartOf(all, count, k)
           share == Share(entries, count, k)
           more == IF k - 1 < all % count THEN 1 ELSE 0
<1>1. all \in Nat /\ DOMAIN entries = 1 .. all /\ \A n \in 1 .. all : entries[n] \in Nat \X IdLines
  BY DEF Parts
<1>2. k - 1 \in 0 .. count /\ k \in 0 .. count
  OBVIOUS
<1> HIDE DEF all
<1>3. before \in 0 .. all /\ through \in 0 .. all /\ through = before + (all \div count) + more
  BY <1>1, <1>2, StartsAre
<1>4. all \div count \in Nat /\ more \in Nat
  BY <1>1, Division
<1>5. share = SubSeq(entries, before + 1, through)
  BY DEF Share, all
<1> HIDE DEF before, through, more, share
<1>6. before <= through
  BY <1>3, <1>4
<1>7. /\ share \in Seq(Nat \X IdLines) /\ Len(share) = through - before
      /\ \A n \in 1 .. through - before : share[n] = entries[before + n]
  <2> DEFINE from == before + 1
  <2>1. from \in Int /\ through \in Int /\ from = before + 1
    BY <1>3
  <2>2. \A n \in from .. through : entries[n] \in Nat \X IdLines
    BY <1>1, <1>3, <1>6
  <2>3. share = SubSeq(entries, from, through)
    BY <1>5
  <2> HIDE DEF from
  <2>4. /\ share \in Seq(Nat \X IdLines)
        /\ Len(share) = IF from <= through THEN through - from + 1 ELSE 0
        /\ \A n \in 1 .. through - from + 1 : share[n] = entries[from + n - 1]
    BY <2>1, <2>2, <2>3, SubSeqProperties
  <2>5. Len(share) = through - before
    BY <1>3, <1>6, <2>1, <2>4
  <2>6. ASSUME NEW n \in 1 .. through - before PROVE share[n] = entries[before + n]
    <3>1. n \in 1 .. through - from + 1 /\ from + n - 1 = before + n
      BY <1>3, <1>6, <2>1
    <3> QED
      BY <2>4, <3>1
  <2> QED
    BY <2>4, <2>5, <2>6
<1>8. share \in Parts
  BY <1>7 DEF Parts
<1>9. \A n \in 1 .. through - before : before + n \in DOMAIN entries
  BY <1>1, <1>3, <1>6
<1>10. Ascending(entries) => Ascending(share)
  <2> SUFFICES ASSUME Ascending(entries), NEW m \in DOMAIN share, NEW n \in DOMAIN share, m <= n
               PROVE  share[m][1] <= share[n][1]
    BY DEF Ascending
  <2>1. DOMAIN share = 1 .. through - before
    BY <1>7, <1>8, PartIs
  <2>2. m \in 1 .. through - before /\ n \in 1 .. through - before /\ before + m <= before + n
    BY <1>3, <2>1
  <2> QED
    BY <1>7, <1>9, <2>2 DEF Ascending
<1> QED
  BY <1>3, <1>6, <1>7, <1>8, <1>9, <1>10 DEF before, through, share, more, all

-----------------------------------------------------------------------------
(* What an attempt selects, and what its entries are.                      *)
Begin == IF startBatch < 1 THEN 1 ELSE startBatch
End == LesserOf(endBatch, Len(Batches(lines)))

InputTypes ==
  /\ lines \in Files
  /\ startBatch \in Nat /\ endBatch \in Nat
  /\ browserCount \in BrowserCounts

LEMMA BoundsOfSelection ==
  ASSUME InputTypes
  PROVE  /\ Begin \in Nat \ {0} /\ End \in Nat /\ End <= Len(Batches(lines))
         /\ browserCount \in Nat \ {0}
<1>1. Len(Batches(lines)) \in Nat
  BY BatchesAre DEF InputTypes
<1> DEFINE count == Len(Batches(lines))
<1> HIDE DEF count
<1>2. count \in Nat
  BY <1>1 DEF count
<1>3. End \in Nat /\ End <= count
  BY <1>2 DEF InputTypes, End, LesserOf, count
<1> QED
  BY <1>3, PartitioningAssumption DEF InputTypes, Begin, count

LEMMA SelectionIs ==
  ASSUME InputTypes
  PROVE  /\ Selected # <<>> => Begin <= End
         /\ Begin <= End => /\ Selected = Consecutive(Begin, End)
                            /\ DOMAIN Selected = 1 .. End - Begin + 1
                            /\ Selected[1] = Begin /\ Selected[Len(Selected)] = End
<1>1. Begin \in Nat \ {0} /\ End \in Nat
  BY BoundsOfSelection
<1>2. Selected = [k \in 1 .. (IF Begin <= End THEN End - Begin + 1 ELSE 0) |-> Begin + k - 1]
  BY DEF Selected, Begin, End
<1>3. ~(Begin <= End) => Selected = <<>>
  BY <1>2
<1>4. ASSUME Begin <= End
      PROVE  /\ Selected = Consecutive(Begin, End)
             /\ DOMAIN Selected = 1 .. End - Begin + 1
             /\ Selected[1] = Begin /\ Selected[Len(Selected)] = End
  <2> DEFINE size == End - Begin + 1
  <2>1. size \in Nat \ {0} /\ Begin + 1 - 1 = Begin /\ Begin + size - 1 = End
    BY <1>1, <1>4
  <2>2. Selected = [k \in 1 .. size |-> Begin + k - 1]
    BY <1>2, <1>4
  <2>3. Selected = Consecutive(Begin, End)
    BY <2>2 DEF Consecutive
  <2> HIDE DEF size
  <2>4. Len(Selected) = size /\ DOMAIN Selected = 1 .. size
    <3>1. Selected \in [1 .. size -> Int]
      BY <1>1, <2>2
    <3> QED
      BY <2>1, <3>1
  <2>5. 1 \in 1 .. size /\ size \in 1 .. size
    BY <2>1
  <2> QED
    BY <2>1, <2>2, <2>3, <2>4, <2>5 DEF size
<1> QED
  BY <1>3, <1>4

LEMMA EntriesOfSelection ==
  ASSUME InputTypes, Begin <= End
  PROVE  /\ NumberedIds(lines, Selected) = Entries(lines, Begin, End)
         /\ Entries(lines, Begin, End) \in Parts
<1>1. lines \in Files /\ Begin \in Nat \ {0} /\ End \in Nat /\ End <= Len(Batches(lines))
  BY BoundsOfSelection DEF InputTypes
<1>2. Selected = Consecutive(Begin, End)
  BY SelectionIs
<1> QED
  BY <1>1, <1>2, NumberedIs, EntriesAre DEF Parts

(* Entries are in the order of their batches.                              *)
LEMMA EntriesAscend ==
  ASSUME NEW file \in Files, NEW begin \in Nat \ {0}, NEW end \in Nat,
         begin <= end, end <= Len(Batches(file))
  PROVE  Ascending(Entries(file, begin, end))
<1> DEFINE size == Through(file, end) - Before(begin)
           part == Entries(file, begin, end)
           batch(p) == begin + ((p - 1) \div BatchSize)
<1>1. size \in Nat /\ BatchSize \in Nat \ {0}
  BY EntriesAre, PartitioningAssumption
<1>2. DOMAIN part = 1 .. size /\ \A p \in 1 .. size : part[p][1] = batch(p)
  BY DEF Entries
<1> HIDE DEF size, part
<1>3. ASSUME NEW m \in 1 .. size, NEW n \in 1 .. size, m <= n PROVE batch(m) <= batch(n)
  <2> DEFINE a == m - 1
             b == n - 1
  <2>1. a \in Nat /\ b \in Nat /\ a <= b
    BY <1>1, <1>3
  <2> HIDE DEF a, b
  <2>2. a \div BatchSize \in Nat /\ b \div BatchSize \in Nat /\ a \div BatchSize <= b \div BatchSize
    BY <1>1, <2>1
  <2>3. begin + (a \div BatchSize) <= begin + (b \div BatchSize)
    BY <2>2
  <2> QED
    BY <2>3 DEF a, b
<1>4. Ascending(part)
  BY <1>2, <1>3 DEF Ascending
<1> QED
  BY <1>4 DEF part

-----------------------------------------------------------------------------
(* What has been dealt out is a function of the file, the bounds of the    *)
(* selection and the number of browsers.                                   *)
Shares(entries, count, size) == [k \in 1 .. size |-> Grouped(Share(entries, count, k))]

Dealt(size) ==
  /\ Begin <= End
  /\ numbered = Entries(lines, Begin, End)
  /\ size \in 0 .. browserCount
  /\ assignments = Shares(numbered, browserCount, size)
  /\ offset = StartOf(Len(numbered), browserCount, size)

NothingDealt == numbered = <<>> /\ offset = 0 /\ assignments = <<>>

DealtInv ==
  /\ pc \in {"select", "assign", "done", "run", "rejected"}
  /\ pc = "select" => NothingDealt
  /\ pc = "assign" => \E size \in 0 .. browserCount : Dealt(size)
  /\ pc \in {"done", "run"} => Dealt(browserCount)
  /\ pc = "rejected" => NothingDealt \/ Dealt(browserCount)

(* The shards of the first attempt are those of its file under what the    *)
(* manifest says, and an attempt that runs agrees with the manifest.       *)
Configurations ==
  [startBatch : Nat \ {0}, endBatch : Nat, browserCount : BrowserCounts, idCount : Nat]

FirstShards(c) ==
  LET entries == Entries(first.lines, c.startBatch, c.endBatch)
  IN  /\ c \in Configurations
      /\ first.lines \in Files
      /\ c.startBatch <= c.endBatch /\ c.endBatch <= Len(Batches(first.lines))
      /\ c.idCount = Len(entries)
      /\ first.assignments = Shares(entries, c.browserCount, c.browserCount)

FirstInv ==
  /\ manifest = {} \/ \E c \in manifest : manifest = {c} /\ FirstShards(c)
  /\ pc = "run" => manifest = {Configuration}

AttemptsInv == InputTypes /\ DealtInv /\ FirstInv

LEMMA BoundedIsFile ==
  ASSUME NEW file \in BoundedSeq(IdLines \cup {Junk}, MaxLines)
  PROVE  file \in Files
<1>1. PICK m \in 0 .. MaxLines : file \in [1 .. m -> IdLines \cup {Junk}]
  BY DEF BoundedSeq, SeqOf
<1>2. m \in Nat /\ m <= MaxLines
  BY PartitioningAssumption
<1>3. file \in Seq(IdLines \cup {Junk}) /\ Len(file) = m
  BY <1>1, <1>2
<1> QED
  BY <1>2, <1>3 DEF Files

LEMMA EditIsFile ==
  ASSUME lines \in Files
  PROVE  Edits \subseteq Files
<1> DEFINE L == IdLines \cup {Junk}
           size == Len(lines)
<1>1. lines \in Seq(L) /\ size \in Nat /\ size <= MaxLines /\ DOMAIN lines = 1 .. size
  BY DEF Files
<1>2. \A n \in 1 .. size : lines[n] \in L
  BY <1>1
<1>3. ASSUME NEW n \in DOMAIN lines, NEW l \in L PROVE [lines EXCEPT ![n] = l] \in Files
  <2>1. [lines EXCEPT ![n] = l] \in Seq(L) /\ Len([lines EXCEPT ![n] = l]) = Len(lines)
    BY <1>1, ExceptSeq
  <2> QED
    BY <1>1, <2>1 DEF Files
<1>4. ASSUME NEW m \in DOMAIN lines, NEW n \in DOMAIN lines
      PROVE  [lines EXCEPT ![n] = lines[m], ![m] = lines[n]] \in Files
  <2> DEFINE half == [lines EXCEPT ![n] = lines[m]]
  <2>1. half \in Seq(L) /\ Len(half) = Len(lines)
    BY <1>1, <1>2, ExceptSeq
  <2> HIDE DEF half
  <2>2. [half EXCEPT ![m] = lines[n]] \in Seq(L) /\ Len([half EXCEPT ![m] = lines[n]]) = Len(half)
    BY <1>1, <1>2, <2>1, ExceptSeq
  <2>3. [lines EXCEPT ![n] = lines[m], ![m] = lines[n]] = [half EXCEPT ![m] = lines[n]]
    BY DEF half
  <2> QED
    BY <1>1, <2>1, <2>2, <2>3 DEF Files
<1>5. ASSUME NEW l \in L, Len(lines) < MaxLines PROVE Append(lines, l) \in Files
  <2>1. Append(lines, l) \in Seq(L) /\ Len(Append(lines, l)) = Len(lines) + 1
    BY <1>1
  <2> QED
    BY <1>1, <1>5, <2>1, PartitioningAssumption DEF Files
<1>6. ASSUME NEW e \in Edits PROVE e \in Files
  <2>1. \/ e = lines
        \/ \E n \in DOMAIN lines, l \in L : e = [lines EXCEPT ![n] = l]
        \/ \E n, m \in DOMAIN lines : e = [lines EXCEPT ![n] = lines[m], ![m] = lines[n]]
        \/ \E l \in L : Len(lines) < MaxLines /\ e = Append(lines, l)
    BY DEF Edits
  <2>2. CASE \E n \in DOMAIN lines, l \in L : e = [lines EXCEPT ![n] = l]
    BY <1>3, <2>2
  <2>3. CASE \E n, m \in DOMAIN lines : e = [lines EXCEPT ![n] = lines[m], ![m] = lines[n]]
    BY <1>4, <2>3
  <2>4. CASE \E l \in L : Len(lines) < MaxLines /\ e = Append(lines, l)
    BY <1>5, <2>4
  <2> QED
    BY <2>1, <2>2, <2>3, <2>4
<1> QED
  BY <1>6

-----------------------------------------------------------------------------
LEMMA SharesAre ==
  ASSUME NEW entries, NEW count, NEW size \in Nat
  PROVE  /\ DOMAIN Shares(entries, count, size) = 1 .. size
         /\ Len(Shares(entries, count, size)) = size
         /\ \A k \in 1 .. size : Shares(entries, count, size)[k] = Grouped(Share(entries, count, k))
         /\ Append(Shares(entries, count, size), Grouped(Share(entries, count, size + 1)))
              = Shares(entries, count, size + 1)
<1> DEFINE shard(k) == Grouped(Share(entries, count, k))
           shares == Shares(entries, count, size)
           X == {shard(k) : k \in 1 .. size + 1}
<1> HIDE DEF shard
<1>1. shares = [k \in 1 .. size |-> shard(k)]
  BY DEF Shares, shard
<1>2. Shares(entries, count, size + 1) = [k \in 1 .. size + 1 |-> shard(k)]
  BY DEF Shares, shard
<1>3. shares \in Seq(X) /\ Len(shares) = size /\ DOMAIN shares = 1 .. size
  <2>1. shares \in [1 .. size -> X]
    BY <1>1
  <2> HIDE DEF X
  <2> QED
    BY <2>1
<1>4. shard(size + 1) \in X
  OBVIOUS
<1>5. Append(shares, shard(size + 1)) = [k \in 1 .. size + 1 |-> shard(k)]
  <2> HIDE DEF X
  <2>1. Append(shares, shard(size + 1)) = [k \in 1 .. Len(shares) + 1 |->
                                             IF k <= Len(shares) THEN shares[k] ELSE shard(size + 1)]
    BY <1>3, <1>4
  <2>2. \A k \in 1 .. size + 1 : (IF k <= size THEN shares[k] ELSE shard(size + 1)) = shard(k)
    <3> SUFFICES ASSUME NEW k \in 1 .. size + 1
                 PROVE  (IF k <= size THEN shares[k] ELSE shard(size + 1)) = shard(k)
      OBVIOUS
    <3>1. k <= size \/ k = size + 1
      OBVIOUS
    <3>2. k <= size => shares[k] = shard(k)
      BY <1>1
    <3> HIDE DEF shares
    <3> QED
      BY <3>1, <3>2
  <2> QED
    BY <1>3, <2>1, <2>2
<1> QED
  BY <1>1, <1>2, <1>3, <1>5 DEF shard

LEMMA InitAttempts == ManifestInit => AttemptsInv
<1> SUFFICES ASSUME ManifestInit PROVE AttemptsInv
  OBVIOUS
<1>1. InputTypes
  <2>1. lines \in Files
    BY BoundedIsFile DEF ManifestInit, Init
  <2>2. startBatch \in Nat /\ endBatch \in Nat /\ browserCount \in BrowserCounts
    BY PartitioningAssumption DEF ManifestInit, Init
  <2> QED
    BY <2>1, <2>2 DEF InputTypes
<1>2. DealtInv /\ FirstInv
  BY DEF ManifestInit, Init, DealtInv, NothingDealt, FirstInv
<1> QED
  BY <1>1, <1>2 DEF AttemptsInv

(* A step that leaves the arguments and the file alone.                    *)
LEMMA SameInput ==
  ASSUME InputTypes, UNCHANGED input
  PROVE  InputTypes' /\ Begin' = Begin /\ End' = End
BY DEF InputTypes, input, Begin, End

LEMMA SelectStep ==
  ASSUME AttemptsInv, SelectBatches
  PROVE  DealtInv'
<1> USE DEF SelectBatches, AttemptsInv
<1>1. NothingDealt /\ InputTypes
  BY DEF DealtInv
<1>2. Begin <= End /\ Begin' = Begin /\ End' = End /\ browserCount' = browserCount /\ lines' = lines
  BY <1>1, SelectionIs, SameInput DEF input
<1>3. numbered' = Entries(lines, Begin, End) /\ numbered' \in Parts
  BY <1>1, <1>2, EntriesOfSelection
<1>4. browserCount \in Nat \ {0} /\ Len(numbered') \in Nat
  BY <1>1, <1>3, BoundsOfSelection, PartIs
<1>5. assignments' = <<>> /\ offset' = 0
  BY <1>1 DEF NothingDealt
<1>6. Shares(numbered', browserCount, 0) = <<>>
  BY DEF Shares
<1>7. StartOf(Len(numbered'), browserCount, 0) = 0
  BY <1>4, StartsAre
<1>8. Dealt(0)' /\ 0 \in 0 .. browserCount'
  BY <1>2, <1>3, <1>4, <1>5, <1>6, <1>7 DEF Dealt
<1> QED
  BY <1>8 DEF DealtInv

LEMMA AssignStep ==
  ASSUME AttemptsInv, AssignBrowser
  PROVE  DealtInv'
<1> USE DEF AttemptsInv
<1>1. PICK size \in 0 .. browserCount : Dealt(size)
  BY DEF AssignBrowser, DealtInv
<1>2. InputTypes /\ UNCHANGED <<pc, input, numbered>> /\ pc = "assign" /\ Len(assignments) < browserCount
  BY DEF AssignBrowser
<1>3. Begin' = Begin /\ End' = End /\ browserCount' = browserCount /\ lines' = lines
  BY <1>2, SameInput DEF input
<1>4. browserCount \in Nat \ {0} /\ size \in Nat
  BY <1>2, BoundsOfSelection
<1>5. numbered = Entries(lines, Begin, End) /\ numbered \in Parts /\ Len(numbered) \in Nat
  BY <1>1, <1>2, EntriesOfSelection, PartIs DEF Dealt
<1>6. assignments = Shares(numbered, browserCount, size) /\ Len(assignments) = size
  BY <1>1, <1>4, SharesAre DEF Dealt
<1>7. size + 1 \in 1 .. browserCount /\ (size + 1) - 1 = size
  BY <1>2, <1>4, <1>6
<1> DEFINE all == Len(numbered)
           before == StartOf(all, browserCount, size)
           through == StartOf(all, browserCount, size + 1)
           more == IF size < all % browserCount THEN 1 ELSE 0
<1>8. /\ before \in 0 .. all /\ through \in before .. all
      /\ through = before + (all \div browserCount) + more
  <2> DEFINE k == size + 1
  <2>1. k \in 1 .. browserCount /\ k - 1 = size
    BY <1>7
  <2> HIDE DEF k
  <2>2. /\ StartOf(all, browserCount, k - 1) \in 0 .. all
        /\ StartOf(all, browserCount, k) \in StartOf(all, browserCount, k - 1) .. all
        /\ StartOf(all, browserCount, k) = StartOf(all, browserCount, k - 1) + (all \div browserCount)
                                             + (IF k - 1 < all % browserCount THEN 1 ELSE 0)
    BY <1>4, <1>5, <2>1, ShareIs
  <2>3. /\ StartOf(all, browserCount, size) \in 0 .. all
        /\ StartOf(all, browserCount, k) \in StartOf(all, browserCount, size) .. all
        /\ StartOf(all, browserCount, k) = StartOf(all, browserCount, size) + (all \div browserCount)
                                             + (IF size < all % browserCount THEN 1 ELSE 0)
    BY <2>1, <2>2
  <2> QED
    BY <2>3 DEF k
<1>9. PartSize(size) = (all \div browserCount) + more /\ all \div browserCount \in Nat
  BY <1>4, <1>5, Division DEF PartSize, BaseSize, Remainder
<1>10. offset = before
  BY <1>1 DEF Dealt
<1> HIDE DEF before, through, more
<1>11. more \in Nat
  BY DEF more
<1>12. offset + PartSize(size) = through /\ LesserOf(offset + PartSize(size), all) = through
  <2>1. offset + PartSize(size) = through
    BY <1>5, <1>8, <1>9, <1>10, <1>11
  <2>2. through <= all /\ through \in Nat
    BY <1>5, <1>8
  <2> QED
    BY <1>5, <2>1, <2>2 DEF LesserOf
<1>13. SubSeq(numbered, offset + 1, LesserOf(offset + PartSize(size), all))
         = Share(numbered, browserCount, size + 1)
  BY <1>7, <1>10, <1>12 DEF Share, before, through
<1>14. /\ assignments' = Append(assignments, Grouped(Share(numbered, browserCount, size + 1)))
       /\ offset' = through
  BY <1>6, <1>12, <1>13 DEF AssignBrowser, NextOffset
<1>15. assignments' = Shares(numbered, browserCount, size + 1)
  BY <1>4, <1>6, <1>14, SharesAre
<1>16. Dealt(size + 1)' /\ size + 1 \in 0 .. browserCount'
  BY <1>1, <1>2, <1>3, <1>5, <1>7, <1>14, <1>15 DEF Dealt, through
<1> QED
  BY <1>2, <1>16 DEF DealtInv

(* The other steps leave what is dealt alone, or begin again.              *)
LEMMA OtherSteps ==
  ASSUME AttemptsInv,
         \/ RejectSelection \/ FinishAssignments
         \/ CreateManifest \/ AcceptManifest \/ RefuseManifest \/ UNCHANGED vars
  PROVE  DealtInv'
<1> USE DEF AttemptsInv
<1>1. UNCHANGED <<input, numbered, offset, assignments>>
  BY DEF RejectSelection, FinishAssignments, CreateManifest, AcceptManifest, RefuseManifest,
         vars, partitionVars
<1>2. Begin' = Begin /\ End' = End /\ browserCount' = browserCount /\ lines' = lines
  BY <1>1, SameInput DEF input
<1>3. NothingDealt => NothingDealt'
  BY <1>1 DEF NothingDealt
<1>4. ASSUME NEW size PROVE Dealt(size) => Dealt(size)'
  BY <1>1, <1>2 DEF Dealt
<1>5. browserCount \in Nat \ {0}
  BY BoundsOfSelection
<1>6. CASE RejectSelection
  BY <1>3, <1>6 DEF RejectSelection, DealtInv
<1>7. CASE FinishAssignments
  <2>1. PICK size \in 0 .. browserCount : Dealt(size)
    BY <1>7 DEF FinishAssignments, DealtInv
  <2>2. Len(assignments) = size
    BY <1>5, <2>1, SharesAre DEF Dealt
  <2>3. size = browserCount
    BY <1>7, <2>2 DEF FinishAssignments
  <2>4. Dealt(browserCount)'
    BY <1>2, <1>4, <2>1, <2>3
  <2> QED
    BY <1>7, <2>4 DEF FinishAssignments, DealtInv
<1>8. CASE CreateManifest \/ AcceptManifest \/ RefuseManifest
  <2>1. Dealt(browserCount) /\ pc' \in {"run", "rejected"}
    BY <1>8 DEF CreateManifest, AcceptManifest, RefuseManifest, DealtInv
  <2>2. Dealt(browserCount)'
    BY <1>2, <1>4, <2>1
  <2> QED
    BY <2>1, <2>2 DEF DealtInv
<1>9. CASE UNCHANGED vars
  <2>1. pc' = pc
    BY <1>9 DEF vars, partitionVars
  <2>2. Dealt(browserCount) => Dealt(browserCount)'
    BY <1>2, <1>4
  <2>3. pc = "assign" => \E size \in 0 .. browserCount' : Dealt(size)'
    <3> SUFFICES ASSUME pc = "assign" PROVE \E size \in 0 .. browserCount' : Dealt(size)'
      OBVIOUS
    <3>1. PICK size \in 0 .. browserCount : Dealt(size)
      BY DEF DealtInv
    <3>2. Dealt(size)'
      BY <1>4, <3>1
    <3> QED
      BY <1>2, <3>2
  <2> QED
    BY <1>3, <2>1, <2>2, <2>3 DEF DealtInv
<1> QED
  BY <1>6, <1>7, <1>8, <1>9

(* The manifest and what was dealt when it was made.                       *)
LEMMA FirstStep ==
  ASSUME AttemptsInv, [Next]_vars, InputTypes'
  PROVE  FirstInv'
<1> USE DEF AttemptsInv
<1>1. CASE CreateManifest
  <2>1. Dealt(browserCount) /\ UNCHANGED <<input, numbered, offset, assignments>>
    BY <1>1 DEF CreateManifest, DealtInv
  <2>2. /\ Begin <= End /\ Begin \in Nat \ {0} /\ End \in Nat /\ End <= Len(Batches(lines))
        /\ Selected[1] = Begin /\ Selected[Len(Selected)] = End
        /\ browserCount \in BrowserCounts /\ lines \in Files
    BY <2>1, BoundsOfSelection, SelectionIs DEF Dealt, InputTypes
  <2>3. numbered = Entries(lines, Begin, End) /\ Len(numbered) \in Nat
    BY <2>1, <2>2, EntriesOfSelection, PartIs DEF Dealt
  <2>4. assignments = Shares(numbered, browserCount, browserCount)
    BY <2>1 DEF Dealt
  <2>5. Configuration \in Configurations
    BY <2>2, <2>3 DEF Configurations, Configuration
  <2>6. PICK c \in Configurations : c = Configuration
    BY <2>5
  <2>7. /\ c.startBatch = Begin /\ c.endBatch = End
        /\ c.browserCount = browserCount /\ c.idCount = Len(numbered)
    BY <2>2, <2>6 DEF Configuration
  <2>8. Configuration' = Configuration
    BY <2>1 DEF Configuration, Selected, input
  <2>9. manifest' = {c} /\ first'.lines = lines /\ first'.assignments = assignments
    BY <1>1, <2>6 DEF CreateManifest
  <2>10. FirstShards(c)'
    <3>1. Entries(first'.lines, c.startBatch, c.endBatch) = numbered
      BY <2>3, <2>7, <2>9
    <3>2. first'.assignments = Shares(numbered, c.browserCount, c.browserCount)
      BY <2>4, <2>7, <2>9
    <3>3. c.startBatch <= c.endBatch /\ c.endBatch <= Len(Batches(first'.lines)) /\ first'.lines \in Files
      BY <2>2, <2>7, <2>9
    <3> QED
      BY <2>7, <3>1, <3>2, <3>3 DEF FirstShards
  <2> QED
    BY <2>6, <2>8, <2>9, <2>10 DEF FirstInv
<1>2. CASE AcceptManifest
  <2>1. UNCHANGED <<input, numbered, manifest, first>> /\ pc' = "run" /\ SameConfiguration /\ manifest # {}
    BY <1>2 DEF AcceptManifest
  <2>2. PICK c \in manifest : manifest = {c} /\ FirstShards(c)
    BY <2>1 DEF FirstInv
  <2>3. c = Configuration
    BY <2>1, <2>2 DEF SameConfiguration
  <2>4. Configuration' = Configuration
    BY <2>1 DEF Configuration, Selected, input
  <2>5. FirstShards(c)'
    BY <2>1, <2>2 DEF FirstShards
  <2> QED
    BY <2>1, <2>2, <2>3, <2>4, <2>5 DEF FirstInv
<1>3. ASSUME UNCHANGED <<manifest, first>>, pc' # "run"
      PROVE  FirstInv'
  BY <1>3 DEF FirstInv, FirstShards
<1>4. CASE Partition \/ RefuseManifest \/ NextAttempt
  <2>1. UNCHANGED <<manifest, first>> /\ pc' # "run"
    <3>1. CASE Partition
      BY <3>1 DEF Partition, Step, SelectBatches, RejectSelection, AssignBrowser, FinishAssignments
    <3>2. CASE RefuseManifest
      BY <3>2 DEF RefuseManifest
    <3>3. CASE NextAttempt
      BY <3>3 DEF NextAttempt
    <3> QED
      BY <1>4, <3>1, <3>2, <3>3
  <2> QED
    BY <1>3, <2>1
<1>5. CASE UNCHANGED vars
  <2>1. UNCHANGED <<input, numbered, manifest, first, pc>>
    BY <1>5 DEF vars, partitionVars
  <2>2. Configuration' = Configuration
    BY <2>1 DEF Configuration, Selected, input
  <2> QED
    BY <2>1, <2>2 DEF FirstInv, FirstShards
<1> QED
  BY <1>1, <1>2, <1>4, <1>5 DEF Next, Finished

LEMMA InputStep ==
  ASSUME InputTypes, [Next]_vars
  PROVE  InputTypes'
<1>1. CASE NextAttempt
  <2>1. lines' \in Files
    BY <1>1, EditIsFile DEF NextAttempt, InputTypes
  <2>2. startBatch' \in Nat /\ endBatch' \in Nat /\ browserCount' \in BrowserCounts
    BY <1>1, PartitioningAssumption DEF NextAttempt
  <2> QED
    BY <2>1, <2>2 DEF InputTypes
<1>2. CASE ~NextAttempt
  <2>1. UNCHANGED input
    <3>1. CASE Partition
      BY <3>1 DEF Partition, Step, SelectBatches, RejectSelection, AssignBrowser, FinishAssignments
    <3>2. CASE CreateManifest \/ AcceptManifest \/ RefuseManifest
      BY <3>2 DEF CreateManifest, AcceptManifest, RefuseManifest
    <3>3. CASE UNCHANGED vars
      BY <3>3 DEF vars, partitionVars
    <3> QED
      BY <1>2, <3>1, <3>2, <3>3 DEF Next, Finished
  <2> QED
    BY <2>1, SameInput
<1> QED
  BY <1>1, <1>2

LEMMA NextAttempts == AttemptsInv /\ [Next]_vars => AttemptsInv'
<1> SUFFICES ASSUME AttemptsInv, [Next]_vars PROVE AttemptsInv'
  OBVIOUS
<1>1. InputTypes'
  BY InputStep DEF AttemptsInv
<1>2. FirstInv'
  BY <1>1, FirstStep
<1>3. DealtInv'
  <2>1. CASE SelectBatches
    BY <2>1, SelectStep
  <2>2. CASE AssignBrowser
    BY <2>2, AssignStep
  <2>3. CASE \/ RejectSelection \/ FinishAssignments
             \/ CreateManifest \/ AcceptManifest \/ RefuseManifest \/ UNCHANGED vars
    BY <2>3, OtherSteps
  <2>4. CASE NextAttempt
    BY <2>4 DEF NextAttempt, DealtInv, NothingDealt
  <2> QED
    BY <2>1, <2>2, <2>3, <2>4 DEF Next, Partition, Step, Finished
<1> QED
  BY <1>1, <1>2, <1>3 DEF AttemptsInv

-----------------------------------------------------------------------------
(* What is dealt out is a function of the file and the arguments, and the  *)
(* manifest has the arguments of what was dealt out first.                 *)
THEOREM AttemptsInvariant == Spec => []AttemptsInv
<1> QED
  BY InitAttempts, NextAttempts, PTL DEF Spec

(* An attempt over the file of the first attempt has its shards.           *)
THEOREM SameShards == Spec => []ResumesSameShards
<1>1. AttemptsInv => ResumesSameShards
  <2> SUFFICES ASSUME AttemptsInv, pc = "run", lines = first.lines
               PROVE  assignments = first.assignments
    BY DEF ResumesSameShards
  <2>1. Dealt(browserCount) /\ InputTypes /\ manifest = {Configuration}
    BY DEF AttemptsInv, DealtInv, FirstInv
  <2>2. FirstShards(Configuration)
    BY <2>1 DEF AttemptsInv, FirstInv
  <2>3. /\ Configuration.startBatch = Begin /\ Configuration.endBatch = End
        /\ Configuration.browserCount = browserCount
    BY <2>1, SelectionIs DEF Configuration, Dealt
  <2> QED
    BY <2>1, <2>2, <2>3 DEF Dealt, FirstShards
<1> QED
  BY <1>1, AttemptsInvariant, PTL

-----------------------------------------------------------------------------
(* Parts of the same numbers are grouped into shards of the same sizes.    *)
ShapeOf(work) == [k \in DOMAIN work |-> <<work[k][1], Len(IdsOfShard(work[k]))>>]

LEMMA SameNumbersSameShape ==
  ASSUME NEW p \in Parts, NEW q \in Parts, Len(p) = Len(q),
         \A n \in 1 .. Len(p) : p[n][1] = q[n][1]
  PROVE  ShapeOf(Grouped(p)) = ShapeOf(Grouped(q))
<1>1. /\ DOMAIN p = 1 .. Len(p) /\ DOMAIN q = DOMAIN p /\ Len(p) \in Nat
      /\ \A n \in DOMAIN p : p[n][1] = q[n][1]
  BY PartIs
<1>2. Heads(p) = Heads(q)
  <2>1. \A n \in DOMAIN p : n # 1 => n - 1 \in DOMAIN p
    BY <1>1
  <2>2. \A n \in DOMAIN p : (n = 1 \/ p[n - 1][1] # p[n][1]) <=> (n = 1 \/ q[n - 1][1] # q[n][1])
    BY <1>1, <2>1
  <2> QED
    BY <1>1, <2>2 DEF Heads
<1>3. ASSUME NEW number PROVE Owned(p, number) = Owned(q, number)
  BY <1>1 DEF Owned
<1> DEFINE size == Cardinality(Heads(p))
<1>4. ASSUME NEW k \in 1 .. size PROVE NumberOf(p, k) = NumberOf(q, k)
  <2>1. Place(Heads(p), k) \in DOMAIN p
    BY HeadsAre DEF HeadAt
  <2> QED
    BY <1>1, <1>2, <2>1 DEF NumberOf
<1>5. ASSUME NEW k \in 1 .. size
      PROVE  /\ Grouped(p)[k][1] = Grouped(q)[k][1]
             /\ Len(IdsOfShard(Grouped(p)[k])) = Len(IdsOfShard(Grouped(q)[k]))
  <2>1. /\ Grouped(p)[k][1] = NumberOf(p, k)
        /\ Len(IdsOfShard(Grouped(p)[k])) = Cardinality(Owned(p, NumberOf(p, k)))
    BY GroupedIs
  <2>2. k \in 1 .. Cardinality(Heads(q))
    BY <1>2
  <2>3. /\ Grouped(q)[k][1] = NumberOf(q, k)
        /\ Len(IdsOfShard(Grouped(q)[k])) = Cardinality(Owned(q, NumberOf(q, k)))
    BY <2>2, GroupedIs
  <2> QED
    BY <1>3, <1>4, <2>1, <2>3
<1>6. DOMAIN Grouped(p) = 1 .. size /\ DOMAIN Grouped(q) = 1 .. size
  BY <1>2, GroupedIs
<1> HIDE DEF size
<1> QED
  BY <1>5, <1>6 DEF ShapeOf

LEMMA SameNumbersSameShapes ==
  ASSUME NEW e \in Parts, NEW f \in Parts, Len(e) = Len(f),
         \A n \in 1 .. Len(e) : e[n][1] = f[n][1],
         NEW count \in Nat \ {0}, NEW k \in 1 .. count
  PROVE  ShapeOf(Grouped(Share(e, count, k))) = ShapeOf(Grouped(Share(f, count, k)))
<1> DEFINE before == StartOf(Len(e), count, k - 1)
           through == StartOf(Len(e), count, k)
           p == Share(e, count, k)
           q == Share(f, count, k)
<1>1. /\ p \in Parts /\ Len(p) = through - before
      /\ \A n \in 1 .. through - before : p[n] = e[before + n] /\ before + n \in DOMAIN e
  BY ShareIs
<1>2. /\ StartOf(Len(f), count, k - 1) = before /\ StartOf(Len(f), count, k) = through
  OBVIOUS
<1>3. /\ q \in Parts /\ Len(q) = through - before
      /\ \A n \in 1 .. through - before : q[n] = f[before + n]
  <2> HIDE DEF before, through
  <2> QED
    BY <1>2, ShareIs
<1>4. DOMAIN e = 1 .. Len(e)
  BY PartIs
<1> HIDE DEF before, through, p, q
<1>5. \A n \in 1 .. Len(p) : p[n][1] = q[n][1]
  BY <1>1, <1>3, <1>4
<1>6. ShapeOf(Grouped(p)) = ShapeOf(Grouped(q))
  BY <1>1, <1>3, <1>5, SameNumbersSameShape
<1> QED
  BY <1>6 DEF p, q

(* An attempt that runs over another file has shards of the same batches   *)
(* and sizes.                                                              *)
THEOREM ShapeIsPinned == Spec => []ManifestPinsShape
<1>1. AttemptsInv => ManifestPinsShape
  <2> SUFFICES ASSUME AttemptsInv, pc = "run"
               PROVE  [b \in DOMAIN assignments |-> ShapeOf(assignments[b])]
                        = [b \in DOMAIN first.assignments |-> ShapeOf(first.assignments[b])]
    BY DEF ManifestPinsShape, ShapeOf
  <2>1. Dealt(browserCount) /\ InputTypes /\ manifest = {Configuration}
    BY DEF AttemptsInv, DealtInv, FirstInv
  <2>2. FirstShards(Configuration)
    BY <2>1 DEF AttemptsInv, FirstInv
  <2>3. /\ Configuration.startBatch = Begin /\ Configuration.endBatch = End
        /\ Configuration.browserCount = browserCount /\ Configuration.idCount = Len(numbered)
    BY <2>1, SelectionIs DEF Configuration, Dealt
  <2>4. /\ Begin <= End /\ Begin \in Nat \ {0} /\ End \in Nat /\ browserCount \in Nat \ {0}
        /\ lines \in Files /\ End <= Len(Batches(lines))
    BY <2>1, BoundsOfSelection DEF Dealt, InputTypes
  <2> DEFINE e == Entries(lines, Begin, End)
             f == Entries(first.lines, Begin, End)
  <2>5. /\ first.lines \in Files /\ End <= Len(Batches(first.lines))
        /\ first.assignments = Shares(f, browserCount, browserCount) /\ Len(f) = Len(numbered)
    BY <2>2, <2>3 DEF FirstShards
  <2>6. assignments = Shares(e, browserCount, browserCount) /\ Len(e) = Len(numbered)
    BY <2>1 DEF Dealt
  <2>7. /\ e \in Parts /\ Len(e) = Through(lines, End) - Before(Begin)
        /\ f \in Parts /\ Len(f) = Through(first.lines, End) - Before(Begin)
    BY <2>4, <2>5, EntriesAre DEF Parts
  <2>8. /\ \A n \in 1 .. Len(e) : e[n][1] = Begin + ((n - 1) \div BatchSize)
        /\ \A n \in 1 .. Len(f) : f[n][1] = Begin + ((n - 1) \div BatchSize)
    BY <2>7 DEF Entries
  <2> HIDE DEF e, f
  <2>9. Len(e) = Len(f) /\ \A n \in 1 .. Len(e) : e[n][1] = f[n][1]
    BY <2>5, <2>6, <2>8
  <2>10. ASSUME NEW b \in 1 .. browserCount
         PROVE  ShapeOf(assignments[b]) = ShapeOf(first.assignments[b])
    <3>1. assignments[b] = Grouped(Share(e, browserCount, b))
      BY <2>4, <2>6, SharesAre
    <3>2. first.assignments[b] = Grouped(Share(f, browserCount, b))
      BY <2>4, <2>5, SharesAre
    <3> QED
      BY <2>4, <2>7, <2>9, <3>1, <3>2, SameNumbersSameShapes
  <2>11. DOMAIN assignments = 1 .. browserCount /\ DOMAIN first.assignments = 1 .. browserCount
    BY <2>4, <2>5, <2>6, SharesAre
  <2> QED
    BY <2>10, <2>11
<1> QED
  BY <1>1, AttemptsInvariant, PTL

-----------------------------------------------------------------------------
(* What the browsers were given, one browser after another, is the input.  *)
LEMMA DealtInOrder ==
  ASSUME NEW entries \in Parts, Ascending(entries), NEW count \in Nat \ {0}, NEW size \in 0 .. count
  PROVE  FlattenSeq([b \in 1 .. size |-> IdsOfBrowser(Grouped(Share(entries, count, b)))])
           = [n \in 1 .. StartOf(Len(entries), count, size) |-> entries[n][2]]
<1> DEFINE all == Len(entries)
           start(k) == StartOf(all, count, k)
           ids(b) == IdsOfBrowser(Grouped(Share(entries, count, b)))
           seqs == [b \in 1 .. size |-> ids(b)]
           whole == [n \in 1 .. start(size) |-> entries[n][2]]
           ends == [k \in 0 .. size |-> start(k)]
<1>1. size \in Nat /\ size <= count /\ all \in Nat /\ \A n \in 1 .. all : entries[n][2] \in IdLines
  BY PartIs
<1>2. /\ start(0) = 0 /\ \A k \in 0 .. size : start(k) \in 0 .. all
  BY <1>1, StartsAre
<1>3. ASSUME NEW b \in 1 .. size
      PROVE  /\ ids(b) \in Seq(IdLines) /\ start(b - 1) \in 0 .. all /\ start(b) \in start(b - 1) .. all
             /\ Len(ids(b)) = start(b) - start(b - 1)
             /\ \A n \in 1 .. start(b) - start(b - 1) : ids(b)[n] = entries[start(b - 1) + n][2]
  <2> DEFINE share == Share(entries, count, b)
             before == start(b - 1)
             through == start(b)
  <2>1. b \in 1 .. count
    BY <1>1
  <2>2. /\ before \in 0 .. all /\ through \in before .. all
        /\ share \in Parts /\ Len(share) = through - before /\ Ascending(share)
        /\ \A n \in 1 .. through - before : share[n] = entries[before + n]
    BY <2>1, ShareIs
  <2> HIDE DEF share, before, through
  <2>3. IdsOfBrowser(Grouped(share)) = IdsOf(share)
    BY <2>2, RegroupedIs
  <2>4. IdsOf(share) \in Seq(IdLines) /\ Len(IdsOf(share)) = through - before
    BY <2>2, IdsAre
  <2>5. \A n \in 1 .. through - before : IdsOf(share)[n] = entries[before + n][2]
    BY <2>2 DEF IdsOf
  <2> QED
    BY <2>2, <2>3, <2>4, <2>5 DEF share, before, through
<1> HIDE DEF ids, all, start
<1>4. whole \in Seq(IdLines) /\ Len(whole) = start(size) /\ start(size) \in Nat
  <2> DEFINE top == start(size)
  <2>1. top \in Nat /\ top <= all
    BY <1>1, <1>2
  <2> HIDE DEF top
  <2>2. [n \in 1 .. top |-> entries[n][2]] \in [1 .. top -> IdLines]
    BY <1>1, <2>1
  <2>3. [n \in 1 .. top |-> entries[n][2]] \in Seq(IdLines)
        /\ Len([n \in 1 .. top |-> entries[n][2]]) = top
    BY <2>1, <2>2
  <2> QED
    BY <2>1, <2>3 DEF top
<1>5. seqs \in Seq(Seq(IdLines)) /\ Len(seqs) = size
  <2>1. seqs \in [1 .. size -> Seq(IdLines)]
    BY <1>3
  <2> QED
    BY <1>1, <2>1
<1>6. CASE size = 0
  <2>1. seqs = <<>> /\ whole = <<>>
    <3> HIDE DEF seqs, whole
    <3> QED
      BY <1>2, <1>4, <1>5, <1>6, EmptySeq
  <2>2. FlattenSeq(seqs) = seqs
    <3> HIDE DEF seqs
    <3> QED
      BY <1>5, <1>6 DEF FlattenSeq
  <2>3. FlattenSeq(seqs) = whole
    BY <2>1, <2>2
  <2> QED
    BY <2>3 DEF ids, start, all
<1>7. CASE size # 0
  <2>1. ends[0] = 0 /\ ends[size] = Len(whole)
    BY <1>1, <1>2, <1>4
  <2>2. ends \in [0 .. size -> 0 .. Len(whole)]
    <3>1. ASSUME NEW k \in 0 .. size PROVE start(k) \in 0 .. start(size)
      <4>1. k \in Nat /\ k <= size
        OBVIOUS
      <4>2. start(k) <= start(size)
        BY <1>1, <4>1, StartsGrow DEF start
      <4>3. start(k) \in Nat
        BY <1>2
      <4> QED
        BY <1>4, <4>2, <4>3
    <3> QED
      BY <1>4, <3>1
  <2>3. ASSUME NEW k \in 1 .. size
        PROVE  /\ ends[k] = ends[k - 1] + Len(seqs[k])
               /\ \A n \in 1 .. Len(seqs[k]) : seqs[k][n] = whole[ends[k - 1] + n]
    <3> DEFINE before == start(k - 1)
               through == start(k)
               piece == seqs[k]
               top == start(size)
    <3>1. ends[k - 1] = before /\ ends[k] = through /\ piece = ids(k)
      BY <1>1
    <3>2. /\ before \in Nat /\ through \in Nat /\ before <= through
          /\ Len(piece) = through - before
          /\ \A n \in 1 .. through - before : piece[n] = entries[before + n][2]
      <4>1. /\ before \in 0 .. all /\ through \in before .. all
            /\ Len(ids(k)) = through - before
            /\ \A n \in 1 .. through - before : ids(k)[n] = entries[before + n][2]
        BY <1>3
      <4> HIDE DEF before, through, piece
      <4> QED
        BY <1>1, <3>1, <4>1
    <3>3. through \in 0 .. Len(whole)
      BY <1>1, <2>2, <3>1
    <3>4. top \in Nat /\ through <= top
      BY <1>4, <3>3
    <3>5. \A n \in 1 .. top : whole[n] = entries[n][2]
      OBVIOUS
    <3> HIDE DEF before, through, piece, top, ends, whole
    <3>6. ends[k] = ends[k - 1] + Len(piece)
      BY <3>1, <3>2
    <3>7. ASSUME NEW n \in 1 .. Len(piece) PROVE piece[n] = whole[ends[k - 1] + n]
      <4>1. n \in 1 .. through - before /\ before + n \in 1 .. top
        BY <3>2, <3>4
      <4> QED
        BY <3>1, <3>2, <3>5, <4>1
    <3> QED
      BY <3>6, <3>7 DEF piece
  <2> HIDE DEF seqs, whole, ends
  <2>4. Pieces(seqs, whole, ends)
    BY <1>5, <2>1, <2>2, <2>3 DEF Pieces
  <2>5. FlattenSeq(seqs) = whole
    BY <1>4, <1>5, <1>7, <2>4, FlattenIs
  <2> QED
    BY <2>5 DEF seqs, whole, ids, start, all
<1> QED
  BY <1>6, <1>7

(* What is selected are entries, in the order of their batches.            *)
LEMMA DealtEntries ==
  ASSUME InputTypes, Begin <= End, numbered = Entries(lines, Begin, End)
  PROVE  numbered \in Parts /\ Ascending(numbered)
<1>1. lines \in Files /\ Begin \in Nat \ {0} /\ End \in Nat /\ End <= Len(Batches(lines))
  BY BoundsOfSelection DEF InputTypes
<1> QED
  BY <1>1, EntriesOfSelection, EntriesAscend

LEMMA ShareOfBrowser ==
  ASSUME InputTypes, Dealt(browserCount), NEW b \in 1 .. browserCount
  PROVE  /\ Share(numbered, browserCount, b) \in Parts
         /\ Ascending(Share(numbered, browserCount, b))
         /\ assignments[b] = Grouped(Share(numbered, browserCount, b))
<1>1. browserCount \in Nat \ {0}
  BY BoundsOfSelection
<1>2. numbered \in Parts /\ Ascending(numbered)
  BY DealtEntries DEF Dealt
<1>3. assignments = Shares(numbered, browserCount, browserCount)
  BY DEF Dealt
<1>4. assignments[b] = Grouped(Share(numbered, browserCount, b))
  BY <1>1, <1>3, SharesAre
<1> QED
  BY <1>1, <1>2, <1>4, ShareIs

(* What the browsers were given, one after another, is the input, and no   *)
(* browser has more than one ID more than another.                         *)
THEOREM RangesAreBalanced == Spec => []BalancedRanges
<1>1. ASSUME AttemptsInv PROVE BalancedRanges
  <2> DEFINE seqs == [b \in DOMAIN assignments |-> IdsOfBrowser(assignments[b])]
             given == [n \in 1 .. offset |-> numbered[n][2]]
  <2>1. InputTypes /\ browserCount \in Nat \ {0}
    BY <1>1, BoundsOfSelection DEF AttemptsInv
  <2>2. \/ NothingDealt
        \/ \E size \in 0 .. browserCount : Dealt(size)
    <3>1. browserCount \in 0 .. browserCount
      BY <2>1
    <3> QED
      BY <1>1, <3>1 DEF AttemptsInv, DealtInv
  <2>3. ASSUME NothingDealt
        PROVE  AssignedInOrder = given
    <3>1. seqs = <<>> /\ given = <<>>
      BY <2>3 DEF NothingDealt
    <3>2. FlattenSeq(seqs) = seqs
      <4> HIDE DEF seqs
      <4> QED
        BY <3>1 DEF FlattenSeq
    <3> QED
      BY <3>1, <3>2 DEF AssignedInOrder
  <2>4. ASSUME \E size \in 0 .. browserCount : Dealt(size)
        PROVE  AssignedInOrder = given
    <3>1. PICK size \in 0 .. browserCount : Dealt(size)
      BY <2>4
    <3>2. numbered \in Parts /\ Ascending(numbered)
      BY <2>1, <3>1, DealtEntries DEF Dealt
    <3>3. /\ DOMAIN assignments = 1 .. size
          /\ \A b \in 1 .. size : assignments[b] = Grouped(Share(numbered, browserCount, b))
      BY <3>1, SharesAre DEF Dealt
    <3>4. seqs = [b \in 1 .. size |-> IdsOfBrowser(Grouped(Share(numbered, browserCount, b)))]
      BY <3>3
    <3>5. offset = StartOf(Len(numbered), browserCount, size)
      BY <3>1 DEF Dealt
    <3> HIDE DEF seqs
    <3>6. FlattenSeq(seqs) = given
      BY <2>1, <3>2, <3>4, <3>5, DealtInOrder
    <3> QED
      BY <3>6 DEF AssignedInOrder, seqs
  <2>5. ASSUME pc = "done", NEW b \in DOMAIN assignments, NEW c \in DOMAIN assignments
        PROVE  Len(IdsOfBrowser(assignments[b])) <= Len(IdsOfBrowser(assignments[c])) + 1
    <3> DEFINE base == Len(numbered) \div browserCount
               size(k) == Len(IdsOfBrowser(assignments[k]))
    <3>1. Dealt(browserCount)
      BY <1>1, <2>5 DEF AttemptsInv, DealtInv
    <3>2. DOMAIN assignments = 1 .. browserCount
      BY <2>1, <3>1, SharesAre DEF Dealt
    <3>3. numbered \in Parts
      BY <2>1, <3>1, DealtEntries DEF Dealt
    <3>4. base \in Nat
      BY <2>1, <3>3, PartIs, Division
    <3>5. ASSUME NEW k \in 1 .. browserCount
          PROVE  size(k) \in Nat /\ base <= size(k) /\ size(k) <= base + 1
      <4> DEFINE share == Share(numbered, browserCount, k)
                 before == StartOf(Len(numbered), browserCount, k - 1)
                 through == StartOf(Len(numbered), browserCount, k)
                 more == IF k - 1 < Len(numbered) % browserCount THEN 1 ELSE 0
      <4>1. share \in Parts /\ Ascending(share) /\ assignments[k] = Grouped(share)
        BY <2>1, <3>1, ShareOfBrowser
      <4>2. /\ before \in 0 .. Len(numbered) /\ through = before + base + more
            /\ Len(share) = through - before
        BY <2>1, <3>3, ShareIs
      <4> HIDE DEF share
      <4>3. size(k) = Len(share)
        BY <4>1, RegroupedIs, IdsAre
      <4>4. before \in Nat /\ more \in 0 .. 1
        BY <3>3, <4>2, PartIs
      <4> HIDE DEF before, through, more, base, size
      <4> QED
        BY <3>4, <4>2, <4>3, <4>4
    <3>6. base <= size(c) /\ size(b) <= base + 1 /\ size(b) \in Nat /\ size(c) \in Nat
      BY <2>5, <3>2, <3>5
    <3> HIDE DEF base, size
    <3>7. size(b) <= size(c) + 1
      BY <3>4, <3>6
    <3> QED
      BY <3>7 DEF size
  <2>6. AssignedInOrder = given
    BY <2>2, <2>3, <2>4
  <2> QED
    BY <2>5, <2>6 DEF BalancedRanges
<1> QED
  BY <1>1, AttemptsInvariant, PTL

-----------------------------------------------------------------------------
(* The entries of a selection and the IDs of its batches.                  *)
LEMMA EntriesDiffer ==
  ASSUME NEW file \in Files, NEW begin \in Nat \ {0}, NEW end \in Nat,
         begin <= end, end <= Len(Batches(file)),
         NEW x \in DOMAIN Entries(file, begin, end), NEW y \in DOMAIN Entries(file, begin, end),
         Entries(file, begin, end)[x][2] = Entries(file, begin, end)[y][2]
  PROVE  x = y
<1> DEFINE size == Through(file, end) - Before(begin)
           u == Before(begin) + x
           v == Before(begin) + y
<1>1. size \in Nat /\ DOMAIN Entries(file, begin, end) = 1 .. size
  BY EntriesAre DEF Entries
<1>2. u \in 1 .. Len(UniqueIds(file)) /\ v \in 1 .. Len(UniqueIds(file))
  BY <1>1, EntriesAre
<1>3. UniqueIds(file)[u] = UniqueIds(file)[v]
  BY <1>1 DEF Entries
<1> HIDE DEF u, v
<1>4. u = v
  BY <1>2, <1>3, UniqueIdsAre
<1>5. Before(begin) \in Nat
  BY BeforeGrows
<1> QED
  BY <1>1, <1>4, <1>5 DEF u, v

(* An entry carries the number of the batch that its ID is in.             *)
LEMMA BatchOfEntry ==
  ASSUME NEW file \in Files, NEW begin \in Nat \ {0}, NEW end \in Nat,
         begin <= end, end <= Len(Batches(file)),
         NEW x \in DOMAIN Entries(file, begin, end)
  PROVE  LET e == Entries(file, begin, end)[x]
         IN  e[1] \in begin .. end /\ e[2] \in ToSet(Batches(file)[e[1]])
<1> DEFINE ids == UniqueIds(file)
           size == Through(file, end) - Before(begin)
           a == x - 1
           q == a \div BatchSize
           r == a % BatchSize
           n == begin + q
           u == Before(begin) + x
           whole == Entries(file, begin, end)
<1>1. size \in Nat /\ DOMAIN whole = 1 .. size /\ whole[x] = <<n, ids[u]>>
  BY EntriesAre DEF Entries
<1>0. x \in 1 .. size
  BY <1>1
<1>2. a \in Nat /\ x = a + 1 /\ BatchSize \in Nat \ {0}
  BY <1>1, PartitioningAssumption
<1>3. u \in 1 .. Len(ids) /\ Len(ids) \in Nat
  BY <1>1, EntriesAre, UniqueIdsAre
<1> HIDE DEF a, ids, whole
<1>4. q \in Nat /\ r \in 0 .. BatchSize - 1 /\ a = q * BatchSize + r
  BY <1>2, Division
<1> HIDE DEF q, r
<1>5. n \in Nat \ {0} /\ begin <= n
  BY <1>4
<1>6. Before(n) = Before(begin) + q * BatchSize
  <2> DEFINE c == begin - 1
  <2>1. c \in Nat /\ n - 1 = c + q
    BY <1>4
  <2>2. (c + q) * BatchSize = c * BatchSize + q * BatchSize
    <3> HIDE DEF c
    <3> QED
      BY <1>2, <1>4, <2>1
  <2> QED
    BY <2>1, <2>2 DEF Before
<1> DEFINE product == q * BatchSize
<1>7. product \in Nat
  BY <1>2, <1>4, ProductType
<1>8. Before(begin) \in Nat /\ Before(n) \in Nat
  BY <1>5, BeforeGrows
<1>9. u = Before(n) + r + 1 /\ r + 1 \in 1 .. BatchSize
  <2>1. Before(n) = Before(begin) + product /\ a = product + r
    BY <1>4, <1>6
  <2> HIDE DEF product, n
  <2> QED
    BY <1>2, <1>4, <1>7, <1>8, <2>1
<1> HIDE DEF n, product
<1>10. u <= Through(file, end) /\ Through(file, end) \in Nat /\ u \in Nat
  <2>1. end \in 1 .. Len(Batches(file))
    BY BatchesAre
  <2>2. Through(file, end) \in Nat
    BY <2>1, BatchesAre
  <2> QED
    BY <1>0, <1>1, <1>8, <2>2
<1>11. n <= end
  <2> SUFFICES ASSUME ~(n <= end) PROVE FALSE
    OBVIOUS
  <2>1. end + 1 \in Nat \ {0} /\ end + 1 <= n /\ (end + 1) - 1 = end
    BY <1>5
  <2>2. Before(end + 1) <= Before(n) /\ Before(end + 1) \in Nat
    BY <1>5, <2>1, BeforeGrows
  <2>3. Before(end + 1) = end * BatchSize
    BY <2>1 DEF Before
  <2> DEFINE top == end * BatchSize
  <2>4. Through(file, end) <= top /\ top \in Nat
    BY <1>2, <1>3, ProductType DEF Through, LesserOf, ids
  <2> HIDE DEF top, u
  <2>5. top <= Before(n)
    BY <2>2, <2>3 DEF top
  <2> QED
    BY <1>4, <1>8, <1>9, <1>10, <2>4, <2>5
<1>12. n \in 1 .. Len(Batches(file))
  BY <1>5, <1>11, BatchesAre
<1>13. /\ n * BatchSize = Before(n) + BatchSize
       /\ Batches(file)[n] \in Seq(IdLines)
       /\ Len(Batches(file)[n]) = Through(file, n) - Before(n)
       /\ \A m \in 1 .. Through(file, n) - Before(n) : Batches(file)[n][m] = ids[Before(n) + m]
  BY <1>12, BatchesAre DEF ids
<1> DEFINE m == r + 1
<1>14. m \in 1 .. Through(file, n) - Before(n) /\ Before(n) + m = u
  <2>1. Through(file, n) = LesserOf(Before(n) + BatchSize, Len(ids))
    BY <1>13 DEF Through, ids
  <2> HIDE DEF u
  <2> QED
    BY <1>2, <1>3, <1>4, <1>8, <1>9, <2>1 DEF LesserOf
<1> HIDE DEF m, u
<1>15. Batches(file)[n][m] = ids[u] /\ m \in DOMAIN Batches(file)[n]
  BY <1>13, <1>14
<1>16. ids[u] \in ToSet(Batches(file)[n])
  BY <1>15 DEF ToSet
<1> QED
  BY <1>1, <1>5, <1>11, <1>16 DEF whole

(* Every ID of the batches is in the entries.                              *)
LEMMA EntryOfBatch ==
  ASSUME NEW file \in Files, NEW begin \in Nat \ {0}, NEW end \in Nat,
         begin <= end, end <= Len(Batches(file)),
         NEW n \in begin .. end, NEW i \in ToSet(Batches(file)[n])
  PROVE  \E x \in DOMAIN Entries(file, begin, end) : Entries(file, begin, end)[x][2] = i
<1> DEFINE ids == UniqueIds(file)
           size == Through(file, end) - Before(begin)
<1>1. n \in 1 .. Len(Batches(file)) /\ n \in Nat \ {0} /\ begin <= n /\ n <= end
  BY BatchesAre
<1>2. /\ Through(file, n) \in Nat /\ Before(n) < Through(file, n)
      /\ Batches(file)[n] \in Seq(IdLines)
      /\ Len(Batches(file)[n]) = Through(file, n) - Before(n)
      /\ \A m \in 1 .. Through(file, n) - Before(n) : Batches(file)[n][m] = ids[Before(n) + m]
  BY <1>1, BatchesAre
<1>3. PICK m \in DOMAIN Batches(file)[n] : Batches(file)[n][m] = i
  BY DEF ToSet
<1>4. Before(begin) \in Nat /\ Before(n) \in Nat /\ Before(begin) <= Before(n)
  BY <1>1, BeforeGrows
<1>5. m \in 1 .. Through(file, n) - Before(n) /\ ids[Before(n) + m] = i
  BY <1>2, <1>3, <1>4
<1>6. Through(file, n) <= Through(file, end) /\ Through(file, end) \in Nat
  <2> DEFINE a == n * BatchSize
             b == end * BatchSize
             all == Len(ids)
  <2>1. a \in Nat /\ b \in Nat /\ a <= b /\ all \in Nat
    BY <1>1, MultiplesGrow, PartitioningAssumption, UniqueIdsAre
  <2>2. Through(file, n) = LesserOf(a, all) /\ Through(file, end) = LesserOf(b, all)
    BY DEF Through
  <2> HIDE DEF a, b, all
  <2> QED
    BY <2>1, <2>2 DEF LesserOf
<1> DEFINE x == Before(n) - Before(begin) + m
<1>7. x \in 1 .. size /\ Before(begin) + x = Before(n) + m
  <2> DEFINE a == Before(n)
             b == Before(begin)
             c == Through(file, n)
             d == Through(file, end)
  <2>1. a \in Nat /\ b \in Nat /\ c \in Nat /\ d \in Nat /\ b <= a /\ c <= d /\ m \in 1 .. c - a
    BY <1>2, <1>4, <1>5, <1>6
  <2> HIDE DEF a, b, c, d
  <2>2. a - b + m \in 1 .. d - b /\ b + (a - b + m) = a + m
    BY <2>1
  <2> QED
    BY <2>2 DEF a, b, c, d
<1>8. DOMAIN Entries(file, begin, end) = 1 .. size
  BY DEF Entries
<1> HIDE DEF x, ids
<1>9. Entries(file, begin, end)[x][2] = ids[Before(n) + m]
  BY <1>7 DEF Entries, ids
<1> QED
  BY <1>5, <1>7, <1>8, <1>9

-----------------------------------------------------------------------------
(* Where in a part the n-th ID of its k-th group comes from; each place of *)
(* the part goes to one group and one place of it.                         *)
PlaceInPart(part, k, n) == Place(Owned(part, NumberOf(part, k)), n)
Group(part, k) == 1 .. Cardinality(Owned(part, NumberOf(part, k)))
Groups(part) == 1 .. Cardinality(Heads(part))

LEMMA PlaceInPartIs ==
  ASSUME NEW part \in Parts, NEW k \in Groups(part), NEW n \in Group(part, k)
  PROVE  LET y == PlaceInPart(part, k, n)
         IN  /\ y \in DOMAIN part /\ part[y][1] = NumberOf(part, k)
             /\ Grouped(part)[k][1] = part[y][1]
             /\ IdsOfShard(Grouped(part)[k])[n] = part[y][2]
<1> DEFINE owned == Owned(part, NumberOf(part, k))
           y == PlaceInPart(part, k, n)
<1>1. owned \in SUBSET DOMAIN part
  BY PartIs
<1>2. k \in 1 .. Cardinality(Heads(part)) /\ n \in 1 .. Cardinality(owned)
  BY DEF Groups, Group
<1>3. y = Place(owned, n)
  BY DEF PlaceInPart
<1>4. Grouped(part)[k][1] = NumberOf(part, k) /\ IdsOfShard(Grouped(part)[k])[n] = part[y][2]
  BY <1>2, <1>3, GroupedIs
<1>5. y \in owned
  <2> HIDE DEF owned, y
  <2> QED
    BY <1>1, <1>2, <1>3, PlacesOfPart
<1>6. y \in DOMAIN part /\ part[y][1] = NumberOf(part, k)
  BY <1>5 DEF Owned
<1> QED
  BY <1>4, <1>6

LEMMA PlacesInPartDiffer ==
  ASSUME NEW part \in Parts, Ascending(part),
         NEW j \in Groups(part), NEW m \in Group(part, j),
         NEW k \in Groups(part), NEW n \in Group(part, k),
         PlaceInPart(part, j, m) = PlaceInPart(part, k, n)
  PROVE  j = k /\ m = n
<1>1. NumberOf(part, j) = NumberOf(part, k)
  BY PlaceInPartIs
<1>2. j = k
  BY <1>1, NumbersDiffer DEF Groups
<1> DEFINE owned == Owned(part, NumberOf(part, k))
<1>3. owned \in SUBSET DOMAIN part
  BY PartIs
<1>4. m \in 1 .. Cardinality(owned) /\ n \in 1 .. Cardinality(owned)
  BY <1>1 DEF Group
<1>5. Place(owned, m) = Place(owned, n)
  BY <1>1 DEF PlaceInPart
<1> HIDE DEF owned
<1>6. /\ owned \in SUBSET Nat
      /\ \A l \in 1 .. Cardinality(owned) : Place(owned, l) \in owned
      /\ \A a, b \in 1 .. Cardinality(owned) : a < b => Place(owned, a) < Place(owned, b)
  BY <1>3, PlacesOfPart
<1>7. ~(m < n) /\ ~(n < m)
  <2>1. Place(owned, m) \in Nat /\ Place(owned, n) \in Nat
    BY <1>4, <1>6
  <2>2. m < n => Place(owned, m) < Place(owned, n)
    BY <1>4, <1>6
  <2>3. n < m => Place(owned, n) < Place(owned, m)
    BY <1>4, <1>6
  <2> QED
    BY <1>5, <2>1, <2>2, <2>3
<1>8. m = n
  BY <1>4, <1>7
<1> QED
  BY <1>2, <1>8

LEMMA EveryPlaceOfPart ==
  ASSUME NEW part \in Parts, NEW y \in DOMAIN part
  PROVE  \E k \in Groups(part) : \E n \in Group(part, k) : PlaceInPart(part, k, n) = y
<1>1. PICK k \in Groups(part) : NumberOf(part, k) = part[y][1]
  BY EachIsGrouped DEF Groups
<1> DEFINE owned == Owned(part, NumberOf(part, k))
<1>2. owned \in SUBSET DOMAIN part
  BY PartIs
<1>3. y \in owned
  BY <1>1 DEF Owned
<1>4. Rank(owned, y) \in 1 .. Cardinality(owned) /\ Place(owned, Rank(owned, y)) = y
  <2> HIDE DEF owned
  <2> QED
    BY <1>2, <1>3, PlacesOfPart
<1> DEFINE n == Rank(owned, y)
<1>5. n \in Group(part, k) /\ PlaceInPart(part, k, n) = y
  BY <1>4 DEF Group, PlaceInPart
<1> QED
  BY <1>5

-----------------------------------------------------------------------------
(* Where in the entries that ID of browser b comes from.                   *)
Position(entries, count, b, k, n) ==
  StartOf(Len(entries), count, b - 1) + PlaceInPart(Share(entries, count, b), k, n)

LEMMA PositionIs ==
  ASSUME NEW entries \in Parts, NEW count \in Nat \ {0}, NEW b \in 1 .. count,
         NEW k \in Groups(Share(entries, count, b)), NEW n \in Group(Share(entries, count, b), k)
  PROVE  LET x == Position(entries, count, b, k, n)
             work == Grouped(Share(entries, count, b))
         IN  /\ x \in DOMAIN entries
             /\ StartOf(Len(entries), count, b - 1) < x /\ x <= StartOf(Len(entries), count, b)
             /\ work[k][1] = entries[x][1]
             /\ IdsOfShard(work[k])[n] = entries[x][2]
<1> DEFINE part == Share(entries, count, b)
           before == StartOf(Len(entries), count, b - 1)
           through == StartOf(Len(entries), count, b)
           y == PlaceInPart(part, k, n)
           x == Position(entries, count, b, k, n)
<1>1. /\ before \in 0 .. Len(entries) /\ through \in before .. Len(entries)
      /\ part \in Parts /\ Len(part) = through - before
      /\ \A m \in 1 .. through - before : part[m] = entries[before + m]
  BY ShareIs
<1>2. x = before + y
  BY DEF Position
<1> HIDE DEF part, before, through, y, x
<1>3. /\ y \in DOMAIN part
      /\ Grouped(part)[k][1] = part[y][1]
      /\ IdsOfShard(Grouped(part)[k])[n] = part[y][2]
  BY <1>1, PlaceInPartIs DEF part, y
<1>4. DOMAIN part = 1 .. Len(part) /\ DOMAIN entries = 1 .. Len(entries) /\ Len(entries) \in Nat
  BY <1>1, PartIs
<1>5. y \in 1 .. through - before
  BY <1>1, <1>3, <1>4
<1>6. part[y] = entries[x]
  BY <1>1, <1>2, <1>5
<1>7. x \in DOMAIN entries /\ before < x /\ x <= through
  BY <1>1, <1>2, <1>4, <1>5
<1> QED
  BY <1>3, <1>6, <1>7 DEF part, before, through, x

LEMMA PositionsDiffer ==
  ASSUME NEW entries \in Parts, Ascending(entries), NEW count \in Nat \ {0},
         NEW b \in 1 .. count, NEW c \in 1 .. count,
         NEW j \in Groups(Share(entries, count, b)), NEW m \in Group(Share(entries, count, b), j),
         NEW k \in Groups(Share(entries, count, c)), NEW n \in Group(Share(entries, count, c), k),
         Position(entries, count, b, j, m) = Position(entries, count, c, k, n)
  PROVE  b = c /\ j = k /\ m = n
<1> DEFINE start(l) == StartOf(Len(entries), count, l)
           x == Position(entries, count, b, j, m)
<1>1. x \in Nat /\ start(b - 1) < x /\ x <= start(b) /\ start(c - 1) < x /\ x <= start(c)
  <2>1. \A l \in DOMAIN entries : l \in Nat
    BY PartIs
  <2>2. x \in DOMAIN entries /\ start(b - 1) < x /\ x <= start(b)
    BY PositionIs
  <2>3. start(c - 1) < x /\ x <= start(c)
    BY PositionIs
  <2> QED
    BY <2>1, <2>2, <2>3
<1>2. Len(entries) \in Nat
  BY PartIs
<1>3. \A l \in 0 .. count : start(l) \in Nat
  <2>1. \A l \in 0 .. count : start(l) \in 0 .. Len(entries)
    BY <1>2, StartsAre
  <2> HIDE DEF start
  <2> QED
    BY <1>2, <2>1
<1>4. \A l, o \in Nat : l <= o => start(l) <= start(o)
  BY <1>2, StartsGrow
<1>5. b = c
  <2>1. b \in Nat /\ c \in Nat /\ b - 1 \in Nat /\ c - 1 \in Nat
        /\ b \in 0 .. count /\ c \in 0 .. count /\ b - 1 \in 0 .. count /\ c - 1 \in 0 .. count
    OBVIOUS
  <2> HIDE DEF start, x
  <2>2. ~(b <= c - 1)
    <3> SUFFICES ASSUME b <= c - 1 PROVE FALSE
      OBVIOUS
    <3>1. start(b) <= start(c - 1) /\ start(b) \in Nat /\ start(c - 1) \in Nat
      BY <1>3, <1>4, <2>1
    <3> QED
      BY <1>1, <3>1
  <2>3. ~(c <= b - 1)
    <3> SUFFICES ASSUME c <= b - 1 PROVE FALSE
      OBVIOUS
    <3>1. start(c) <= start(b - 1) /\ start(c) \in Nat /\ start(b - 1) \in Nat
      BY <1>3, <1>4, <2>1
    <3> QED
      BY <1>1, <3>1
  <2> QED
    BY <2>1, <2>2, <2>3
<1> DEFINE part == Share(entries, count, b)
<1>6. part \in Parts /\ Ascending(part) /\ start(b - 1) \in Nat
  <2>1. part \in Parts /\ Ascending(part)
    BY ShareIs
  <2>2. b - 1 \in 0 .. count
    OBVIOUS
  <2> HIDE DEF start, part
  <2> QED
    BY <1>3, <2>1, <2>2
<1>7. k \in Groups(part) /\ n \in Group(part, k)
  BY <1>5
<1>8. start(b - 1) + PlaceInPart(part, j, m) = start(b - 1) + PlaceInPart(part, k, n)
  BY <1>5 DEF Position
<1> HIDE DEF start, part
<1>9. PlaceInPart(part, j, m) \in Nat /\ PlaceInPart(part, k, n) \in Nat
  <2>1. PlaceInPart(part, j, m) \in DOMAIN part /\ PlaceInPart(part, k, n) \in DOMAIN part
    BY <1>6, <1>7, PlaceInPartIs DEF part
  <2>2. \A l \in DOMAIN part : l \in Nat
    BY <1>6, PartIs
  <2> QED
    BY <2>1, <2>2
<1>10. PlaceInPart(part, j, m) = PlaceInPart(part, k, n)
  BY <1>6, <1>8, <1>9
<1>11. j = k /\ m = n
  BY <1>6, <1>7, <1>10, PlacesInPartDiffer DEF part
<1> QED
  BY <1>5, <1>11

LEMMA EveryPosition ==
  ASSUME NEW entries \in Parts, NEW count \in Nat \ {0}, NEW x \in DOMAIN entries
  PROVE  \E b \in 1 .. count : \E k \in Groups(Share(entries, count, b)) :
           \E n \in Group(Share(entries, count, b), k) : Position(entries, count, b, k, n) = x
<1> DEFINE all == Len(entries)
           start(l) == StartOf(all, count, l)
           reaching == {l \in 1 .. count : x <= start(l)}
<1>1. all \in Nat /\ x \in 1 .. all
  BY PartIs
<1>2. start(0) = 0 /\ start(count) = all /\ \A l \in 0 .. count : start(l) \in Nat
  <2>1. start(0) = 0 /\ start(count) = all /\ \A l \in 0 .. count : start(l) \in 0 .. all
    BY <1>1, StartsAre
  <2> HIDE DEF start, all
  <2> QED
    BY <1>1, <2>1
<1> HIDE DEF start, all
<1>3. reaching \in SUBSET Nat /\ IsFiniteSet(reaching) /\ reaching # {}
  <2>1. reaching \in SUBSET (1 .. count) /\ IsFiniteSet(1 .. count)
    BY FS_Interval
  <2>2. count \in reaching
    BY <1>1, <1>2
  <2>3. IsFiniteSet(reaching)
    BY <2>1, FS_Subset
  <2> QED
    BY <2>1, <2>2, <2>3
<1>4. PICK b \in reaching : \A l \in reaching : b <= l
  <2> HIDE DEF reaching
  <2> QED
    BY <1>3, LeastPlace
<1>5. b \in 1 .. count /\ x <= start(b)
  OBVIOUS
<1>6. start(b - 1) < x /\ start(b - 1) \in Nat /\ start(b) \in Nat
  <2>1. b - 1 \in 0 .. count /\ b \in 0 .. count /\ ~(b <= b - 1)
    BY <1>5
  <2>2. CASE b = 1
    BY <1>1, <1>2, <2>1, <2>2
  <2>3. CASE b # 1
    <3>1. b - 1 \in 1 .. count
      BY <1>5, <2>3
    <3>2. b - 1 \notin reaching
      <4> HIDE DEF reaching
      <4> QED
        BY <1>4, <2>1
    <3>3. ~(x <= start(b - 1))
      BY <3>1, <3>2
    <3> QED
      BY <1>1, <1>2, <2>1, <3>3
  <2> QED
    BY <2>2, <2>3
<1> HIDE DEF reaching
<1> DEFINE part == Share(entries, count, b)
           y == x - start(b - 1)
<1>7. part \in Parts /\ Len(part) = start(b) - start(b - 1)
  BY <1>5, ShareIs DEF start, all
<1> HIDE DEF part
<1>8. y \in DOMAIN part /\ start(b - 1) + y = x
  <2>1. DOMAIN part = 1 .. Len(part)
    BY <1>7, PartIs
  <2> QED
    BY <1>1, <1>5, <1>6, <1>7, <2>1
<1> HIDE DEF y
<1>9. PICK k \in Groups(part) : \E n \in Group(part, k) : PlaceInPart(part, k, n) = y
  BY <1>7, <1>8, EveryPlaceOfPart
<1>10. PICK n \in Group(part, k) : PlaceInPart(part, k, n) = y
  BY <1>9
<1>11. Position(entries, count, b, k, n) = x
  BY <1>8, <1>10 DEF Position, start, all, part
<1> QED
  BY <1>5, <1>11 DEF part

-----------------------------------------------------------------------------
(* The IDs selected are those of the entries.                              *)
LEMMA SelectedAre ==
  ASSUME InputTypes, Begin <= End
  PROVE  LET entries == Entries(lines, Begin, End)
         IN  /\ \A x \in DOMAIN entries :
                  /\ entries[x][2] \in SelectedIds
                  /\ entries[x][2] \in ToSet(Batches(lines)[entries[x][1]])
             /\ \A i \in SelectedIds : \E x \in DOMAIN entries : entries[x][2] = i
<1> DEFINE entries == Entries(lines, Begin, End)
<1>1. lines \in Files /\ Begin \in Nat \ {0} /\ End \in Nat /\ End <= Len(Batches(lines))
  BY BoundsOfSelection DEF InputTypes
<1>2. /\ DOMAIN Selected = 1 .. End - Begin + 1
      /\ \A k \in 1 .. End - Begin + 1 : Selected[k] = Begin + k - 1
  BY SelectionIs DEF Consecutive
<1>3. \A k \in DOMAIN Selected : Selected[k] \in Begin .. End
  BY <1>1, <1>2
<1>4. ASSUME NEW n \in Begin .. End PROVE \E k \in DOMAIN Selected : Selected[k] = n
  <2> DEFINE k == n - Begin + 1
  <2>1. k \in 1 .. End - Begin + 1 /\ Begin + k - 1 = n
    BY <1>1
  <2> HIDE DEF k
  <2> QED
    BY <1>2, <2>1
<1>5. ASSUME NEW x \in DOMAIN entries
      PROVE  /\ entries[x][2] \in SelectedIds
             /\ entries[x][2] \in ToSet(Batches(lines)[entries[x][1]])
  <2>1. /\ entries[x][1] \in Begin .. End
        /\ entries[x][2] \in ToSet(Batches(lines)[entries[x][1]])
    BY <1>1, BatchOfEntry
  <2> HIDE DEF entries
  <2>2. PICK k \in DOMAIN Selected : Selected[k] = entries[x][1]
    BY <1>4, <2>1
  <2> QED
    BY <2>1, <2>2 DEF SelectedIds
<1>6. ASSUME NEW i \in SelectedIds PROVE \E x \in DOMAIN entries : entries[x][2] = i
  <2>1. PICK k \in DOMAIN Selected : i \in ToSet(Batches(lines)[Selected[k]])
    BY DEF SelectedIds
  <2> DEFINE n == Selected[k]
             file == lines
             begin == Begin
             end == End
  <2>2. n \in begin .. end /\ i \in ToSet(Batches(file)[n])
    BY <1>3, <2>1
  <2>3. file \in Files /\ begin \in Nat \ {0} /\ end \in Nat /\ begin <= end /\ end <= Len(Batches(file))
    BY <1>1
  <2> HIDE DEF n, file, begin, end, entries
  <2>4. \E x \in DOMAIN Entries(file, begin, end) : Entries(file, begin, end)[x][2] = i
    <3>1. \A m \in begin .. end : \A j \in ToSet(Batches(file)[m]) :
            \E x \in DOMAIN Entries(file, begin, end) : Entries(file, begin, end)[x][2] = j
      BY <2>3, EntryOfBatch
    <3> QED
      BY <2>2, <3>1
  <2> QED
    BY <2>4 DEF file, begin, end, entries
<1> QED
  BY <1>5, <1>6

(* The places of IDs are those of the positions, and nothing else.         *)
LEMMA PlacesAre ==
  ASSUME InputTypes, Dealt(browserCount)
  PROVE  /\ \A p \in Places :
              /\ p = <<p[1], p[2], p[3]>> /\ p[1] \in 1 .. browserCount
              /\ p[2] \in Groups(Share(numbered, browserCount, p[1]))
              /\ p[3] \in Group(Share(numbered, browserCount, p[1]), p[2])
         /\ \A b \in 1 .. browserCount : \A k \in Groups(Share(numbered, browserCount, b)) :
              \A n \in Group(Share(numbered, browserCount, b), k) : <<b, k, n>> \in Places
<1>1. browserCount \in Nat \ {0} /\ numbered \in Parts /\ Len(numbered) <= MaxLines
  <2>1. lines \in Files /\ Begin \in Nat \ {0} /\ End \in Nat /\ End <= Len(Batches(lines))
    BY BoundsOfSelection DEF InputTypes
  <2> QED
    BY <2>1, BoundsOfSelection, DealtEntries, EntriesAre DEF Dealt
<1>2. ASSUME NEW b \in 1 .. browserCount
      PROVE  LET part == Share(numbered, browserCount, b)
             IN  /\ DOMAIN assignments[b] = Groups(part)
                 /\ \A k \in Groups(part) :
                      /\ DOMAIN IdsOfShard(assignments[b][k]) = Group(part, k)
                      /\ k \in 1 .. MaxLines
                      /\ \A n \in Group(part, k) : n \in 1 .. MaxLines
  <2> DEFINE part == Share(numbered, browserCount, b)
             before == StartOf(Len(numbered), browserCount, b - 1)
             through == StartOf(Len(numbered), browserCount, b)
  <2>1. part \in Parts /\ assignments[b] = Grouped(part)
    BY ShareOfBrowser
  <2>2. /\ before \in 0 .. Len(numbered) /\ through \in before .. Len(numbered)
        /\ Len(part) = through - before
    BY <1>1, ShareIs
  <2> HIDE DEF part, before, through
  <2>3. Len(part) \in Nat /\ Len(part) <= MaxLines /\ MaxLines \in Nat
    BY <1>1, <2>2, PartIs, PartitioningAssumption
  <2>4. /\ Cardinality(Heads(part)) \in Nat /\ Cardinality(Heads(part)) <= Len(part)
        /\ DOMAIN Grouped(part) = Groups(part)
    BY <2>1, GroupedIs DEF Groups
  <2>5. ASSUME NEW k \in Groups(part)
        PROVE  /\ DOMAIN IdsOfShard(Grouped(part)[k]) = Group(part, k)
               /\ k \in 1 .. MaxLines
               /\ \A n \in Group(part, k) : n \in 1 .. MaxLines
    <3> DEFINE size == Cardinality(Owned(part, NumberOf(part, k)))
    <3>1. k \in 1 .. Cardinality(Heads(part))
      BY DEF Groups
    <3>2. /\ size \in Nat /\ size <= Len(part)
          /\ DOMAIN IdsOfShard(Grouped(part)[k]) = 1 .. size
      BY <2>1, <3>1, GroupedIs
    <3>3. Group(part, k) = 1 .. size
      BY DEF Group
    <3> HIDE DEF size
    <3> QED
      BY <2>3, <2>4, <3>1, <3>2, <3>3
  <2> QED
    BY <2>1, <2>4, <2>5 DEF part
<1>3. ASSUME NEW p \in Places
      PROVE  /\ p = <<p[1], p[2], p[3]>> /\ p[1] \in 1 .. browserCount
             /\ p[2] \in Groups(Share(numbered, browserCount, p[1]))
             /\ p[3] \in Group(Share(numbered, browserCount, p[1]), p[2])
  <2>1. /\ p \in (1 .. browserCount) \X (1 .. MaxLines) \X (1 .. MaxLines)
        /\ p[2] \in DOMAIN assignments[p[1]]
        /\ p[3] \in DOMAIN IdsOfShard(assignments[p[1]][p[2]])
    BY DEF Places
  <2>2. p = <<p[1], p[2], p[3]>> /\ p[1] \in 1 .. browserCount
    BY <2>1
  <2> QED
    BY <1>2, <2>1, <2>2
<1>4. ASSUME NEW b \in 1 .. browserCount, NEW k \in Groups(Share(numbered, browserCount, b)),
             NEW n \in Group(Share(numbered, browserCount, b), k)
      PROVE  <<b, k, n>> \in Places
  <2>1. /\ k \in DOMAIN assignments[b] /\ n \in DOMAIN IdsOfShard(assignments[b][k])
        /\ k \in 1 .. MaxLines /\ n \in 1 .. MaxLines
    BY <1>2
  <2>2. <<b, k, n>> \in (1 .. browserCount) \X (1 .. MaxLines) \X (1 .. MaxLines)
    BY <2>1
  <2> QED
    BY <2>1, <2>2 DEF Places
<1> QED
  BY <1>3, <1>4

(* Each selected ID is given to one shard, which carries the number of its *)
(* batch, and no browser has two shards of a batch.                        *)
THEOREM SelectionIsPartitioned == Spec => []PartitionOfSelection
<1>1. ASSUME AttemptsInv, pc = "done"
      PROVE  /\ \A i \in SelectedIds : Cardinality({p \in Places : IdAt(p) = i}) = 1
             /\ \A p \in Places : /\ IdAt(p) \in SelectedIds
                                   /\ IdAt(p) \in ToSet(Batches(lines)[assignments[p[1]][p[2]][1]])
             /\ \A b \in DOMAIN assignments : \A j, k \in DOMAIN assignments[b] :
                  assignments[b][j][1] = assignments[b][k][1] => j = k
  <2> DEFINE at(p) == Position(numbered, browserCount, p[1], p[2], p[3])
  <2>1. InputTypes /\ Dealt(browserCount) /\ browserCount \in Nat \ {0}
    BY <1>1, BoundsOfSelection DEF AttemptsInv, DealtInv
  <2>2. numbered = Entries(lines, Begin, End) /\ Begin <= End
    BY <2>1 DEF Dealt
  <2>3. numbered \in Parts /\ Ascending(numbered)
    BY <2>1, <2>2, DealtEntries
  <2>4. /\ \A x \in DOMAIN numbered :
             /\ numbered[x][2] \in SelectedIds
             /\ numbered[x][2] \in ToSet(Batches(lines)[numbered[x][1]])
        /\ \A i \in SelectedIds : \E x \in DOMAIN numbered : numbered[x][2] = i
    BY <2>1, <2>2, SelectedAre
  <2>5. ASSUME NEW x \in DOMAIN numbered, NEW y \in DOMAIN numbered, numbered[x][2] = numbered[y][2]
        PROVE  x = y
    <3>1. lines \in Files /\ Begin \in Nat \ {0} /\ End \in Nat /\ End <= Len(Batches(lines))
      BY <2>1, BoundsOfSelection DEF InputTypes
    <3> QED
      BY <2>2, <2>5, <3>1, EntriesDiffer
  <2>6. ASSUME NEW p \in Places
        PROVE  /\ at(p) \in DOMAIN numbered
               /\ IdAt(p) = numbered[at(p)][2]
               /\ assignments[p[1]][p[2]][1] = numbered[at(p)][1]
    <3>1. /\ p[1] \in 1 .. browserCount
          /\ p[2] \in Groups(Share(numbered, browserCount, p[1]))
          /\ p[3] \in Group(Share(numbered, browserCount, p[1]), p[2])
      BY <2>1, PlacesAre
    <3>2. assignments[p[1]] = Grouped(Share(numbered, browserCount, p[1]))
      BY <2>1, <3>1, ShareOfBrowser
    <3> QED
      BY <2>1, <2>3, <3>1, <3>2, PositionIs DEF IdAt
  <2>7. ASSUME NEW p \in Places, NEW q \in Places, at(p) = at(q)
        PROVE  p = q
    <3>1. /\ p = <<p[1], p[2], p[3]>> /\ p[1] \in 1 .. browserCount
          /\ p[2] \in Groups(Share(numbered, browserCount, p[1]))
          /\ p[3] \in Group(Share(numbered, browserCount, p[1]), p[2])
      BY <2>1, PlacesAre
    <3>2. /\ q = <<q[1], q[2], q[3]>> /\ q[1] \in 1 .. browserCount
          /\ q[2] \in Groups(Share(numbered, browserCount, q[1]))
          /\ q[3] \in Group(Share(numbered, browserCount, q[1]), q[2])
      BY <2>1, PlacesAre
    <3>3. p[1] = q[1] /\ p[2] = q[2] /\ p[3] = q[3]
      BY <2>1, <2>3, <2>7, <3>1, <3>2, PositionsDiffer
    <3> QED
      BY <3>1, <3>2, <3>3
  <2>8. ASSUME NEW x \in DOMAIN numbered PROVE \E p \in Places : at(p) = x
    <3>1. PICK b \in 1 .. browserCount : \E k \in Groups(Share(numbered, browserCount, b)) :
            \E n \in Group(Share(numbered, browserCount, b), k) :
              Position(numbered, browserCount, b, k, n) = x
      BY <2>1, <2>3, EveryPosition
    <3>2. PICK k \in Groups(Share(numbered, browserCount, b)) :
            \E n \in Group(Share(numbered, browserCount, b), k) :
              Position(numbered, browserCount, b, k, n) = x
      BY <3>1
    <3>3. PICK n \in Group(Share(numbered, browserCount, b), k) :
            Position(numbered, browserCount, b, k, n) = x
      BY <3>2
    <3>4. <<b, k, n>> \in Places
      BY <2>1, PlacesAre
    <3> DEFINE p == <<b, k, n>>
    <3>5. p \in Places /\ at(p) = x
      BY <3>3, <3>4
    <3> QED
      BY <3>5
  <2> HIDE DEF at
  <2>9. ASSUME NEW i \in SelectedIds PROVE Cardinality({p \in Places : IdAt(p) = i}) = 1
    <3>1. PICK x \in DOMAIN numbered : numbered[x][2] = i
      BY <2>4
    <3>2. PICK p \in Places : at(p) = x
      BY <2>8
    <3>3. ASSUME NEW q \in Places PROVE IdAt(q) = i <=> q = p
      <4>1. IdAt(p) = i
        BY <2>6, <3>1, <3>2
      <4>2. IdAt(q) = i => at(q) = x
        BY <2>5, <2>6, <3>1
      <4> QED
        BY <2>7, <3>2, <4>1, <4>2
    <3>4. {q \in Places : IdAt(q) = i} = {p}
      BY <3>3
    <3> QED
      BY <3>4, FS_Singleton
  <2>10. ASSUME NEW p \in Places
         PROVE  /\ IdAt(p) \in SelectedIds
                /\ IdAt(p) \in ToSet(Batches(lines)[assignments[p[1]][p[2]][1]])
    BY <2>4, <2>6
  <2>11. ASSUME NEW b \in DOMAIN assignments, NEW j \in DOMAIN assignments[b],
                NEW k \in DOMAIN assignments[b], assignments[b][j][1] = assignments[b][k][1]
         PROVE  j = k
    <3> DEFINE part == Share(numbered, browserCount, b)
    <3>1. b \in 1 .. browserCount
      BY <2>1, SharesAre DEF Dealt
    <3>2. part \in Parts /\ Ascending(part) /\ assignments[b] = Grouped(part)
      BY <2>1, <3>1, ShareOfBrowser
    <3> HIDE DEF part
    <3>3. j \in 1 .. Cardinality(Heads(part)) /\ k \in 1 .. Cardinality(Heads(part))
      BY <3>2, GroupedIs
    <3>4. NumberOf(part, j) = NumberOf(part, k)
      BY <2>11, <3>2, <3>3, GroupedIs
    <3> QED
      BY <3>2, <3>3, <3>4, NumbersDiffer
  <2> QED
    BY <2>9, <2>10, <2>11
<1>2. AttemptsInv => PartitionOfSelection
  BY <1>1 DEF PartitionOfSelection
<1> QED
  BY <1>2, AttemptsInvariant, PTL

=============================================================================
