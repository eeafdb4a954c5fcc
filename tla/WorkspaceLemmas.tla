--------------------------- MODULE WorkspaceLemmas ---------------------------
(***************************************************************************)
(* What inserting into a sequence, removing from it and picking elements of *)
(* it give, and with it that every operation of a workspace keeps it well   *)
(* formed: documents and history without two entries for one document or    *)
(* file, the history within its bound, the active document an open one.     *)
(***************************************************************************)
EXTENDS WorkspaceModel, FiniteSetTheorems, SequenceTheorems, TLAPS

-----------------------------------------------------------------------------
(* Sequences.  Each operation yields a sequence whose elements sit at       *)
(* positions of the old one, or are new.                                    *)

LEMMA RemoveAtProperties ==
  ASSUME NEW S, NEW s \in Seq(S), NEW i \in 1..Len(s)
  PROVE  /\ RemoveAt(s, i) \in Seq(S)
         /\ Len(RemoveAt(s, i)) = Len(s) - 1
         /\ DOMAIN RemoveAt(s, i) = 1..Len(s) - 1
         /\ \A j \in 1..Len(s) - 1 :
              RemoveAt(s, i)[j] = s[IF j < i THEN j ELSE j + 1]
<1> DEFINE left == SubSeq(s, 1, i - 1)
           right == SubSeq(s, i + 1, Len(s))
<1>1. /\ Len(s) \in Nat /\ DOMAIN s = 1..Len(s)
      /\ \A j \in 1..Len(s) : s[j] \in S
  OBVIOUS
<1>2. /\ left \in Seq(S) /\ Len(left) = i - 1
      /\ \A j \in 1..i - 1 : left[j] = s[j]
  <2>1. \A j \in 1..i - 1 : s[j] \in S
    BY <1>1
  <2> HIDE DEF left
  <2>2. /\ left \in Seq(S) /\ Len(left) = (IF 1 <= i - 1 THEN i - 1 - 1 + 1 ELSE 0)
        /\ \A j \in 1..i - 1 - 1 + 1 : left[j] = s[1 + j - 1]
    BY <1>1, <2>1, SubSeqProperties, 1 \in Int, i - 1 \in Int DEF left
  <2> QED
    BY <2>2, <1>1
<1>3. /\ right \in Seq(S) /\ Len(right) = Len(s) - i
      /\ \A j \in 1..Len(s) - i : right[j] = s[i + j]
  <2>1. \A j \in i + 1..Len(s) : s[j] \in S
    BY <1>1
  <2> HIDE DEF right
  <2>2. /\ right \in Seq(S)
        /\ Len(right) = (IF i + 1 <= Len(s) THEN Len(s) - (i + 1) + 1 ELSE 0)
        /\ \A j \in 1..Len(s) - (i + 1) + 1 : right[j] = s[i + 1 + j - 1]
    BY <1>1, <2>1, SubSeqProperties, i + 1 \in Int, Len(s) \in Int DEF right
  <2>3. Len(right) = Len(s) - i
    <3>1. Len(right) = (IF i + 1 <= Len(s) THEN Len(s) - (i + 1) + 1 ELSE 0)
      BY <2>2
    <3>2. i \in Int /\ Len(s) \in Int /\ i <= Len(s)
      BY <1>1
    <3>3. CASE i + 1 <= Len(s)
      BY <3>1, <3>2, <3>3
    <3>4. CASE ~(i + 1 <= Len(s))
      BY <3>1, <3>2, <3>4
    <3> QED
      BY <3>3, <3>4
  <2>4. \A j \in 1..Len(s) - i : right[j] = s[i + j]
    <3>1. \A j \in 1..Len(s) - i : j \in 1..Len(s) - (i + 1) + 1 /\ i + 1 + j - 1 = i + j
      BY <1>1
    <3> QED
      BY <2>2, <3>1
  <2> QED
    BY <2>2, <2>3, <2>4
<1> HIDE DEF left, right
<1>4. RemoveAt(s, i) = left \o right
  BY DEF RemoveAt, left, right
<1>5. /\ left \o right \in Seq(S)
      /\ Len(left \o right) = Len(left) + Len(right)
      /\ \A j \in 1..Len(left) + Len(right) :
           (left \o right)[j] = IF j <= Len(left) THEN left[j] ELSE right[j - Len(left)]
  BY <1>2, <1>3, ConcatProperties
<1>6. Len(left) + Len(right) = Len(s) - 1
  BY <1>1, <1>2, <1>3
<1>7. ASSUME NEW j \in 1..Len(s) - 1
      PROVE  RemoveAt(s, i)[j] = s[IF j < i THEN j ELSE j + 1]
  <2>1. CASE j < i
    BY <1>1, <1>2, <1>4, <1>5, <1>6, <2>1
  <2>2. CASE ~(j < i)
    <3>1. j - (i - 1) \in 1..Len(s) - i /\ i + (j - (i - 1)) = j + 1
      BY <1>1, <2>2
    <3> QED
      BY <1>1, <1>2, <1>3, <1>4, <1>5, <1>6, <2>2, <3>1
  <2> QED
    BY <2>1, <2>2
<1> QED
  BY <1>1, <1>4, <1>5, <1>6, <1>7, LenProperties

LEMMA InsertAtProperties ==
  ASSUME NEW S, NEW s \in Seq(S), NEW i \in 1..Len(s) + 1, NEW e \in S
  PROVE  /\ InsertAt(s, i, e) \in Seq(S)
         /\ Len(InsertAt(s, i, e)) = Len(s) + 1
         /\ DOMAIN InsertAt(s, i, e) = 1..Len(s) + 1
         /\ \A j \in 1..Len(s) + 1 :
              InsertAt(s, i, e)[j] =
                IF j < i THEN s[j] ELSE IF j = i THEN e ELSE s[j - 1]
<1> DEFINE left == SubSeq(s, 1, i - 1)
           right == SubSeq(s, i, Len(s))
           front == left \o <<e>>
<1>1. /\ Len(s) \in Nat /\ DOMAIN s = 1..Len(s)
      /\ \A j \in 1..Len(s) : s[j] \in S
  OBVIOUS
<1>2. /\ left \in Seq(S) /\ Len(left) = i - 1
      /\ \A j \in 1..i - 1 : left[j] = s[j]
  <2>1. \A j \in 1..i - 1 : s[j] \in S
    BY <1>1
  <2> HIDE DEF left
  <2>2. /\ left \in Seq(S) /\ Len(left) = (IF 1 <= i - 1 THEN i - 1 - 1 + 1 ELSE 0)
        /\ \A j \in 1..i - 1 - 1 + 1 : left[j] = s[1 + j - 1]
    BY <1>1, <2>1, SubSeqProperties, 1 \in Int, i - 1 \in Int DEF left
  <2> QED
    BY <2>2, <1>1
<1>3. /\ right \in Seq(S) /\ Len(right) = Len(s) - i + 1
      /\ \A j \in 1..Len(s) - i + 1 : right[j] = s[i + j - 1]
  <2>1. \A j \in i..Len(s) : s[j] \in S
    BY <1>1
  <2> HIDE DEF right
  <2>2. /\ right \in Seq(S)
        /\ Len(right) = (IF i <= Len(s) THEN Len(s) - i + 1 ELSE 0)
        /\ \A j \in 1..Len(s) - i + 1 : right[j] = s[i + j - 1]
    BY <1>1, <2>1, SubSeqProperties, i \in Int, Len(s) \in Int DEF right
  <2> QED
    BY <2>2, <1>1
<1> HIDE DEF left, right
<1>4. /\ <<e>> \in Seq(S) /\ Len(<<e>>) = 1 /\ <<e>>[1] = e
  OBVIOUS
<1>5. /\ front \in Seq(S) /\ Len(front) = Len(left) + Len(<<e>>)
      /\ \A j \in 1..Len(left) + Len(<<e>>) :
           front[j] = IF j <= Len(left) THEN left[j] ELSE <<e>>[j - Len(left)]
  BY <1>2, <1>4, ConcatProperties
<1>6. /\ Len(front) = i
      /\ \A j \in 1..i : front[j] = IF j < i THEN s[j] ELSE e
  <2> HIDE DEF front
  <2> QED
    BY <1>1, <1>2, <1>4, <1>5
<1>7. InsertAt(s, i, e) = front \o right
  BY DEF InsertAt, left, right
<1> HIDE DEF front
<1>8. /\ front \o right \in Seq(S)
      /\ Len(front \o right) = Len(front) + Len(right)
      /\ \A j \in 1..Len(front) + Len(right) :
           (front \o right)[j] = IF j <= Len(front) THEN front[j] ELSE right[j - Len(front)]
  <2>1. front \in Seq(S) /\ right \in Seq(S)
    BY <1>3, <1>5
  <2> QED
    BY <2>1, ConcatProperties
<1>9. ASSUME NEW j \in 1..Len(s) + 1
      PROVE  InsertAt(s, i, e)[j] =
               IF j < i THEN s[j] ELSE IF j = i THEN e ELSE s[j - 1]
  <2>1. CASE j <= i
    BY <1>1, <1>3, <1>6, <1>7, <1>8, <2>1
  <2>2. CASE ~(j <= i)
    <3>1. j - i \in 1..Len(s) - i + 1 /\ i + (j - i) - 1 = j - 1
      BY <1>1, <2>2
    <3> QED
      BY <1>1, <1>3, <1>6, <1>7, <1>8, <2>2, <3>1
  <2> QED
    BY <2>1, <2>2
<1>10. InsertAt(s, i, e) \in Seq(S) /\ Len(InsertAt(s, i, e)) = Len(s) + 1
  BY <1>1, <1>3, <1>6, <1>7, <1>8
<1>11. DOMAIN InsertAt(s, i, e) = 1..Len(s) + 1
  BY <1>10, LenProperties
<1> QED
  BY <1>9, <1>10, <1>11

-----------------------------------------------------------------------------
(* Sequences without repetition: removing and appending keep them so, and   *)
(* they have as many elements as places.                                    *)
Distinct(s) == \A i, j \in DOMAIN s : i # j => s[i] # s[j]

LEMMA DistinctRemoval ==
  ASSUME NEW S, NEW s \in Seq(S), Distinct(s), NEW i \in DOMAIN s
  PROVE  /\ RemoveAt(s, i) \in Seq(S) /\ Distinct(RemoveAt(s, i))
         /\ Range(RemoveAt(s, i)) = Range(s) \ {s[i]}
<1> DEFINE t == RemoveAt(s, i)
           n == Len(s)
<1>1. n \in Nat /\ DOMAIN s = 1..n /\ i \in 1..n
  OBVIOUS
<1>2. /\ t \in Seq(S) /\ DOMAIN t = 1..n - 1
      /\ \A j \in 1..n - 1 : t[j] = s[IF j < i THEN j ELSE j + 1]
  BY <1>1, RemoveAtProperties
<1> HIDE DEF t, n
<1> DEFINE f(j) == IF j < i THEN j ELSE j + 1
<1>3. \A j \in 1..n - 1 : f(j) \in 1..n /\ f(j) # i /\ t[j] = s[f(j)]
  BY <1>1, <1>2
<1>4. Distinct(t)
  <2> SUFFICES ASSUME NEW j \in 1..n - 1, NEW k \in 1..n - 1, j # k PROVE t[j] # t[k]
    BY <1>2 DEF Distinct
  <2>1. f(j) # f(k)
    BY <1>1
  <2> HIDE DEF f
  <2> QED BY <1>3, <1>1, <2>1 DEF Distinct
<1> HIDE DEF f
<1>5. ASSUME NEW j \in 1..n - 1 PROVE t[j] \in Range(s) \ {s[i]}
  BY <1>3, <1>1, <1>5 DEF Distinct, Range
<1>6. ASSUME NEW j \in 1..n, j # i PROVE s[j] \in Range(t)
  <2>1. CASE j < i
    <3>1. j \in DOMAIN t /\ t[j] = s[j]
      BY <1>1, <1>2, <2>1
    <3> QED BY <3>1 DEF Range
  <2>2. CASE j > i
    <3>1. j - 1 \in DOMAIN t /\ t[j - 1] = s[j]
      BY <1>1, <1>2, <2>2
    <3> QED BY <3>1 DEF Range
  <2> QED BY <1>1, <1>6, <2>1, <2>2
<1>7. Range(t) = Range(s) \ {s[i]}
  BY <1>1, <1>2, <1>5, <1>6 DEF Range
<1> QED BY <1>2, <1>4, <1>7 DEF t

LEMMA DistinctAppend ==
  ASSUME NEW S, NEW s \in Seq(S), Distinct(s), NEW d \in S, d \notin Range(s)
  PROVE  /\ Append(s, d) \in Seq(S) /\ Distinct(Append(s, d))
         /\ Range(Append(s, d)) = Range(s) \cup {d}
<1> DEFINE t == Append(s, d)
           n == Len(s)
<1>1. /\ n \in Nat /\ DOMAIN s = 1..n /\ t \in Seq(S) /\ DOMAIN t = 1..n + 1
      /\ \A j \in 1..n : t[j] = s[j]
      /\ t[n + 1] = d
  OBVIOUS
<1> HIDE DEF t, n
<1>2. \A j \in 1..n : s[j] # d
  BY <1>1 DEF Range
<1>3. Distinct(t)
  BY <1>1, <1>2 DEF Distinct
<1>4. \A j \in 1..n + 1 : t[j] \in Range(s) \cup {d}
  <2> TAKE j \in 1..n + 1
  <2>1. j \in 1..n \/ j = n + 1
    BY <1>1
  <2> QED BY <1>1, <2>1 DEF Range
<1>5. Range(s) \cup {d} \subseteq Range(t)
  <2>1. \A j \in 1..n : j \in 1..n + 1
    BY <1>1
  <2>2. n + 1 \in 1..n + 1
    BY <1>1
  <2> QED BY <1>1, <2>1, <2>2 DEF Range
<1>6. Range(t) = Range(s) \cup {d}
  BY <1>1, <1>4, <1>5 DEF Range
<1> QED BY <1>1, <1>3, <1>6 DEF t

LEMMA DistinctCount ==
  ASSUME NEW S, NEW s \in Seq(S), Distinct(s)
  PROVE  IsFiniteSet(Range(s)) /\ Cardinality(Range(s)) = Len(s)
<1> DEFINE n == Len(s)
<1>1. n \in Nat /\ DOMAIN s = 1..n /\ s \in [1..n -> Range(s)]
  BY DEF Range
<1>2. IsFiniteSet(1..n) /\ Cardinality(1..n) = n
  BY <1>1, FS_Interval, 1 \in Int, n \in Int
<1>3. s \in Surjection(1..n, Range(s)) /\ s \in Injection(1..n, Range(s))
  BY <1>1 DEF Surjection, Injection, IsInjective, Range, Distinct
<1> QED BY <1>2, <1>3, FS_Surjection

(* Ranks in a finite set of positions count them off from 1.                *)
LEMMA RankProperties ==
  ASSUME NEW n \in Nat, NEW K \in SUBSET (1..n)
  PROVE  /\ Cardinality(K) \in Nat
         /\ \A k \in K : Rank(K, k) \in 1..Cardinality(K)
         /\ \A j, k \in K : j < k => Rank(K, j) < Rank(K, k)
         /\ \A i \in 1..Cardinality(K) : \E k \in K : Rank(K, k) = i
<1> DEFINE upTo(k) == {j \in K : j <= k}
<1>1. IsFiniteSet(K) /\ Cardinality(K) \in Nat
  <2>1. IsFiniteSet(1..n)
    BY FS_Interval, 1 \in Int, n \in Int
  <2>2. IsFiniteSet(K)
    BY <2>1, FS_Subset
  <2> QED
    BY <2>2, FS_CardinalityType
<1>2. ASSUME NEW k \in K PROVE IsFiniteSet(upTo(k)) /\ Rank(K, k) \in 1..Cardinality(K)
  <2>1. IsFiniteSet(upTo(k)) /\ Cardinality(upTo(k)) <= Cardinality(K)
    BY <1>1, FS_Subset, upTo(k) \in SUBSET K
  <2>2. Cardinality(upTo(k)) \in Nat /\ Cardinality(upTo(k)) # 0
    <3>1. k \in upTo(k)
      OBVIOUS
    <3> QED
      BY <2>1, <3>1, FS_EmptySet, FS_CardinalityType
  <2>3. Rank(K, k) = Cardinality(upTo(k))
    BY DEF Rank
  <2> HIDE DEF upTo
  <2> QED
    BY <1>1, <2>1, <2>2, <2>3
<1>3. ASSUME NEW j \in K, NEW k \in K, j < k PROVE Rank(K, j) < Rank(K, k)
  <2>0. K \subseteq Int
    OBVIOUS
  <2>1. upTo(j) \in SUBSET upTo(k) /\ k \in upTo(k) /\ k \notin upTo(j)
    <3>1. \A i \in K : i <= j => i <= k
      BY <1>3, <2>0
    <3>2. k <= k /\ ~(k <= j)
      BY <1>3, <2>0
    <3> QED
      BY <3>1, <3>2
  <2>2. Rank(K, j) = Cardinality(upTo(j)) /\ Rank(K, k) = Cardinality(upTo(k))
    BY DEF Rank
  <2>3. /\ Rank(K, j) \in 1..Cardinality(K) /\ Rank(K, k) \in 1..Cardinality(K)
        /\ IsFiniteSet(upTo(k))
    BY <1>2
  <2> HIDE DEF upTo
  <2>4. Cardinality(upTo(j)) <= Cardinality(upTo(k))
        /\ (Cardinality(upTo(k)) = Cardinality(upTo(j)) => upTo(k) = upTo(j))
    BY <2>1, <2>3, FS_Subset
  <2> QED
    BY <2>1, <2>2, <2>3, <2>4
<1>4. ASSUME NEW i \in 1..Cardinality(K) PROVE \E k \in K : Rank(K, k) = i
  <2> DEFINE rank == [k \in K |-> Rank(K, k)]
             T == 1..Cardinality(K)
  <2>1. rank \in [K -> T]
    BY <1>2
  <2>2. ASSUME NEW j \in K, NEW k \in K, rank[j] = rank[k] PROVE j = k
    <3>1. j \in Nat /\ k \in Nat
      OBVIOUS
    <3>2. Rank(K, j) = Rank(K, k) /\ Rank(K, k) \in 1..Cardinality(K)
      BY <1>2, <2>2
    <3>3. ~(j < k) /\ ~(k < j)
      BY <1>3, <3>2
    <3> QED
      BY <3>1, <3>3
  <2>3. rank \in Injection(K, T)
    BY <2>1, <2>2 DEF Injection, IsInjective
  <2>4. IsFiniteSet(T) /\ Cardinality(T) = Cardinality(K)
    BY <1>1, FS_Interval
  <2> HIDE DEF T
  <2>5. rank \in Surjection(K, T)
    BY <2>3, <2>4, FS_Injection
  <2> QED
    BY <2>5 DEF Surjection, T
<1> QED
  BY <1>1, <1>2, <1>3, <1>4

(* The source position of each element that was picked.                     *)
Origin(K) == [i \in 1..Cardinality(K) |-> CHOOSE k \in K : Rank(K, k) = i]

LEMMA PickedProperties ==
  ASSUME NEW S, NEW s \in Seq(S), NEW K \in SUBSET (1..Len(s))
  PROVE  /\ Picked(s, K) \in Seq(S)
         /\ Len(Picked(s, K)) = Cardinality(K) /\ Cardinality(K) \in Nat
         /\ DOMAIN Picked(s, K) = 1..Cardinality(K)
         /\ \A i \in 1..Cardinality(K) :
              Origin(K)[i] \in K /\ Picked(s, K)[i] = s[Origin(K)[i]]
         /\ \A i, j \in 1..Cardinality(K) : i # j => Origin(K)[i] # Origin(K)[j]
         /\ \A k \in K : \E i \in 1..Cardinality(K) : Origin(K)[i] = k
<1> DEFINE n == Cardinality(K)
<1>0. Len(s) \in Nat /\ \A k \in K : s[k] \in S
  OBVIOUS
<1>1. /\ n \in Nat
      /\ \A k \in K : Rank(K, k) \in 1..n
      /\ \A j, k \in K : j < k => Rank(K, j) < Rank(K, k)
      /\ \A i \in 1..n : \E k \in K : Rank(K, k) = i
  BY <1>0, RankProperties
<1> HIDE DEF n
<1>2. \A i \in 1..n : Origin(K)[i] \in K /\ Rank(K, Origin(K)[i]) = i
  BY <1>1 DEF Origin, n
<1>3. \A i \in 1..n : Picked(s, K)[i] = s[Origin(K)[i]]
  BY DEF Picked, Origin, n
<1>4. Picked(s, K) \in Seq(S) /\ DOMAIN Picked(s, K) = 1..n
  <2>1. Picked(s, K) \in [1..n -> S]
    <3>1. Picked(s, K) = [i \in 1..n |-> Picked(s, K)[i]]
      BY DEF Picked, n
    <3>2. \A i \in 1..n : Picked(s, K)[i] \in S
      BY <1>0, <1>2, <1>3
    <3> QED
      BY <3>1, <3>2
  <2> QED
    BY <1>1, <2>1
<1>5. Len(Picked(s, K)) = n
  BY <1>1, <1>4, LenProperties
<1>6. \A k \in K : \E i \in 1..n : Origin(K)[i] = k
  <2> SUFFICES ASSUME NEW k \in K PROVE Origin(K)[Rank(K, k)] = k
    BY <1>1
  <2> DEFINE o == Origin(K)[Rank(K, k)]
  <2>1. o \in K /\ Rank(K, o) = Rank(K, k) /\ Rank(K, k) \in Nat
    BY <1>1, <1>2
  <2> HIDE DEF o
  <2>2. ~(o < k) /\ ~(k < o)
    BY <1>1, <2>1
  <2>3. o \in Nat /\ k \in Nat
    BY <2>1
  <2> QED
    BY <2>2, <2>3 DEF o
<1> QED
  BY <1>1, <1>2, <1>3, <1>4, <1>5, <1>6 DEF n

-----------------------------------------------------------------------------
(* Bounds of a nonempty set of positions.                                   *)
LEMMA MinMaxProperties ==
  ASSUME NEW n \in Nat, NEW K \in SUBSET (1..n), K # {}
  PROVE  Min(K) \in K /\ Max(K) \in K /\ \A k \in K : Min(K) <= k /\ k <= Max(K)
<1>1. /\ Cardinality(K) \in Nat
      /\ \A k \in K : Rank(K, k) \in 1..Cardinality(K)
      /\ \A j, k \in K : j < k => Rank(K, j) < Rank(K, k)
      /\ \A i \in 1..Cardinality(K) : \E k \in K : Rank(K, k) = i
  BY RankProperties
<1>2. Cardinality(K) # 0
  <2>1. PICK k \in K : TRUE
    OBVIOUS
  <2>2. Rank(K, k) \in 1..Cardinality(K)
    BY <1>1
  <2> QED
    BY <2>2
<1>3. PICK first \in K : Rank(K, first) = 1
  BY <1>1, <1>2
<1>4. PICK last \in K : Rank(K, last) = Cardinality(K)
  BY <1>1, <1>2
<1>5. \A k \in K : first <= k /\ last >= k
  BY <1>1, <1>3, <1>4
<1>6. Min(K) \in K /\ \A k \in K : Min(K) <= k
  BY <1>5 DEF Min
<1>7. Max(K) \in K /\ \A k \in K : Max(K) >= k
  BY <1>5 DEF Max
<1> QED
  BY <1>6, <1>7

-----------------------------------------------------------------------------
(* Well-formed workspaces.                                                  *)

ActiveOpen(w) ==
  IF w.documents = <<>> THEN w.active = NoDocument
  ELSE w.active \in IdsOf(w.documents)

HistoryOK(s) ==
  /\ s \in Seq(WorkspaceDocument)
  /\ DistinctEntries(s)
  /\ Len(s) <= MaximumRecentlyClosed

WellFormed(w) ==
  /\ w \in Workspace
  /\ DistinctEntries(w.documents)
  /\ HistoryOK(w.recentlyClosed)
  /\ ActiveOpen(w)

(* A sequence of documents without two entries for one document or file.    *)
Entries == {s \in Seq(WorkspaceDocument) : DistinctEntries(s)}

-----------------------------------------------------------------------------
(* Entries of a sequence of documents.                                      *)

(* Naming one file is symmetric: it compares canonical spellings.           *)
LEMMA SamePathSymmetric == \A p, q : SamePath(p, q) <=> SamePath(q, p)
BY DEF SamePath

(* The empty sequence has no identifiers.                                   *)
LEMMA NoIds == IdsOf(<<>>) = {}
BY DEF IdsOf

(* FindIndex finds the document, when it is there.                          *)
LEMMA FindIndexProperties ==
  ASSUME NEW s \in Seq(WorkspaceDocument), NEW id \in IdsOf(s)
  PROVE  FindIndex(s, id) \in 1..Len(s) /\ s[FindIndex(s, id)].id = id
<1>1. DOMAIN s = 1..Len(s)
  OBVIOUS
<1>2. \E i \in DOMAIN s : s[i].id = id
  BY DEF IdsOf
<1> QED
  BY <1>1, <1>2 DEF FindIndex

(* Elements taken from different positions stay distinct.                   *)
LEMMA SelectionDistinct ==
  ASSUME NEW s \in Entries, NEW t \in Seq(WorkspaceDocument), NEW f,
         \A i \in 1..Len(t) : f[i] \in 1..Len(s) /\ t[i] = s[f[i]],
         \A i, j \in 1..Len(t) : i # j => f[i] # f[j]
  PROVE  t \in Entries /\ IdsOf(t) = {s[f[i]].id : i \in 1..Len(t)}
<1>1. DOMAIN s = 1..Len(s) /\ DOMAIN t = 1..Len(t)
  BY DEF Entries
<1>2. DistinctEntries(s)
  BY DEF Entries
<1>3. ASSUME NEW i \in 1..Len(t), NEW j \in 1..Len(t), i # j
      PROVE  t[i].id # t[j].id /\ ~SamePath(t[i].path, t[j].path)
  BY <1>1, <1>2, <1>3 DEF DistinctEntries
<1>4. DistinctEntries(t)
  BY <1>1, <1>3 DEF DistinctEntries
<1>5. IdsOf(t) = {s[f[i]].id : i \in 1..Len(t)}
  BY <1>1 DEF IdsOf
<1> QED
  BY <1>4, <1>5 DEF Entries

(* Inserting a document that clashes with no entry.                         *)
LEMMA InsertionDistinct ==
  ASSUME NEW s \in Entries, NEW d \in WorkspaceDocument, NEW k \in 1..Len(s) + 1,
         d.id \notin IdsOf(s), ~ContainsPath(s, d.path)
  PROVE  /\ InsertAt(s, k, d) \in Entries
         /\ InsertAt(s, k, d) # <<>>
         /\ IdsOf(InsertAt(s, k, d)) = IdsOf(s) \cup {d.id}
<1> DEFINE t == InsertAt(s, k, d)
           n == Len(s)
           old(i) == IF i < k THEN i ELSE i - 1
<1>1. s \in Seq(WorkspaceDocument) /\ n \in Nat /\ DOMAIN s = 1..n /\ DistinctEntries(s)
  BY DEF Entries
<1>2. /\ t \in Seq(WorkspaceDocument) /\ Len(t) = n + 1 /\ DOMAIN t = 1..n + 1
      /\ \A j \in 1..n + 1 :
           t[j] = IF j < k THEN s[j] ELSE IF j = k THEN d ELSE s[j - 1]
  BY <1>1, InsertAtProperties
<1> HIDE DEF t, n
<1>3. k \in 1..n + 1 /\ t[k] = d
  BY <1>1, <1>2 DEF n
<1>4. \A i \in (1..n + 1) \ {k} : old(i) \in 1..n /\ t[i] = s[old(i)]
  BY <1>1, <1>2, <1>3
<1>5. \A i, j \in (1..n + 1) \ {k} : i # j => old(i) # old(j)
  BY <1>1, <1>3
<1> HIDE DEF old
<1>6. \A i \in 1..n : s[i].id # d.id /\ ~SamePath(s[i].path, d.path)
  BY <1>1 DEF IdsOf, ContainsPath
<1>7. ASSUME NEW i \in 1..n + 1, NEW j \in 1..n + 1, i # j
      PROVE  t[i].id # t[j].id /\ ~SamePath(t[i].path, t[j].path)
  <2>1. CASE i = k
    BY <2>1, <1>3, <1>4, <1>6, <1>7, SamePathSymmetric
  <2>2. CASE j = k
    BY <2>2, <1>3, <1>4, <1>6, <1>7
  <2>3. CASE i # k /\ j # k
    <3>1. old(i) \in 1..n /\ old(j) \in 1..n /\ old(i) # old(j)
          /\ t[i] = s[old(i)] /\ t[j] = s[old(j)]
      BY <2>3, <1>4, <1>5, <1>7
    <3> QED
      BY <3>1, <1>1 DEF DistinctEntries
  <2> QED
    BY <2>1, <2>2, <2>3
<1>8. DistinctEntries(t)
  BY <1>2, <1>7 DEF DistinctEntries
<1>9. IdsOf(t) = IdsOf(s) \cup {d.id}
  <2>1. IdsOf(t) \subseteq IdsOf(s) \cup {d.id}
    BY <1>1, <1>2, <1>3, <1>4 DEF IdsOf
  <2>2. ASSUME NEW i \in 1..n PROVE s[i].id \in IdsOf(t)
    <3> DEFINE j == IF i < k THEN i ELSE i + 1
    <3>1. j \in (1..n + 1) \ {k} /\ old(j) = i
      BY <1>1, <1>3 DEF old
    <3> HIDE DEF j
    <3> QED
      BY <3>1, <1>2, <1>4 DEF IdsOf
  <2> QED
    BY <2>1, <2>2, <1>1, <1>2, <1>3 DEF IdsOf
<1>10. t # <<>>
  BY <1>1, <1>2
<1> QED
  BY <1>2, <1>8, <1>9, <1>10 DEF t, Entries

(* Removing one document.                                                   *)
LEMMA RemovalDistinct ==
  ASSUME NEW s \in Entries, NEW k \in 1..Len(s)
  PROVE  /\ RemoveAt(s, k) \in Entries
         /\ IdsOf(RemoveAt(s, k)) = IdsOf(s) \ {s[k].id}
         /\ ~ContainsPath(RemoveAt(s, k), s[k].path)
         /\ Len(RemoveAt(s, k)) = Len(s) - 1
         /\ Len(s) \in Nat
<1> DEFINE t == RemoveAt(s, k)
           n == Len(s)
           f == [j \in 1..n - 1 |-> IF j < k THEN j ELSE j + 1]
<1>1. s \in Seq(WorkspaceDocument) /\ n \in Nat /\ DOMAIN s = 1..n /\ DistinctEntries(s)
  BY DEF Entries
<1>2. /\ t \in Seq(WorkspaceDocument) /\ Len(t) = n - 1 /\ DOMAIN t = 1..n - 1
      /\ \A j \in 1..n - 1 : t[j] = s[IF j < k THEN j ELSE j + 1]
  BY <1>1, RemoveAtProperties
<1> HIDE DEF t, n
<1>3. \A j \in 1..n - 1 : f[j] \in 1..n /\ f[j] # k /\ t[j] = s[f[j]]
  BY <1>1, <1>2 DEF n
<1>4. \A i, j \in 1..n - 1 : i # j => f[i] # f[j]
  BY <1>1 DEF n
<1>5. \A i \in 1..n : i # k => \E j \in 1..n - 1 : f[j] = i
  <2> SUFFICES ASSUME NEW i \in 1..n, i # k PROVE \E j \in 1..n - 1 : f[j] = i
    OBVIOUS
  <2>1. CASE i < k
    <3>1. i \in 1..n - 1 /\ f[i] = i
      BY <2>1, <1>1 DEF n
    <3> QED
      BY <3>1
  <2>2. CASE i > k
    <3>1. i - 1 \in 1..n - 1 /\ f[i - 1] = i
      BY <2>2, <1>1 DEF n
    <3> QED
      BY <3>1
  <2> QED
    BY <2>1, <2>2, <1>1 DEF n
<1> HIDE DEF f
<1>6. t \in Entries /\ IdsOf(t) = {s[f[j]].id : j \in 1..Len(t)}
  <2>1. /\ \A i \in 1..Len(t) : f[i] \in 1..Len(s) /\ t[i] = s[f[i]]
        /\ \A i, j \in 1..Len(t) : i # j => f[i] # f[j]
    BY <1>2, <1>3, <1>4 DEF n
  <2> QED
    BY SMTT(60), <2>1, <1>2, SelectionDistinct
<1>7. \A i \in 1..n : i # k => s[i].id # s[k].id /\ ~SamePath(s[i].path, s[k].path)
  BY <1>1 DEF DistinctEntries, n
<1>8. IdsOf(t) = IdsOf(s) \ {s[k].id}
  <2>1. IdsOf(s) = {s[i].id : i \in 1..n}
    BY <1>1 DEF IdsOf
  <2>2. {s[f[j]].id : j \in 1..Len(t)} = IdsOf(s) \ {s[k].id}
    <3>1. ASSUME NEW j \in 1..n - 1 PROVE s[f[j]].id \in IdsOf(s) \ {s[k].id}
      BY <1>3, <1>7, <2>1
    <3>2. ASSUME NEW i \in 1..n, s[i].id # s[k].id
          PROVE  s[i].id \in {s[f[j]].id : j \in 1..n - 1}
      <4>1. PICK j \in 1..n - 1 : f[j] = i
        BY <1>5, <3>2
      <4> QED
        BY <4>1
    <3>3. {s[f[j]].id : j \in 1..n - 1} = IdsOf(s) \ {s[k].id}
      BY <3>1, <3>2, <2>1
    <3> QED
      BY <3>3, <1>2
  <2> QED
    BY <2>2, <1>2, <1>6
<1>9. ~ContainsPath(t, s[k].path)
  BY <1>2, <1>3, <1>7 DEF ContainsPath
<1> QED
  BY <1>1, <1>2, <1>6, <1>8, <1>9 DEF t, n

(* Keeping the documents at some positions.                                 *)
LEMMA PickedDistinct ==
  ASSUME NEW s \in Entries, NEW K \in SUBSET (1..Len(s))
  PROVE  /\ Picked(s, K) \in Entries
         /\ IdsOf(Picked(s, K)) = {s[k].id : k \in K}
         /\ Picked(s, K) = <<>> <=> K = {}
         /\ \A i \in 1..Len(Picked(s, K)) : \E k \in K : Picked(s, K)[i] = s[k]
<1> DEFINE t == Picked(s, K)
           f == Origin(K)
<1>1. s \in Seq(WorkspaceDocument)
  BY DEF Entries
<1>2. /\ t \in Seq(WorkspaceDocument) /\ Len(t) = Cardinality(K) /\ Cardinality(K) \in Nat
      /\ DOMAIN t = 1..Cardinality(K)
      /\ \A i \in 1..Cardinality(K) : f[i] \in K /\ t[i] = s[f[i]]
      /\ \A i, j \in 1..Cardinality(K) : i # j => f[i] # f[j]
      /\ \A k \in K : \E i \in 1..Cardinality(K) : f[i] = k
  BY <1>1, PickedProperties
<1> HIDE DEF t, f
<1>3. t \in Entries /\ IdsOf(t) = {s[f[i]].id : i \in 1..Len(t)}
  <2>1. /\ \A i \in 1..Len(t) : f[i] \in 1..Len(s) /\ t[i] = s[f[i]]
        /\ \A i, j \in 1..Len(t) : i # j => f[i] # f[j]
    BY <1>2
  <2>2. t \in Seq(WorkspaceDocument)
    BY <1>2
  <2>3. PICK v, g : v = t /\ g = f
    OBVIOUS
  <2> QED BY SMTT(60), <2>1, <2>2, <2>3, SelectionDistinct
<1>4. IdsOf(t) = {s[k].id : k \in K}
  <2>1. \A i \in 1..Len(t) : s[f[i]].id \in {s[k].id : k \in K}
    BY <1>2
  <2>2. ASSUME NEW k \in K PROVE s[k].id \in {s[f[i]].id : i \in 1..Len(t)}
    <3>1. PICK i \in 1..Len(t) : f[i] = k
      BY <1>2
    <3> QED
      BY <3>1
  <2>3. {s[f[i]].id : i \in 1..Len(t)} = {s[k].id : k \in K}
    BY <2>1, <2>2
  <2> QED
    BY <2>3, <1>3
<1>5. t = <<>> <=> K = {}
  <2>1. ASSUME t = <<>> PROVE K = {}
    <3>1. Cardinality(K) = 0
      BY <1>2, <2>1
    <3> QED
      BY <1>2, <3>1
  <2>2. ASSUME K = {} PROVE t = <<>>
    <3>1. Cardinality(K) = 0
      BY <2>2, FS_EmptySet
    <3> QED
      BY <1>2, <3>1
  <2> QED
    BY <2>1, <2>2
<1>6. \A i \in 1..Len(t) : \E k \in K : t[i] = s[k]
  BY <1>2
<1> QED
  BY <1>3, <1>4, <1>5, <1>6 DEF t

(* Changing one field of one entry.                                         *)
LEMMA DirtyChangeDistinct ==
  ASSUME NEW s \in Entries, NEW k \in 1..Len(s), NEW b \in BOOLEAN
  PROVE  /\ [s EXCEPT ![k].dirty = b] \in Entries
         /\ IdsOf([s EXCEPT ![k].dirty = b]) = IdsOf(s)
<1> DEFINE e == [s[k] EXCEPT !.dirty = b]
           t == [s EXCEPT ![k].dirty = b]
           n == Len(s)
<1>1. s \in Seq(WorkspaceDocument) /\ DOMAIN s = 1..Len(s) /\ DistinctEntries(s)
  BY DEF Entries
<1>2. t \in Seq(WorkspaceDocument) /\ DOMAIN t = 1..Len(s)
  <2>1. n \in Nat /\ k \in 1..n /\ s \in [1..n -> WorkspaceDocument]
    BY <1>1
  <2>2. e \in WorkspaceDocument
    BY <2>1 DEF WorkspaceDocument
  <2>3. t = [s EXCEPT ![k] = e]
    OBVIOUS
  <2> HIDE DEF e, t, n
  <2>4. t \in [1..n -> WorkspaceDocument]
    BY <2>1, <2>2, <2>3
  <2> QED
    BY <2>1, <2>4 DEF n
<1>3. \A i \in 1..Len(s) : t[i].id = s[i].id /\ t[i].path = s[i].path
  BY <1>1 DEF WorkspaceDocument
<1> HIDE DEF t
<1>4. DistinctEntries(t)
  BY <1>1, <1>2, <1>3 DEF DistinctEntries
<1>5. IdsOf(t) = IdsOf(s)
  BY <1>1, <1>2, <1>3 DEF IdsOf
<1> QED
  BY <1>2, <1>4, <1>5 DEF Entries, t

(* A new path that no other entry names keeps them distinct.                *)
LEMMA PathChangeDistinct ==
  ASSUME NEW s \in Entries, NEW k \in 1..Len(s), NEW p \in Path \cup {NoPath},
         \A i \in 1..Len(s) : s[i].id # s[k].id => ~SamePath(s[i].path, p)
  PROVE  /\ [s EXCEPT ![k].path = p] \in Entries
         /\ IdsOf([s EXCEPT ![k].path = p]) = IdsOf(s)
<1> DEFINE e == [s[k] EXCEPT !.path = p]
           t == [s EXCEPT ![k].path = p]
           n == Len(s)
<1>1. s \in Seq(WorkspaceDocument) /\ DOMAIN s = 1..Len(s) /\ DistinctEntries(s)
  BY DEF Entries
<1>2. t \in Seq(WorkspaceDocument) /\ DOMAIN t = 1..Len(s)
  <2>1. n \in Nat /\ k \in 1..n /\ s \in [1..n -> WorkspaceDocument]
    BY <1>1
  <2>2. e \in WorkspaceDocument
    BY <2>1 DEF WorkspaceDocument
  <2>3. t = [s EXCEPT ![k] = e]
    OBVIOUS
  <2> HIDE DEF e, t, n
  <2>4. t \in [1..n -> WorkspaceDocument]
    BY <2>1, <2>2, <2>3
  <2> QED
    BY <2>1, <2>4 DEF n
<1>3. \A i \in 1..Len(s) :
        t[i].id = s[i].id /\ t[i].path = IF i = k THEN p ELSE s[i].path
  BY <1>1 DEF WorkspaceDocument
<1> HIDE DEF t
<1>4. \A i \in 1..Len(s) : i # k => ~SamePath(s[i].path, p) /\ ~SamePath(p, s[i].path)
  BY <1>1, SamePathSymmetric DEF DistinctEntries
<1>5. DistinctEntries(t)
  BY <1>1, <1>2, <1>3, <1>4 DEF DistinctEntries
<1>6. IdsOf(t) = IdsOf(s)
  BY <1>1, <1>2, <1>3 DEF IdsOf
<1> QED
  BY <1>2, <1>5, <1>6 DEF Entries, t

(* Dropping the entries past the bound.                                     *)
LEMMA PrefixDistinct ==
  ASSUME NEW s \in Seq(WorkspaceDocument), NEW n \in Nat, n <= Len(s),
         \A i, j \in 1..n : i # j => s[i].id # s[j].id /\ ~SamePath(s[i].path, s[j].path)
  PROVE  SubSeq(s, 1, n) \in Entries /\ Len(SubSeq(s, 1, n)) = n
<1> DEFINE t == SubSeq(s, 1, n)
<1>1. Len(s) \in Nat /\ \A i \in 1..n : s[i] \in WorkspaceDocument
  OBVIOUS
<1> HIDE DEF t
<1>2. /\ t \in Seq(WorkspaceDocument)
      /\ Len(t) = (IF 1 <= n THEN n - 1 + 1 ELSE 0)
      /\ \A i \in 1..n - 1 + 1 : t[i] = s[1 + i - 1]
  BY <1>1, SubSeqProperties, 1 \in Int, n \in Int DEF t
<1>3. Len(t) = n /\ DOMAIN t = 1..n /\ \A i \in 1..n : t[i] = s[i]
  BY <1>2
<1> QED
  BY <1>2, <1>3 DEF Entries, DistinctEntries, t

-----------------------------------------------------------------------------
(* The operations.                                                          *)

(* Remembering a closed document keeps the history well formed.             *)
LEMMA RememberedOK ==
  ASSUME NEW r, HistoryOK(r), NEW d \in WorkspaceDocument
  PROVE  HistoryOK(Remembered(r, d))
<1> DEFINE others == {i \in DOMAIN r : r[i].id # d.id /\ ~SamePath(r[i].path, d.path)}
           kept == Picked(r, others)
           all == <<d>> \o kept
<1>1. r \in Entries /\ DOMAIN r = 1..Len(r) /\ others \in SUBSET (1..Len(r))
  BY DEF HistoryOK, Entries
<1>2. /\ kept \in Entries
      /\ \A i \in 1..Len(kept) : \E k \in others : kept[i] = r[k]
  BY <1>1, PickedDistinct
<1>3. \A i \in 1..Len(kept) : kept[i].id # d.id /\ ~SamePath(kept[i].path, d.path)
  BY <1>2
<1> HIDE DEF others, kept
<1>4. kept \in Seq(WorkspaceDocument) /\ Len(kept) \in Nat /\ DistinctEntries(kept)
      /\ DOMAIN kept = 1..Len(kept)
  BY <1>2 DEF Entries
<1>5. /\ all \in Seq(WorkspaceDocument) /\ Len(all) = Len(kept) + 1
      /\ \A i \in 1..Len(kept) + 1 : all[i] = IF i = 1 THEN d ELSE kept[i - 1]
  BY <1>4
<1> HIDE DEF all
<1>6. ASSUME NEW i \in 1..Len(all), NEW j \in 1..Len(all), i # j
      PROVE  all[i].id # all[j].id /\ ~SamePath(all[i].path, all[j].path)
  <2>1. CASE i = 1
    <3>1. j - 1 \in 1..Len(kept) /\ all[j] = kept[j - 1] /\ all[i] = d
      BY <2>1, <1>4, <1>5, <1>6
    <3> QED
      BY <3>1, <1>3, SamePathSymmetric
  <2>2. CASE j = 1
    <3>1. i - 1 \in 1..Len(kept) /\ all[i] = kept[i - 1] /\ all[j] = d
      BY <2>2, <1>4, <1>5, <1>6
    <3> QED
      BY <3>1, <1>3
  <2>3. CASE i # 1 /\ j # 1
    <3>1. /\ i - 1 \in 1..Len(kept) /\ all[i] = kept[i - 1]
          /\ j - 1 \in 1..Len(kept) /\ all[j] = kept[j - 1] /\ i - 1 # j - 1
      BY <2>3, <1>4, <1>5, <1>6
    <3> QED
      BY <3>1, <1>4 DEF DistinctEntries
  <2> QED
    BY <2>1, <2>2, <2>3
<1>7. Remembered(r, d) = IF MaximumRecentlyClosed = 0 THEN r
                         ELSE IF Len(all) > MaximumRecentlyClosed
                              THEN SubSeq(all, 1, MaximumRecentlyClosed) ELSE all
  BY DEF Remembered, all, kept, others
<1>8. CASE MaximumRecentlyClosed = 0
  BY <1>7, <1>8
<1>9. CASE MaximumRecentlyClosed # 0 /\ Len(all) > MaximumRecentlyClosed
  <2>1. MaximumRecentlyClosed \in Nat /\ MaximumRecentlyClosed <= Len(all)
        /\ \A i, j \in 1..MaximumRecentlyClosed : i \in 1..Len(all) /\ j \in 1..Len(all)
    BY <1>4, <1>5, <1>9, WorkspaceAssumption
  <2>2. /\ SubSeq(all, 1, MaximumRecentlyClosed) \in Entries
        /\ Len(SubSeq(all, 1, MaximumRecentlyClosed)) = MaximumRecentlyClosed
    BY <1>5, <1>6, <2>1, PrefixDistinct
  <2>3. Remembered(r, d) = SubSeq(all, 1, MaximumRecentlyClosed)
    BY <1>7, <1>9
  <2> QED
    BY <2>1, <2>2, <2>3 DEF HistoryOK, Entries
<1>10. CASE MaximumRecentlyClosed # 0 /\ ~(Len(all) > MaximumRecentlyClosed)
  <2>1. Remembered(r, d) = all /\ Len(all) <= MaximumRecentlyClosed
    BY <1>4, <1>5, <1>7, <1>10, WorkspaceAssumption
  <2>2. DistinctEntries(all)
    BY <1>5, <1>6 DEF DistinctEntries
  <2> QED
    BY <2>1, <2>2, <1>5 DEF HistoryOK
<1> QED
  BY <1>8, <1>9, <1>10

(* What the well-formedness of a workspace says of its fields.              *)
LEMMA WellFormedFields ==
  ASSUME NEW w, WellFormed(w)
  PROVE  /\ w \in Workspace
         /\ w.documents \in Entries /\ w.documents \in Seq(WorkspaceDocument)
         /\ DOMAIN w.documents = 1..Len(w.documents) /\ Len(w.documents) \in Nat
         /\ DOMAIN w.recentlyClosed = 1..Len(w.recentlyClosed)
         /\ w.recentlyClosed \in Entries /\ HistoryOK(w.recentlyClosed)
         /\ w.active \in DocumentId \cup {NoDocument}
         /\ w.revision \in Nat /\ w.revision + 1 > w.revision
BY DEF WellFormed, Workspace, Entries, HistoryOK

LEMMA EmptyWellFormed == EmptyWorkspace \in Workspace /\ WellFormed(EmptyWorkspace)
<1>1. EmptyWorkspace \in Workspace
  BY DEF EmptyWorkspace, Workspace
<1>2. DistinctEntries(<<>>) /\ HistoryOK(<<>>)
  BY WorkspaceAssumption DEF DistinctEntries, HistoryOK
<1> QED
  BY <1>1, <1>2 DEF EmptyWorkspace, WellFormed, ActiveOpen

(* Assigning to fields of a workspace: the documents, in Move, SetDirty and *)
(* Rename.                                                                  *)
LEMMA DocumentsChange ==
  ASSUME NEW w \in Workspace, NEW s \in Seq(WorkspaceDocument)
  PROVE  [w EXCEPT !.documents = s, !.revision = @ + 1] \in Workspace
<1>1. w.revision + 1 \in Nat
  BY DEF Workspace
<1> QED
  BY <1>1 DEF Workspace

(* The documents and the active one: Add and CloseMany.                     *)
LEMMA DocumentsAndActiveChange ==
  ASSUME NEW w \in Workspace, NEW s \in Seq(WorkspaceDocument),
         NEW a \in DocumentId \cup {NoDocument}
  PROVE  [w EXCEPT !.documents = s, !.active = a, !.revision = @ + 1] \in Workspace
<1>1. w.revision + 1 \in Nat
  BY DEF Workspace
<1> QED
  BY <1>1 DEF Workspace

(* The active document: Activate.                                           *)
LEMMA ActiveChange ==
  ASSUME NEW w \in Workspace, NEW a \in DocumentId \cup {NoDocument}
  PROVE  [w EXCEPT !.active = a, !.revision = @ + 1] \in Workspace
<1>1. w.revision + 1 \in Nat
  BY DEF Workspace
<1> QED
  BY <1>1 DEF Workspace

(* The history: RestoreRecentlyClosed and ClearRecentlyClosed.              *)
LEMMA HistoryChange ==
  ASSUME NEW w \in Workspace, NEW r \in Seq(WorkspaceDocument)
  PROVE  /\ [w EXCEPT !.recentlyClosed = r, !.revision = @ + 1] \in Workspace
         /\ [w EXCEPT !.recentlyClosed = r] \in Workspace
<1>1. w.revision + 1 \in Nat
  BY DEF Workspace
<1>2. [w EXCEPT !.recentlyClosed = r, !.revision = @ + 1] \in Workspace
  BY <1>1 DEF Workspace
<1>3. [w EXCEPT !.recentlyClosed = r] \in Workspace
  BY DEF Workspace
<1> QED
  BY <1>2, <1>3

(* The history and the active document: ReopenRecentlyClosed.               *)
LEMMA HistoryAndActiveChange ==
  ASSUME NEW w \in Workspace, NEW r \in Seq(WorkspaceDocument),
         NEW a \in DocumentId \cup {NoDocument}
  PROVE  [w EXCEPT !.recentlyClosed = r, !.active = a, !.revision = @ + 1] \in Workspace
<1>1. w.revision + 1 \in Nat
  BY DEF Workspace
<1> QED
  BY <1>1 DEF Workspace

(* The revision alone: SetViewState and SetUndoState.                       *)
LEMMA RevisionChange ==
  ASSUME NEW w \in Workspace
  PROVE  [w EXCEPT !.revision = @ + 1] \in Workspace
<1>1. w.revision + 1 \in Nat
  BY DEF Workspace
<1> QED
  BY <1>1 DEF Workspace

(* Identifiers of documents are identifiers.                                *)
LEMMA IdsAreDocumentIds ==
  ASSUME NEW s \in Seq(WorkspaceDocument)
  PROVE  IdsOf(s) \subseteq DocumentId
<1>1. \A i \in DOMAIN s : s[i] \in WorkspaceDocument
  OBVIOUS
<1> QED
  BY <1>1 DEF IdsOf, WorkspaceDocument

(* Add: the new document is open and clashes with none.                     *)
LEMMA AddedWellFormed ==
  ASSUME NEW w, WellFormed(w), NEW d \in WorkspaceDocument,
         NEW k \in 1..Len(w.documents) + 1, CanAdd(w, d, k)
  PROVE  /\ WellFormed(Added(w, d, k))
         /\ Added(w, d, k).revision = w.revision + 1
         /\ Added(w, d, k).recentlyClosed = w.recentlyClosed
         /\ Added(w, d, k).documents # <<>>
         /\ IdsOf(Added(w, d, k).documents) = IdsOf(w.documents) \cup {d.id}
         /\ Added(w, d, k).documents \in Entries
<1> DEFINE t == InsertAt(w.documents, k, d)
           a == IF w.active = NoDocument THEN d.id ELSE w.active
<1>1. t \in Entries /\ t # <<>> /\ IdsOf(t) = IdsOf(w.documents) \cup {d.id}
  <2>1. d.id \notin IdsOf(w.documents) /\ ~ContainsPath(w.documents, d.path)
    BY DEF CanAdd
  <2> QED
    BY <2>1, WellFormedFields, InsertionDistinct
<1> HIDE DEF t
<1>2. a \in IdsOf(t) /\ a \in DocumentId \cup {NoDocument}
  <2>1. d.id \in DocumentId
    BY DEF WorkspaceDocument
  <2>2. w.active = NoDocument \/ w.active \in IdsOf(w.documents)
    BY DEF WellFormed, ActiveOpen
  <2> QED
    BY <2>1, <2>2, <1>1, WellFormedFields
<1> HIDE DEF a
<1>3. Added(w, d, k) = [w EXCEPT !.documents = t, !.active = a, !.revision = @ + 1]
  BY DEF Added, t, a
<1>4. /\ Added(w, d, k).documents = t /\ Added(w, d, k).active = a
      /\ Added(w, d, k).recentlyClosed = w.recentlyClosed
      /\ Added(w, d, k).revision = w.revision + 1
  BY <1>3, WellFormedFields DEF Workspace
<1>5. Added(w, d, k) \in Workspace
  <2>1. t \in Seq(WorkspaceDocument) /\ w \in Workspace
    BY <1>1, WellFormedFields DEF Entries
  <2>2. [w EXCEPT !.documents = t, !.active = a, !.revision = @ + 1] \in Workspace
    BY <1>2, <2>1, DocumentsAndActiveChange
  <2> QED
    BY <1>3, <2>2
<1>6. WellFormed(Added(w, d, k))
  BY <1>1, <1>2, <1>4, <1>5, WellFormedFields DEF WellFormed, ActiveOpen, Entries
<1> QED
  BY <1>1, <1>4, <1>6

(* Close: the neighbour that takes over is one of those left.               *)
LEMMA ClosedWellFormed ==
  ASSUME NEW w, WellFormed(w), NEW id \in IdsOf(w.documents), NEW remember \in BOOLEAN
  PROVE  /\ WellFormed(Closed(w, id, remember))
         /\ Closed(w, id, remember).revision = w.revision + 1
         /\ IdsOf(Closed(w, id, remember).documents) = IdsOf(w.documents) \ {id}
<1> DEFINE at == FindIndex(w.documents, id)
           rest == RemoveAt(w.documents, at)
           k == IF at <= Len(rest) THEN at ELSE Len(rest)
           a == IF w.active # id THEN w.active
                ELSE IF rest = <<>> THEN NoDocument ELSE rest[k].id
           r == IF remember THEN Remembered(w.recentlyClosed, w.documents[at])
                ELSE w.recentlyClosed
<1>1. at \in 1..Len(w.documents) /\ w.documents[at].id = id /\ w.documents[at] \in WorkspaceDocument
  BY WellFormedFields, FindIndexProperties
<1> HIDE DEF at
<1>2. /\ rest \in Entries /\ IdsOf(rest) = IdsOf(w.documents) \ {id}
      /\ rest \in Seq(WorkspaceDocument)
      /\ Len(rest) = Len(w.documents) - 1 /\ Len(w.documents) \in Nat
  <2>1. rest \in Entries /\ IdsOf(rest) = IdsOf(w.documents) \ {w.documents[at].id}
        /\ Len(rest) = Len(w.documents) - 1 /\ Len(w.documents) \in Nat
    BY <1>1, WellFormedFields, RemovalDistinct
  <2> QED
    BY <1>1, <2>1 DEF Entries
<1> HIDE DEF rest
<1>3. IF rest = <<>> THEN a = NoDocument ELSE a \in IdsOf(rest)
  <2>1. CASE rest = <<>>
    <3>1. w.active = NoDocument \/ w.active = id
      <4>1. IdsOf(rest) = {}
        BY <2>1 DEF IdsOf
      <4> QED
        BY <4>1, <1>2 DEF WellFormed, ActiveOpen
    <3> QED
      BY <2>1, <3>1
  <2>2. CASE rest # <<>>
    <3>1. w.active \in IdsOf(w.documents)
      <4>1. w.documents # <<>>
        BY <1>1, WellFormedFields
      <4> QED
        BY <4>1 DEF WellFormed, ActiveOpen
    <3>2. k \in 1..Len(rest) /\ rest[k].id \in IdsOf(rest)
      <4>1. k \in 1..Len(rest)
        BY <1>1, <1>2, <2>2
      <4> QED
        BY <4>1, <1>2 DEF IdsOf
    <3> HIDE DEF k
    <3> QED
      BY <2>2, <3>1, <3>2, <1>2
  <2> QED
    BY <2>1, <2>2
<1>4. a \in DocumentId \cup {NoDocument}
  <2>1. IdsOf(rest) \subseteq DocumentId
    BY <1>2, IdsAreDocumentIds
  <2> HIDE DEF a
  <2> QED
    BY <1>3, <2>1
<1>5. HistoryOK(r)
  BY <1>1, WellFormedFields, RememberedOK
<1>6. Closed(w, id, remember) = [documents |-> rest, recentlyClosed |-> r, active |-> a,
                                 revision |-> w.revision + 1]
  BY DEF Closed, rest, at
<1> HIDE DEF a, r
<1>7. w.revision + 1 \in Nat
  BY WellFormedFields
<1>8. Closed(w, id, remember) \in Workspace
  BY <1>2, <1>4, <1>5, <1>6, <1>7 DEF Workspace, HistoryOK
<1>9. WellFormed(Closed(w, id, remember))
  BY <1>2, <1>3, <1>5, <1>6, <1>8 DEF WellFormed, ActiveOpen, Entries
<1> QED
  BY <1>2, <1>6, <1>9

(* Closing the document that was just added gives back what was there.      *)
LEMMA ClosedUndoesAdded ==
  ASSUME NEW w, WellFormed(w), NEW d \in WorkspaceDocument,
         NEW k \in 1..Len(w.documents) + 1, CanAdd(w, d, k)
  PROVE  /\ Closed(Added(w, d, k), d.id, FALSE).documents = w.documents
         /\ Closed(Added(w, d, k), d.id, FALSE).active = w.active
<1> DEFINE s == w.documents
           t == InsertAt(s, k, d)
           at == FindIndex(t, d.id)
<1>1. s \in Seq(WorkspaceDocument) /\ DOMAIN s = 1..Len(s) /\ Len(s) \in Nat /\ w \in Workspace
  BY WellFormedFields
<1>2. /\ t \in Seq(WorkspaceDocument) /\ Len(t) = Len(s) + 1
      /\ \A j \in 1..Len(s) + 1 :
           t[j] = IF j < k THEN s[j] ELSE IF j = k THEN d ELSE s[j - 1]
  <2>1. PICK v \in Seq(WorkspaceDocument) : v = s /\ k \in 1..Len(v) + 1
    BY <1>1
  <2>2. /\ InsertAt(v, k, d) \in Seq(WorkspaceDocument)
        /\ Len(InsertAt(v, k, d)) = Len(v) + 1
        /\ \A j \in 1..Len(v) + 1 :
             InsertAt(v, k, d)[j] = IF j < k THEN v[j] ELSE IF j = k THEN d ELSE v[j - 1]
    BY <2>1, InsertAtProperties
  <2> QED
    BY <2>1, <2>2
<1> HIDE DEF t
<1>3. d.id \in IdsOf(t)
  BY <1>1, <1>2 DEF IdsOf
<1>4. at \in 1..Len(t) /\ t[at].id = d.id
  BY <1>2, <1>3, FindIndexProperties
<1>5. at = k
  <2>1. \A j \in 1..Len(s) : s[j].id # d.id
    BY <1>1 DEF CanAdd, IdsOf
  <2>2. ASSUME NEW j \in 1..Len(s) + 1, j # k PROVE t[j].id # d.id
    <3>1. CASE j < k
      <4>1. j \in 1..Len(s)
        BY <1>1, <3>1
      <4> QED
        BY <1>2, <2>1, <3>1, <4>1
    <3>2. CASE j > k
      <4>1. j - 1 \in 1..Len(s)
        BY <1>1, <3>2
      <4>2. ~(j < k) /\ j # k
        BY <3>2
      <4>3. t[j] = s[j - 1]
        BY <1>2, <4>2
      <4> QED
        BY <2>1, <4>1, <4>3
    <3> QED
      BY <2>2, <3>1, <3>2
  <2> HIDE DEF at
  <2> QED
    BY <1>2, <1>4, <2>2
<1>6. RemoveAt(t, k) = s
  <2>1. /\ RemoveAt(t, k) \in Seq(WorkspaceDocument) /\ Len(RemoveAt(t, k)) = Len(s)
        /\ \A j \in 1..Len(s) : RemoveAt(t, k)[j] = t[IF j < k THEN j ELSE j + 1]
    <3>1. PICK v \in Seq(WorkspaceDocument), n \in Nat :
            v = t /\ n = Len(s) /\ Len(v) = n + 1 /\ k \in 1..Len(v)
      BY <1>1, <1>2
    <3>2. /\ RemoveAt(v, k) \in Seq(WorkspaceDocument) /\ Len(RemoveAt(v, k)) = Len(v) - 1
          /\ \A j \in 1..Len(v) - 1 : RemoveAt(v, k)[j] = v[IF j < k THEN j ELSE j + 1]
      BY <3>1, RemoveAtProperties
    <3> QED BY <3>1, <3>2
  <2>2. ASSUME NEW j \in 1..Len(s) PROVE RemoveAt(t, k)[j] = s[j]
    <3>1. j \in 1..Len(s) + 1 /\ j + 1 \in 1..Len(s) + 1 /\ (j + 1) - 1 = j
      BY <1>1
    <3>2. CASE j < k
      BY <1>2, <2>1, <3>1, <3>2
    <3>3. CASE ~(j < k)
      <4>1. ~(j + 1 < k) /\ j + 1 # k
        BY <1>1, <3>3
      <4> QED
        BY <1>2, <2>1, <3>1, <3>3, <4>1
    <3> QED
      BY <3>2, <3>3
  <2> QED
    BY <1>1, <2>1, <2>2
<1>7. /\ Added(w, d, k).documents = t
      /\ Added(w, d, k).active = IF w.active = NoDocument THEN d.id ELSE w.active
  BY <1>1 DEF Added, Workspace, t
<1>8. /\ Closed(Added(w, d, k), d.id, FALSE).documents = s
      /\ Closed(Added(w, d, k), d.id, FALSE).active =
           IF Added(w, d, k).active # d.id THEN Added(w, d, k).active
           ELSE IF s = <<>> THEN NoDocument
           ELSE s[IF k <= Len(s) THEN k ELSE Len(s)].id
  BY <1>5, <1>6, <1>7 DEF Closed
<1>9. w.active # d.id
  <2>1. d.id \in DocumentId /\ d.id \notin IdsOf(s)
    BY DEF CanAdd, WorkspaceDocument
  <2> QED
    BY <2>1, WorkspaceAssumption DEF WellFormed, ActiveOpen
<1>10. w.active = NoDocument => s = <<>>
  BY <1>1, IdsAreDocumentIds, WorkspaceAssumption DEF WellFormed, ActiveOpen
<1> QED
  BY <1>7, <1>8, <1>9, <1>10

(* CloseMany: the document chosen to take over was not closed.              *)
LEMMA ClosedManyWellFormed ==
  ASSUME NEW w, WellFormed(w), NEW ids, CanCloseMany(w, ids)
  PROVE  /\ WellFormed(ClosedMany(w, ids))
         /\ ClosedMany(w, ids).revision = w.revision + 1
         /\ IdsOf(ClosedMany(w, ids).documents) = IdsOf(w.documents) \ ids
<1> DEFINE s == w.documents
           open == StaysOpen(w, ids)
           after == {i \in open : i >= FindIndex(s, w.active)}
           rest == Picked(s, open)
           a == NextActive(w, ids)
<1>1. s \in Entries /\ Len(s) \in Nat /\ DOMAIN s = 1..Len(s)
  BY WellFormedFields
<1>2. open \in SUBSET (1..Len(s)) /\ after \in SUBSET (1..Len(s)) /\ after \subseteq open
      /\ open = {i \in 1..Len(s) : s[i].id \notin ids}
  BY <1>1 DEF StaysOpen
<1> HIDE DEF open, after
<1>3. rest \in Entries /\ IdsOf(rest) = {s[i].id : i \in open} /\ (rest = <<>> <=> open = {})
  BY <1>1, <1>2, PickedDistinct
<1>4. a = IF w.active \notin ids THEN w.active
          ELSE IF after # {} THEN s[Min(after)].id
          ELSE IF open # {} THEN s[Max(open)].id ELSE NoDocument
  BY DEF NextActive, open, after
<1>5. s # <<>> /\ w.active \in IdsOf(s)
  <2>1. IdsOf(s) # {}
    BY DEF CanCloseMany
  <2>2. s # <<>>
    BY <2>1 DEF IdsOf
  <2> QED
    BY <2>2 DEF WellFormed, ActiveOpen
<1>6. after # {} => Min(after) \in open
  BY <1>1, <1>2, MinMaxProperties
<1>7. open # {} => Max(open) \in open
  BY <1>1, <1>2, MinMaxProperties
<1>8. w.active \notin ids => w.active \in {s[i].id : i \in open}
  BY <1>1, <1>2, <1>5 DEF IdsOf
<1>9. {s[i].id : i \in open} = IdsOf(s) \ ids
  BY <1>1, <1>2 DEF IdsOf
<1> HIDE DEF rest, a, s
<1>10. IF rest = <<>> THEN a = NoDocument ELSE a \in IdsOf(rest)
  <2>1. CASE w.active \notin ids
    BY <2>1, <1>3, <1>4, <1>8
  <2>2. CASE w.active \in ids /\ after # {}
    <3>1. a = s[Min(after)].id
      BY <2>2, <1>4
    <3> QED
      BY <2>2, <3>1, <1>3, <1>6
  <2>3. CASE w.active \in ids /\ after = {} /\ open # {}
    <3>1. a = s[Max(open)].id
      BY <2>3, <1>4
    <3> QED
      BY <2>3, <3>1, <1>3, <1>7
  <2>4. CASE w.active \in ids /\ after = {} /\ open = {}
    BY <2>4, <1>3, <1>4
  <2> QED
    BY <2>1, <2>2, <2>3, <2>4
<1>11. rest \in Seq(WorkspaceDocument) /\ DistinctEntries(rest)
  BY <1>3 DEF Entries
<1>12. a \in DocumentId \cup {NoDocument}
  BY <1>10, <1>11, IdsAreDocumentIds
<1>13. ClosedMany(w, ids) = [w EXCEPT !.documents = rest, !.active = a, !.revision = @ + 1]
  BY DEF ClosedMany, rest, a, open, s
<1>14. w \in Workspace /\ HistoryOK(w.recentlyClosed)
  BY WellFormedFields
<1>15. /\ ClosedMany(w, ids).documents = rest /\ ClosedMany(w, ids).active = a
       /\ ClosedMany(w, ids).recentlyClosed = w.recentlyClosed
       /\ ClosedMany(w, ids).revision = w.revision + 1
  BY <1>13, <1>14 DEF Workspace
<1>16. ClosedMany(w, ids) \in Workspace
  BY ZenonT(60), <1>11, <1>12, <1>13, <1>14, DocumentsAndActiveChange
<1> QED
  BY <1>3, <1>9, <1>10, <1>11, <1>14, <1>15, <1>16 DEF WellFormed, ActiveOpen, s

(* Move: the document returns with its identifier and path.                 *)
LEMMA MovedWellFormed ==
  ASSUME NEW w, WellFormed(w), NEW id \in IdsOf(w.documents),
         NEW k \in DOMAIN w.documents
  PROVE  /\ WellFormed(Moved(w, id, k))
         /\ Moved(w, id, k).revision = w.revision + 1
         /\ IdsOf(Moved(w, id, k).documents) = IdsOf(w.documents)
<1> DEFINE s == w.documents
           at == FindIndex(s, id)
           rest == RemoveAt(s, at)
           t == InsertAt(rest, k, s[at])
<1>1. s \in Entries /\ s \in Seq(WorkspaceDocument) /\ DOMAIN s = 1..Len(s)
  BY WellFormedFields
<1>2. at \in 1..Len(s) /\ s[at].id = id /\ s[at] \in WorkspaceDocument
  BY <1>1, FindIndexProperties
<1> HIDE DEF at
<1>3. /\ rest \in Entries /\ IdsOf(rest) = IdsOf(s) \ {s[at].id}
      /\ ~ContainsPath(rest, s[at].path) /\ Len(rest) = Len(s) - 1 /\ Len(s) \in Nat
  BY <1>1, <1>2, RemovalDistinct
<1>4. k \in 1..Len(rest) + 1
  BY <1>1, <1>3
<1> HIDE DEF rest
<1>5. t \in Entries /\ t # <<>> /\ IdsOf(t) = IdsOf(rest) \cup {s[at].id}
  BY <1>2, <1>3, <1>4, InsertionDistinct
<1>6. IdsOf(t) = IdsOf(s)
  BY <1>2, <1>3, <1>5
<1>7. s # <<>> /\ w.active \in IdsOf(s)
  <2>1. s # <<>>
    BY <1>1, <1>2
  <2> QED
    BY <2>1 DEF WellFormed, ActiveOpen
<1>8. Moved(w, id, k) = [w EXCEPT !.documents = t, !.revision = @ + 1]
  BY DEF Moved, t, rest, at
<1> HIDE DEF t
<1>9. w \in Workspace /\ HistoryOK(w.recentlyClosed) /\ t \in Seq(WorkspaceDocument)
      /\ DistinctEntries(t)
  BY <1>5, WellFormedFields DEF Entries
<1>10. /\ Moved(w, id, k).documents = t /\ Moved(w, id, k).active = w.active
       /\ Moved(w, id, k).recentlyClosed = w.recentlyClosed
       /\ Moved(w, id, k).revision = w.revision + 1
  BY <1>8, <1>9 DEF Workspace
<1>11. Moved(w, id, k) \in Workspace
  BY ZenonT(60), <1>8, <1>9, DocumentsChange
<1> QED
  BY <1>5, <1>6, <1>7, <1>9, <1>10, <1>11 DEF WellFormed, ActiveOpen

(* Activate: only an open document becomes active.                          *)
LEMMA ActivatedWellFormed ==
  ASSUME NEW w, WellFormed(w), NEW id \in IdsOf(w.documents)
  PROVE  /\ WellFormed(Activated(w, id))
         /\ Activated(w, id) = w \/ Activated(w, id).revision = w.revision + 1
         /\ Activated(w, id).documents = w.documents
<1>1. CASE w.active = id
  BY <1>1 DEF Activated
<1>2. CASE w.active # id
  <2> DEFINE v == [w EXCEPT !.active = id, !.revision = @ + 1]
  <2>1. Activated(w, id) = v
    BY <1>2 DEF Activated
  <2>2. id \in DocumentId /\ w.documents # <<>>
    <3>1. w.documents # <<>>
      BY DEF IdsOf
    <3> QED
      BY <3>1, WellFormedFields, IdsAreDocumentIds
  <2>3. w \in Workspace
    BY WellFormedFields
  <2>4. v \in Workspace
    BY <2>2, <2>3, ActiveChange
  <2>5. /\ v.documents = w.documents /\ v.active = id
        /\ v.recentlyClosed = w.recentlyClosed /\ v.revision = w.revision + 1
    BY <2>3 DEF Workspace
  <2> HIDE DEF v
  <2>6. WellFormed(v)
    BY <2>2, <2>4, <2>5 DEF WellFormed, ActiveOpen
  <2> QED
    BY <2>1, <2>5, <2>6
<1> QED
  BY <1>1, <1>2

(* SetDirty changes nothing but the flag.                                   *)
LEMMA DirtySetWellFormed ==
  ASSUME NEW w, WellFormed(w), NEW id \in IdsOf(w.documents), NEW dirty \in BOOLEAN
  PROVE  /\ WellFormed(DirtySet(w, id, dirty))
         /\ DirtySet(w, id, dirty) = w \/ DirtySet(w, id, dirty).revision = w.revision + 1
         /\ IdsOf(DirtySet(w, id, dirty).documents) = IdsOf(w.documents)
<1> DEFINE at == FindIndex(w.documents, id)
           t == [w.documents EXCEPT ![at].dirty = dirty]
           v == [w EXCEPT !.documents = t, !.revision = @ + 1]
<1>1. CASE w.documents[at].dirty = dirty
  BY <1>1 DEF DirtySet
<1>2. CASE w.documents[at].dirty # dirty
  <2>1. DirtySet(w, id, dirty) = v
    BY <1>2 DEF DirtySet
  <2>2. w \in Workspace /\ w.documents \in Entries /\ w.documents \in Seq(WorkspaceDocument)
    BY WellFormedFields
  <2>3. at \in 1..Len(w.documents)
    BY <2>2, FindIndexProperties
  <2> HIDE DEF at
  <2>4. t \in Entries /\ IdsOf(t) = IdsOf(w.documents)
    BY <2>2, <2>3, DirtyChangeDistinct
  <2> HIDE DEF t
  <2>5. t # <<>> /\ w.documents # <<>> /\ t \in Seq(WorkspaceDocument) /\ DistinctEntries(t)
    <3>1. t # <<>> /\ w.documents # <<>>
      BY <2>4, NoIds
    <3> QED
      BY <2>4, <3>1 DEF Entries
  <2>6. v \in Workspace
    BY <2>2, <2>5, DocumentsChange
  <2>7. /\ v.documents = t /\ v.active = w.active
        /\ v.recentlyClosed = w.recentlyClosed /\ v.revision = w.revision + 1
    BY <2>2 DEF Workspace
  <2> HIDE DEF v
  <2>8. WellFormed(v)
    BY <2>4, <2>5, <2>6, <2>7 DEF WellFormed, ActiveOpen
  <2> QED
    BY <2>1, <2>4, <2>7, <2>8
<1> QED
  BY <1>1, <1>2

(* Rename: the new path is one that no other document names.                *)
LEMMA RenamedWellFormed ==
  ASSUME NEW w, WellFormed(w), NEW id, NEW p \in Path \cup {NoPath}, CanRename(w, id, p)
  PROVE  /\ WellFormed(Renamed(w, id, p))
         /\ Renamed(w, id, p).revision = w.revision + 1
         /\ IdsOf(Renamed(w, id, p).documents) = IdsOf(w.documents)
<1> DEFINE at == FindIndex(w.documents, id)
           t == [w.documents EXCEPT ![at].path = p]
           v == [w EXCEPT !.documents = t, !.revision = @ + 1]
<1>1. Renamed(w, id, p) = v
  BY DEF Renamed
<1>2. /\ w \in Workspace /\ w.documents \in Entries /\ w.documents \in Seq(WorkspaceDocument)
      /\ DOMAIN w.documents = 1..Len(w.documents)
  BY WellFormedFields
<1>3. at \in 1..Len(w.documents) /\ w.documents[at].id = id
  BY <1>2, FindIndexProperties DEF CanRename
<1>4. \A i \in 1..Len(w.documents) :
        w.documents[i].id # w.documents[at].id => ~SamePath(w.documents[i].path, p)
  BY <1>2, <1>3 DEF CanRename
<1> HIDE DEF at
<1>5. t \in Entries /\ IdsOf(t) = IdsOf(w.documents)
  BY <1>2, <1>3, <1>4, PathChangeDistinct
<1>6. id \in IdsOf(w.documents)
  BY DEF CanRename
<1> HIDE DEF t
<1>7. t # <<>> /\ w.documents # <<>> /\ t \in Seq(WorkspaceDocument) /\ DistinctEntries(t)
  <2>1. t # <<>> /\ w.documents # <<>>
    BY <1>5, <1>6, NoIds
  <2> QED
    BY <1>5, <2>1 DEF Entries
<1>8. v \in Workspace
  BY <1>2, <1>7, DocumentsChange
<1>9. /\ v.documents = t /\ v.active = w.active
      /\ v.recentlyClosed = w.recentlyClosed /\ v.revision = w.revision + 1
  BY <1>2 DEF Workspace
<1> HIDE DEF v
<1>10. WellFormed(v)
  BY <1>5, <1>7, <1>8, <1>9 DEF WellFormed, ActiveOpen
<1> QED
  BY <1>1, <1>5, <1>9, <1>10

(* SetViewState and SetUndoState only count a revision.                     *)
LEMMA PresentationSetWellFormed ==
  ASSUME NEW w, WellFormed(w)
  PROVE  WellFormed(PresentationSet(w)) /\ PresentationSet(w).revision = w.revision + 1
<1>1. w \in Workspace
  BY WellFormedFields
<1>2. PresentationSet(w) \in Workspace
  BY <1>1, RevisionChange DEF PresentationSet
<1>3. /\ PresentationSet(w).documents = w.documents
      /\ PresentationSet(w).active = w.active
      /\ PresentationSet(w).recentlyClosed = w.recentlyClosed
      /\ PresentationSet(w).revision = w.revision + 1
  BY <1>1 DEF Workspace, PresentationSet
<1> QED
  BY <1>2, <1>3 DEF WellFormed, ActiveOpen

(* ReopenRecentlyClosed: two revisions, as it adds and activates.           *)
LEMMA ReopenedWellFormed ==
  ASSUME NEW w, WellFormed(w), NEW k, CanReopen(w, k)
  PROVE  /\ WellFormed(Reopened(w, k)) /\ Reopened(w, k).revision = w.revision + 2
         /\ IdsOf(w.documents) \subseteq IdsOf(Reopened(w, k).documents)
<1> DEFINE e == w.recentlyClosed[k]
           d == ReopenedDocument(w, k)
           n == Len(w.documents) + 1
           open == Added(w, d, n)
           r == RemoveAt(w.recentlyClosed, k)
           v == [open EXCEPT !.recentlyClosed = r, !.active = d.id, !.revision = @ + 1]
<1>1. /\ w.recentlyClosed \in Entries /\ w.recentlyClosed \in Seq(WorkspaceDocument)
      /\ Len(w.recentlyClosed) <= MaximumRecentlyClosed
      /\ k \in 1..Len(w.recentlyClosed) /\ Len(w.documents) \in Nat
  BY WellFormedFields DEF CanReopen, Entries, HistoryOK
<1>2. e \in WorkspaceDocument
  BY <1>1
<1> HIDE DEF e
<1>3. d \in WorkspaceDocument /\ d.id \in DocumentId
  BY <1>2 DEF ReopenedDocument, WorkspaceDocument, e
<1>4. CanAdd(w, d, n) /\ n \in 1..Len(w.documents) + 1
  BY <1>1 DEF CanReopen
<1> HIDE DEF d
<1>5. /\ WellFormed(open) /\ open.revision = w.revision + 1
      /\ open.recentlyClosed = w.recentlyClosed
      /\ open.documents # <<>> /\ IdsOf(open.documents) = IdsOf(w.documents) \cup {d.id}
      /\ open.documents \in Entries
  <2>1. /\ WellFormed(open) /\ open.revision = w.revision + 1
        /\ open.recentlyClosed = w.recentlyClosed
        /\ open.documents # <<>>
        /\ IdsOf(open.documents) = IdsOf(w.documents) \cup {d.id}
        /\ open.documents \in Entries
    <3>1. CanAdd(w, d, n) /\ n \in 1..Len(w.documents) + 1 /\ d \in WorkspaceDocument
      BY <1>3, <1>4
    <3> HIDE DEF n
    <3> QED BY <3>1, AddedWellFormed
  <2> HIDE DEF open
  <2> QED BY <2>1
<1>6. /\ r \in Entries /\ Len(r) = Len(w.recentlyClosed) - 1
      /\ Len(w.recentlyClosed) \in Nat
  BY <1>1, RemovalDistinct
<1> HIDE DEF r
<1>7. HistoryOK(r) /\ r \in Seq(WorkspaceDocument)
  <2>1. Len(r) <= MaximumRecentlyClosed
    BY <1>1, <1>6, WorkspaceAssumption
  <2> QED
    BY <2>1, <1>6 DEF HistoryOK, Entries
<1>8. Reopened(w, k) = v
  BY <1>5 DEF Reopened, d, r
<1> HIDE DEF open
<1>9. open \in Workspace /\ w.revision \in Nat
  BY <1>5, WellFormedFields
<1>10. v \in Workspace
  BY <1>3, <1>7, <1>9, HistoryAndActiveChange
<1>11. /\ v.documents = open.documents /\ v.active = d.id
       /\ v.recentlyClosed = r /\ v.revision = open.revision + 1
  BY <1>9 DEF Workspace
<1> HIDE DEF v
<1>12. WellFormed(v)
  BY <1>5, <1>7, <1>10, <1>11 DEF WellFormed, ActiveOpen, Entries
<1> QED
  BY <1>5, <1>8, <1>9, <1>11, <1>12

(* RestoreRecentlyClosed: clashes within the bound are rejected.            *)
LEMMA RecentlyClosedRestoredWellFormed ==
  ASSUME NEW w, WellFormed(w), NEW s \in Seq(WorkspaceDocument),
         CanRestoreRecentlyClosed(w, s)
  PROVE  /\ WellFormed(RecentlyClosedRestored(w, s))
         /\ RecentlyClosedRestored(w, s).revision = w.revision + 1
<1> DEFINE r == IF Len(s) > MaximumRecentlyClosed
                THEN SubSeq(s, 1, MaximumRecentlyClosed) ELSE s
           v == [w EXCEPT !.recentlyClosed = r, !.revision = @ + 1]
           n == IF Len(s) > MaximumRecentlyClosed THEN MaximumRecentlyClosed ELSE Len(s)
<1>1. DOMAIN s = 1..Len(s) /\ Len(s) \in Nat /\ MaximumRecentlyClosed \in Nat
  BY WorkspaceAssumption
<1>2. \A i, j \in 1..n : i # j => s[i].id # s[j].id /\ ~SamePath(s[i].path, s[j].path)
  <2> SUFFICES ASSUME NEW i \in 1..n, NEW j \in 1..n, j < i
               PROVE  s[j].id # s[i].id /\ ~SamePath(s[j].path, s[i].path)
    BY <1>1, SamePathSymmetric
  <2>1. i \in DOMAIN s /\ j \in DOMAIN s /\ j <= MaximumRecentlyClosed
    BY <1>1
  <2> QED
    BY <2>1 DEF CanRestoreRecentlyClosed
<1>3. HistoryOK(r)
  <2>1. CASE Len(s) > MaximumRecentlyClosed
    <3>1. /\ SubSeq(s, 1, MaximumRecentlyClosed) \in Entries
          /\ Len(SubSeq(s, 1, MaximumRecentlyClosed)) = MaximumRecentlyClosed
      BY <2>1, <1>1, <1>2, PrefixDistinct
    <3> QED
      BY <2>1, <3>1, <1>1 DEF HistoryOK, Entries
  <2>2. CASE ~(Len(s) > MaximumRecentlyClosed)
    <3>1. DistinctEntries(s)
      BY <2>2, <1>1, <1>2 DEF DistinctEntries
    <3> QED
      BY <2>2, <3>1, <1>1 DEF HistoryOK
  <2> QED
    BY <2>1, <2>2
<1>4. w \in Workspace /\ r \in Seq(WorkspaceDocument)
  BY <1>3, WellFormedFields DEF HistoryOK
<1>5. RecentlyClosedRestored(w, s) = v
  BY DEF RecentlyClosedRestored
<1> HIDE DEF r
<1>6. v \in Workspace
  BY <1>4, HistoryChange
<1>7. /\ v.documents = w.documents /\ v.active = w.active
      /\ v.recentlyClosed = r /\ v.revision = w.revision + 1
  BY <1>4 DEF Workspace
<1> HIDE DEF v
<1>8. WellFormed(v)
  BY <1>3, <1>6, <1>7 DEF WellFormed, ActiveOpen
<1> QED
  BY <1>5, <1>7, <1>8

(* ClearRecentlyClosed leaves the open documents alone.                     *)
LEMMA RecentlyClosedClearedWellFormed ==
  ASSUME NEW w, WellFormed(w)
  PROVE  /\ WellFormed(RecentlyClosedCleared(w))
         /\ RecentlyClosedCleared(w).documents = w.documents
         /\ RecentlyClosedCleared(w).active = w.active
         /\ RecentlyClosedCleared(w).revision = w.revision
<1> DEFINE r == <<>>
           v == [w EXCEPT !.recentlyClosed = r]
<1>1. HistoryOK(r) /\ r \in Seq(WorkspaceDocument)
  BY WorkspaceAssumption DEF HistoryOK, DistinctEntries
<1>2. w \in Workspace
  BY WellFormedFields
<1> HIDE DEF r
<1>3. v \in Workspace
  BY <1>1, <1>2, HistoryChange
<1>4. /\ v.documents = w.documents /\ v.active = w.active
      /\ v.recentlyClosed = r /\ v.revision = w.revision
  BY <1>2 DEF Workspace
<1>5. RecentlyClosedCleared(w) = v
  BY DEF RecentlyClosedCleared, r
<1> HIDE DEF v
<1>6. WellFormed(v)
  BY <1>1, <1>3, <1>4 DEF WellFormed, ActiveOpen
<1> QED
  BY <1>4, <1>5, <1>6

-----------------------------------------------------------------------------
(* A workspace and its history: a document is open or remembered, not both, *)
(* and an operation brings in no identifier but that of what it adds.       *)
AllIds(w) == IdsOf(w.documents) \cup IdsOf(w.recentlyClosed)

Separate(w) ==
  WellFormed(w) /\ IdsOf(w.documents) \cap IdsOf(w.recentlyClosed) = {}

(* v is w after an operation that opens nothing new and closes no document  *)
(* but those that are gone.                                                 *)
Keeps(w, v, gone) ==
  /\ Separate(v) /\ AllIds(v) \subseteq AllIds(w)
  /\ IdsOf(w.documents) \ gone \subseteq IdsOf(v.documents)

(* What the history remembers is what it had, and the document.             *)
LEMMA RememberedIds ==
  ASSUME NEW r, HistoryOK(r), NEW d \in WorkspaceDocument
  PROVE  IdsOf(Remembered(r, d)) \subseteq IdsOf(r) \cup {d.id}
<1> DEFINE others == {i \in DOMAIN r : r[i].id # d.id /\ ~SamePath(r[i].path, d.path)}
           kept == Picked(r, others)
           all == <<d>> \o kept
<1>1. r \in Entries /\ DOMAIN r = 1..Len(r) /\ others \in SUBSET (1..Len(r))
  BY DEF HistoryOK, Entries
<1>2. kept \in Entries /\ IdsOf(kept) \subseteq IdsOf(r)
  <2>1. kept \in Entries /\ IdsOf(kept) = {r[k].id : k \in others}
    BY <1>1, PickedDistinct
  <2> QED BY <1>1, <2>1 DEF IdsOf
<1> HIDE DEF others, kept
<1>3. kept \in Seq(WorkspaceDocument) /\ Len(kept) \in Nat /\ DOMAIN kept = 1..Len(kept)
  BY <1>2 DEF Entries
<1>4. /\ all \in Seq(WorkspaceDocument) /\ Len(all) = Len(kept) + 1
      /\ \A i \in 1..Len(kept) + 1 : all[i] = IF i = 1 THEN d ELSE kept[i - 1]
  BY <1>3
<1> HIDE DEF all
<1>5. \A i \in 1..Len(all) : all[i].id \in IdsOf(r) \cup {d.id}
  <2> TAKE i \in 1..Len(all)
  <2>1. CASE i = 1
    BY <2>1, <1>3, <1>4
  <2>2. CASE i # 1
    <3>1. i - 1 \in 1..Len(kept) /\ all[i] = kept[i - 1]
      BY <2>2, <1>3, <1>4
    <3> QED BY <3>1, <1>2, <1>3 DEF IdsOf
  <2> QED BY <2>1, <2>2
<1>6. Remembered(r, d) = IF MaximumRecentlyClosed = 0 THEN r
                         ELSE IF Len(all) > MaximumRecentlyClosed
                              THEN SubSeq(all, 1, MaximumRecentlyClosed) ELSE all
  BY DEF Remembered, all, kept, others
<1>7. CASE MaximumRecentlyClosed = 0
  BY <1>6, <1>7
<1>8. CASE MaximumRecentlyClosed # 0 /\ Len(all) > MaximumRecentlyClosed
  <2> DEFINE t == SubSeq(all, 1, MaximumRecentlyClosed)
  <2>1. /\ MaximumRecentlyClosed \in Nat /\ MaximumRecentlyClosed <= Len(all)
        /\ Len(all) \in Nat
    BY <1>3, <1>4, <1>8, WorkspaceAssumption
  <2>2. DOMAIN t = 1..MaximumRecentlyClosed /\ \A i \in DOMAIN t : t[i] = all[i]
    BY <2>1, <1>4
  <2>3. Remembered(r, d) = t
    BY <1>6, <1>8
  <2> HIDE DEF t
  <2>4. \A i \in DOMAIN t : t[i].id \in IdsOf(r) \cup {d.id}
    BY <2>1, <2>2, <1>5
  <2> QED BY <2>3, <2>4 DEF IdsOf
<1>9. CASE MaximumRecentlyClosed # 0 /\ ~(Len(all) > MaximumRecentlyClosed)
  <2>1. Remembered(r, d) = all /\ DOMAIN all = 1..Len(all)
    BY <1>4, <1>6, <1>9
  <2> QED BY <2>1, <1>5 DEF IdsOf
<1> QED BY <1>7, <1>8, <1>9

(* Close: only the document is gone, and the history holds nothing new.     *)
LEMMA ClosedKeeps ==
  ASSUME NEW w, Separate(w), NEW id \in IdsOf(w.documents), NEW remember \in BOOLEAN
  PROVE  /\ Keeps(w, Closed(w, id, remember), {id})
         /\ ~remember => AllIds(Closed(w, id, remember)) = AllIds(w) \ {id}
         /\ IdsOf(Closed(w, id, remember).documents) = IdsOf(w.documents) \ {id}
<1> DEFINE at == FindIndex(w.documents, id)
           v == Closed(w, id, remember)
<1>1. WellFormed(w) /\ w.documents \in Seq(WorkspaceDocument) /\ HistoryOK(w.recentlyClosed)
  BY WellFormedFields DEF Separate
<1>2. at \in 1..Len(w.documents) /\ w.documents[at].id = id
  BY <1>1, FindIndexProperties
<1>3. w.documents[at] \in WorkspaceDocument
  BY <1>1, <1>2
<1>4. WellFormed(v) /\ IdsOf(v.documents) = IdsOf(w.documents) \ {id}
  BY <1>1, ClosedWellFormed
<1>5. v.recentlyClosed = IF remember THEN Remembered(w.recentlyClosed, w.documents[at])
                         ELSE w.recentlyClosed
  BY DEF Closed
<1> HIDE DEF v, at
<1>6. /\ IdsOf(v.recentlyClosed) \subseteq IdsOf(w.recentlyClosed) \cup {id}
      /\ ~remember => IdsOf(v.recentlyClosed) = IdsOf(w.recentlyClosed)
  BY <1>1, <1>2, <1>3, <1>5, RememberedIds
<1>7. Keeps(w, v, {id})
  BY <1>4, <1>6 DEF Keeps, Separate, AllIds
<1>8. ~remember => AllIds(v) = AllIds(w) \ {id}
  BY <1>4, <1>6 DEF Separate, AllIds
<1> QED BY <1>4, <1>7, <1>8 DEF v

(* An operation that leaves the history alone.                              *)
LEMMA SameHistoryKeeps ==
  ASSUME NEW w, Separate(w), NEW v, WellFormed(v), v.recentlyClosed = w.recentlyClosed,
         NEW gone, IdsOf(v.documents) \subseteq IdsOf(w.documents),
         IdsOf(w.documents) \ gone \subseteq IdsOf(v.documents)
  PROVE  Keeps(w, v, gone)
BY DEF Keeps, Separate, AllIds

(* Add, and Activate of what was added.                                     *)
LEMMA AddedKeeps ==
  ASSUME NEW w, Separate(w), NEW d \in WorkspaceDocument, d.id \notin AllIds(w),
         CanAdd(w, d, Len(w.documents) + 1)
  PROVE  LET v == Activated(Added(w, d, Len(w.documents) + 1), d.id)
         IN  /\ Separate(v) /\ AllIds(v) = AllIds(w) \cup {d.id}
             /\ IdsOf(v.documents) = IdsOf(w.documents) \cup {d.id}
             /\ v.active = d.id
<1> DEFINE k == Len(w.documents) + 1
           u == Added(w, d, k)
           v == Activated(u, d.id)
<1>1. WellFormed(w) /\ Len(w.documents) \in Nat
  BY WellFormedFields DEF Separate
<1>2. k \in 1..Len(w.documents) + 1
  BY <1>1
<1>3. CanAdd(w, d, k)
  OBVIOUS
<1> HIDE DEF k
<1>4. /\ WellFormed(u) /\ u.recentlyClosed = w.recentlyClosed
      /\ IdsOf(u.documents) = IdsOf(w.documents) \cup {d.id}
  BY <1>1, <1>2, <1>3, AddedWellFormed
<1> HIDE DEF u
<1>5. WellFormed(v) /\ v.documents = u.documents
  BY <1>4, ActivatedWellFormed
<1>6. v.recentlyClosed = u.recentlyClosed /\ v.active = d.id
  BY <1>4 DEF Activated, WellFormed, Workspace
<1> HIDE DEF v
<1>7. /\ Separate(v) /\ AllIds(v) = AllIds(w) \cup {d.id}
      /\ IdsOf(v.documents) = IdsOf(w.documents) \cup {d.id} /\ v.active = d.id
  BY <1>4, <1>5, <1>6 DEF Separate, AllIds
<1> QED BY <1>7 DEF v, u, k

(* Activate.                                                                *)
LEMMA ActivatedKeeps ==
  ASSUME NEW w, Separate(w), NEW id \in IdsOf(w.documents)
  PROVE  Keeps(w, Activated(w, id), {})
<1>1. WellFormed(Activated(w, id)) /\ Activated(w, id).documents = w.documents
  BY ActivatedWellFormed DEF Separate
<1>2. Activated(w, id).recentlyClosed = w.recentlyClosed
  BY DEF Activated, Separate, WellFormed, Workspace
<1> QED BY <1>1, <1>2, SameHistoryKeeps

(* SetDirty.                                                                *)
LEMMA DirtySetKeeps ==
  ASSUME NEW w, Separate(w), NEW id \in IdsOf(w.documents), NEW dirty \in BOOLEAN
  PROVE  Keeps(w, DirtySet(w, id, dirty), {})
<1>1. WellFormed(DirtySet(w, id, dirty))
      /\ IdsOf(DirtySet(w, id, dirty).documents) = IdsOf(w.documents)
  BY DirtySetWellFormed DEF Separate
<1>2. DirtySet(w, id, dirty).recentlyClosed = w.recentlyClosed
  BY DEF DirtySet, Separate, WellFormed, Workspace
<1> QED BY <1>1, <1>2, SameHistoryKeeps

(* Move.                                                                    *)
LEMMA MovedKeeps ==
  ASSUME NEW w, Separate(w), NEW id \in IdsOf(w.documents), NEW k, CanMove(w, id, k)
  PROVE  Keeps(w, Moved(w, id, k), {})
<1>1. WellFormed(Moved(w, id, k)) /\ IdsOf(Moved(w, id, k).documents) = IdsOf(w.documents)
  BY MovedWellFormed DEF Separate, CanMove
<1>2. Moved(w, id, k).recentlyClosed = w.recentlyClosed
  BY DEF Moved, Separate, WellFormed, Workspace
<1> QED BY <1>1, <1>2, SameHistoryKeeps

(* Rename.                                                                  *)
LEMMA RenamedKeeps ==
  ASSUME NEW w, Separate(w), NEW id, NEW p \in Path \cup {NoPath}, CanRename(w, id, p)
  PROVE  Keeps(w, Renamed(w, id, p), {})
<1>1. WellFormed(Renamed(w, id, p)) /\ IdsOf(Renamed(w, id, p).documents) = IdsOf(w.documents)
  BY RenamedWellFormed DEF Separate
<1>2. Renamed(w, id, p).recentlyClosed = w.recentlyClosed
  BY DEF Renamed, Separate, WellFormed, Workspace
<1> QED BY <1>1, <1>2, SameHistoryKeeps

(* One operation after another.                                             *)
LEMMA KeepsChain ==
  ASSUME NEW w, NEW v, NEW u, NEW a, NEW b, Keeps(w, v, a), Keeps(v, u, b)
  PROVE  Keeps(w, u, a \cup b)
BY DEF Keeps

(* ReopenRecentlyClosed: the document goes from the history to the open     *)
(* ones.                                                                    *)
LEMMA ReopenedKeeps ==
  ASSUME NEW w, Separate(w), NEW k, CanReopen(w, k)
  PROVE  Keeps(w, Reopened(w, k), {})
<1> DEFINE d == ReopenedDocument(w, k)
           n == Len(w.documents) + 1
           u == Added(w, d, n)
           v == Reopened(w, k)
<1>1. /\ WellFormed(w) /\ Len(w.documents) \in Nat /\ w.recentlyClosed \in Entries
      /\ DOMAIN w.recentlyClosed = 1..Len(w.recentlyClosed)
      /\ w.recentlyClosed \in Seq(WorkspaceDocument)
  BY WellFormedFields DEF Separate, Entries
<1>2. k \in 1..Len(w.recentlyClosed) /\ w.recentlyClosed[k] \in WorkspaceDocument
  BY <1>1 DEF CanReopen
<1>3. d \in WorkspaceDocument /\ d.id = w.recentlyClosed[k].id
  BY <1>2 DEF ReopenedDocument, WorkspaceDocument
<1>4. CanAdd(w, d, n) /\ n \in 1..Len(w.documents) + 1
  BY <1>1 DEF CanReopen
<1> HIDE DEF d, n
<1>5. WellFormed(u) /\ IdsOf(u.documents) = IdsOf(w.documents) \cup {d.id}
  BY <1>1, <1>3, <1>4, AddedWellFormed
<1>6. v.documents = u.documents /\ v.recentlyClosed = RemoveAt(w.recentlyClosed, k)
  <2>1. v = [u EXCEPT !.recentlyClosed = RemoveAt(u.recentlyClosed, k),
                      !.active = d.id, !.revision = u.revision + 1]
    BY DEF Reopened, d, n
  <2>2. u.recentlyClosed = w.recentlyClosed
    BY <1>1 DEF Added, WellFormed, Workspace
  <2>3. u \in Workspace
    BY <1>5 DEF WellFormed
  <2> HIDE DEF u, v
  <2> QED BY <2>1, <2>2, <2>3 DEF Workspace
<1>7. IdsOf(RemoveAt(w.recentlyClosed, k)) = IdsOf(w.recentlyClosed) \ {d.id}
  BY <1>1, <1>2, <1>3, RemovalDistinct
<1>8. WellFormed(v)
  BY <1>1, ReopenedWellFormed
<1>9. d.id \in IdsOf(w.recentlyClosed)
  BY <1>1, <1>2, <1>3 DEF IdsOf
<1> HIDE DEF u, v
<1>10. Keeps(w, v, {})
  BY <1>5, <1>6, <1>7, <1>8, <1>9 DEF Keeps, Separate, AllIds
<1> QED BY <1>10 DEF v

(* The revision is read by nobody.                                          *)
LEMMA RevisionForgotten ==
  ASSUME NEW w, WellFormed(w)
  PROVE  LET v == [w EXCEPT !.revision = 0]
         IN  /\ WellFormed(v) /\ v.documents = w.documents
             /\ v.recentlyClosed = w.recentlyClosed /\ v.active = w.active
BY DEF WellFormed, Workspace, ActiveOpen

(* Nothing depends on the revision.                                         *)
LEMMA SameListsSeparate ==
  ASSUME NEW v, Separate(v), NEW u, WellFormed(u), u.documents = v.documents,
         u.recentlyClosed = v.recentlyClosed
  PROVE  Separate(u) /\ AllIds(u) = AllIds(v)
BY DEF Separate, AllIds

(* Documents with the identifiers and paths of others are as distinct.      *)
LEMMA SameNamesDistinct ==
  ASSUME NEW s \in Entries, NEW t \in Seq(WorkspaceDocument), Len(t) = Len(s),
         \A k \in 1..Len(s) : t[k].id = s[k].id /\ t[k].path = s[k].path
  PROVE  t \in Entries
<1>1. DOMAIN s = 1..Len(s) /\ DOMAIN t = 1..Len(s) /\ DistinctEntries(s)
  BY DEF Entries
<1>2. DistinctEntries(t)
  <2> SUFFICES ASSUME NEW i \in 1..Len(s), NEW j \in 1..Len(s), i # j
               PROVE  t[i].id # t[j].id /\ ~SamePath(t[i].path, t[j].path)
    BY <1>1 DEF DistinctEntries
  <2>1. s[i].id # s[j].id /\ ~SamePath(s[i].path, s[j].path)
    BY <1>1 DEF DistinctEntries
  <2> QED BY <2>1
<1> QED BY <1>2 DEF Entries

(* As many positions as there are, or fewer.                                *)
LEMMA PositionsCount ==
  ASSUME NEW n \in Nat, NEW K \in SUBSET (1..n)
  PROVE  Cardinality(K) <= n /\ Cardinality(K) \in Nat
<1>1. /\ IsFiniteSet(1..n)
      /\ Cardinality(1..n) = IF 1 > n THEN 0 ELSE n - 1 + 1
  BY FS_Interval, 1 \in Int, n \in Int
<1>2. IsFiniteSet(K) /\ Cardinality(K) <= Cardinality(1..n)
  BY <1>1, FS_Subset
<1>3. Cardinality(1..n) = n
  BY <1>1
<1>4. Cardinality(K) \in Nat
  BY <1>2, FS_CardinalityType
<1> QED BY <1>2, <1>3, <1>4

(* Identifiers start at 1: with 0 there is a greatest one.                  *)
LEMMA GreatestId ==
  ASSUME NEW b \in Nat, NEW T \in SUBSET (1..b)
  PROVE  Max({0} \cup T) \in Nat /\ T \subseteq 1..Max({0} \cup T)
<1>1. \E x \in {0} \cup T : \A y \in {0} \cup T : x >= y
  <2>1. CASE T = {}
    BY <2>1
  <2>2. CASE T # {}
    <3>1. Max(T) \in T /\ \A k \in T : k <= Max(T)
      BY <2>2, MinMaxProperties
    <3>2. PICK m : m = Max(T)
      OBVIOUS
    <3>3. m \in T /\ \A y \in T : y <= m
      BY <3>1, <3>2, Zenon
    <3>4. T \subseteq Nat
      OBVIOUS
    <3>5. m \in {0} \cup T /\ \A y \in {0} \cup T : m >= y
      BY <3>3, <3>4
    <3> QED BY <3>5
  <2> QED BY <2>1, <2>2
<1> DEFINE U == {0} \cup T
<1>2. Max(U) \in U /\ \A y \in U : Max(U) >= y
  BY <1>1 DEF Max
<1>3. U \subseteq Nat /\ T \subseteq U
  OBVIOUS
<1>4. PICK m : m = Max(U)
  OBVIOUS
<1> HIDE DEF U
<1>5. m \in Nat /\ \A y \in T : y \in 1..b /\ m >= y
  BY <1>2, <1>3, <1>4
<1>6. T \subseteq 1..m
  BY <1>5
<1> QED BY <1>4, <1>5, <1>6 DEF U
=============================================================================
