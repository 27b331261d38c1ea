-------------------------- MODULE BattleTurns_proofs --------------------------
(***************************************************************************)
(* What the turn order keeps, for any creatures, scores, effects and       *)
(* numbers of rounds: the order follows the scores and holds everyone on   *)
(* the roster; everybody who stays has one turn a round; effects end when  *)
(* they were promised to; a familiar never regains its Reaction by         *)
(* leaving the battle and coming back.                                     *)
(*                                                                         *)
(* The argument goes from the inside out: sequences that are thinned out   *)
(* or take an entry in; what the operations on Initiative do to the sets   *)
(* of those who have acted and those still to act (Turns, Leaves, Joins);  *)
(* what the operations on battles make of those (Departs, Arrives, Stands, *)
(* Crosses), each keeping a battle Sound; when an effect is Due; and the   *)
(* invariant, TurnsInv, with the kinds of step that keep it.               *)
(***************************************************************************)
EXTENDS BattleTurns, FiniteSetTheorems, SequenceTheorems, TLAPS

-----------------------------------------------------------------------------
(* Least numbers.                                                          *)

LEMMA MinIs ==
  ASSUME NEW S \in SUBSET Int, NEW x \in S, \A y \in S : x <= y
  PROVE  Min(S) \in S /\ \A y \in S : Min(S) <= y
BY DEF Min

LEMMA MinimalOf ==
  ASSUME NEW R, IsWellFoundedOn(R, Nat),
         NEW T, T \subseteq Nat, T # {}
  PROVE  \E x \in T : \A y \in T : ~ (<<y, x>> \in R)
BY WFMin

LEMMA LeastOf ==
  ASSUME NEW R, \A a, b \in Nat : a < b => <<a, b>> \in R,
         NEW T, T \subseteq Nat,
         \E x \in T : \A y \in T : ~ (<<y, x>> \in R)
  PROVE  \E x \in T : \A y \in T : x <= y
<1>1. PICK x \in T : \A y \in T : ~ (<<y, x>> \in R)
  OBVIOUS
<1>2. ASSUME NEW y \in T PROVE x <= y
  <2>1. ~(<<y, x>> \in R)
    BY <1>1
  <2>2. x \in Nat /\ y \in Nat
    OBVIOUS
  <2>3. ~(y < x)
    BY <2>1, <2>2, Zenon
  <2> QED BY <2>2, <2>3
<1> QED BY <1>2

LEMMA MinNat ==
  ASSUME NEW S \in SUBSET Nat, S # {}
  PROVE  Min(S) \in S /\ \A y \in S : Min(S) <= y
<1>1. \E x \in S : \A y \in S : x <= y
  <2>1. ASSUME NEW a \in Nat, NEW b \in Nat, a < b
        PROVE  <<a, b>> \in OpToRel(<, Nat)
    BY <2>1, Zenon DEF OpToRel
  <2>2. \A a, b \in Nat : a < b => <<a, b>> \in OpToRel(<, Nat)
    BY <2>1, Zenon
  <2>3. IsWellFoundedOn(OpToRel(<, Nat), Nat)
    BY NatLessThanWellFounded, Zenon
  <2>4. S \subseteq Nat
    OBVIOUS
  <2>5. \E x \in S : \A y \in S : ~ (<<y, x>> \in OpToRel(<, Nat))
    BY <2>3, <2>4, MinimalOf, Zenon
  <2> QED BY <2>2, <2>4, <2>5, LeastOf, Zenon
<1> QED BY <1>1, MinIs

-----------------------------------------------------------------------------
(* A list r is s without the entries of those who are gone.                *)

Thinned(r, s, gone) ==
  \E f \in [DOMAIN r -> DOMAIN s] :
    /\ \A m, n \in DOMAIN r : m < n => f[m] < f[n]
    /\ \A n \in DOMAIN r : r[n] = s[f[n]] /\ s[f[n]].creature \notin gone
    /\ \A i \in DOMAIN s :
         s[i].creature \notin gone => \E n \in DOMAIN r : f[n] = i

(* The members of a finite set of positions, counted from below.           *)
LEMMA Ranks ==
  ASSUME NEW len \in Nat, NEW kept \in SUBSET (1 .. len)
  PROVE  /\ Cardinality(kept) \in Nat
         /\ \A i \in kept :
              Cardinality({j \in kept : j <= i}) \in 1 .. Cardinality(kept)
         /\ \A i, k \in kept : i < k =>
              Cardinality({j \in kept : j <= i})
                < Cardinality({j \in kept : j <= k})
         /\ \A n \in 1 .. Cardinality(kept) :
              \E i \in kept : Cardinality({j \in kept : j <= i}) = n
<1> DEFINE upto(i) == {j \in kept : j <= i}
           rank == [i \in kept |-> Cardinality(upto(i))]
           size == Cardinality(kept)
<1>1. IsFiniteSet(kept) /\ size \in Nat
  <2>1. IsFiniteSet(1 .. len)
    BY FS_Interval
  <2> QED BY <2>1, FS_Subset, FS_CardinalityType
<1>2. ASSUME NEW i \in kept
      PROVE  /\ IsFiniteSet(upto(i)) /\ rank[i] \in Nat
             /\ rank[i] <= size /\ 1 <= rank[i]
  <2>1. upto(i) \in SUBSET kept
    OBVIOUS
  <2>2. IsFiniteSet(upto(i)) /\ Cardinality(upto(i)) <= size
    BY <1>1, <2>1, FS_Subset
  <2>3. Cardinality(upto(i)) \in Nat
    BY <2>2, FS_CardinalityType
  <2>4. i \in upto(i)
    OBVIOUS
  <2>5. Cardinality(upto(i)) # 0
    BY <2>2, <2>4, FS_EmptySet
  <2> HIDE DEF upto, size
  <2> QED BY <2>2, <2>3, <2>5
<1>3. ASSUME NEW i \in kept, NEW k \in kept, i < k
      PROVE  rank[i] < rank[k]
  <2>1. upto(i) \in SUBSET upto(k)
    <3>1. ASSUME NEW j \in kept, j <= i PROVE j <= k
      BY <1>3, <3>1
    <3> QED BY <3>1
  <2>2. k \in upto(k) /\ k \notin upto(i)
    BY <1>3
  <2>3. upto(i) # upto(k)
    BY <2>2
  <2> HIDE DEF upto
  <2>4. Cardinality(upto(i)) <= Cardinality(upto(k))
        /\ Cardinality(upto(i)) # Cardinality(upto(k))
    BY <1>2, <2>1, <2>3, FS_Subset
  <2> QED BY <1>2, <2>4
<1>4. rank \in Injection(kept, 1 .. size)
  <2>1. rank \in [kept -> 1 .. size]
    <3> HIDE DEF upto, size
    <3> QED BY <1>1, <1>2
  <2>2. ASSUME NEW i \in kept, NEW k \in kept, rank[i] = rank[k]
        PROVE  i = k
    <3>1. i \in Int /\ k \in Int
      OBVIOUS
    <3>2. rank[i] \in Nat /\ rank[k] \in Nat
      BY <1>2
    <3> HIDE DEF rank
    <3> QED BY <1>3, <2>2, <3>1, <3>2
  <2> HIDE DEF rank, size
  <2> QED BY <2>1, <2>2 DEF Injection, IsInjective
<1>5. rank \in Surjection(kept, 1 .. size)
  <2>1. IsFiniteSet(1 .. size) /\ Cardinality(1 .. size) = size
    <3> HIDE DEF size
    <3> QED BY <1>1, FS_Interval
  <2> HIDE DEF rank
  <2> QED BY <1>4, <2>1, FS_Injection
<1>6. \A n \in 1 .. size : \E i \in kept : rank[i] = n
  <2> HIDE DEF rank, size
  <2> QED BY <1>5 DEF Surjection
<1>7. \A i \in kept : rank[i] = Cardinality({j \in kept : j <= i})
  OBVIOUS
<1> HIDE DEF rank
<1>8. \A i \in kept : rank[i] \in 1 .. size
  <2> HIDE DEF size, upto
  <2> QED BY <1>1, <1>2
<1> QED BY <1>1, <1>3, <1>6, <1>7, <1>8

LEMMA RemainingThins ==
  ASSUME NEW S, NEW s \in Seq(S), NEW gone
  PROVE  Remaining(s, gone) \in Seq(S) /\ Thinned(Remaining(s, gone), s, gone)
<1> DEFINE kept == {i \in DOMAIN s : s[i].creature \notin gone}
           rank(i) == Cardinality({j \in kept : j <= i})
           size == Cardinality(kept)
           f == [n \in 1 .. size |-> CHOOSE i \in kept : rank(i) = n]
           r == [n \in 1 .. size |-> s[f[n]]]
<1>1. DOMAIN s = 1 .. Len(s) /\ Len(s) \in Nat
      /\ \A i \in DOMAIN s : s[i] \in S
  BY LenProperties, ElementOfSeq
<1>2. kept \in SUBSET (1 .. Len(s))
  BY <1>1
<1>3. /\ size \in Nat
      /\ \A i \in kept : rank(i) \in 1 .. size
      /\ \A i, k \in kept : i < k => rank(i) < rank(k)
      /\ \A n \in 1 .. size : \E i \in kept : rank(i) = n
  <2> HIDE DEF kept
  <2> QED BY <1>1, <1>2, Ranks
<1>4. Remaining(s, gone) = r
  BY DEF Remaining
<1> HIDE DEF kept, rank
<1>5. \A n \in 1 .. size : f[n] \in kept /\ rank(f[n]) = n
  BY <1>3
<1>6. \A i \in kept : i \in DOMAIN s /\ s[i].creature \notin gone
  BY DEF kept
<1> HIDE DEF f
<1>7. r \in [1 .. size -> S]
  BY <1>1, <1>5, <1>6
<1>8. r \in Seq(S) /\ DOMAIN r = 1 .. size
  <2> HIDE DEF r
  <2> QED BY <1>3, <1>7, IsASeq
<1>9. f \in [1 .. size -> DOMAIN s]
  BY <1>5, <1>6 DEF f
<1>10. ASSUME NEW m \in 1 .. size, NEW n \in 1 .. size, m < n
       PROVE  f[m] < f[n]
  <2>1. f[m] \in kept /\ f[n] \in kept /\ rank(f[m]) = m /\ rank(f[n]) = n
    BY <1>5
  <2>2. f[m] \in Nat /\ f[n] \in Nat
    <3>1. kept \subseteq Nat
      BY <1>1, <1>2
    <3> QED BY <2>1, <3>1
  <2>3. ~(f[n] < f[m]) /\ f[m] # f[n]
    BY <1>3, <1>10, <2>1
  <2> QED BY <2>2, <2>3
<1>11. \A n \in 1 .. size : r[n] = s[f[n]] /\ s[f[n]].creature \notin gone
  BY <1>5, <1>6
<1>12. ASSUME NEW i \in DOMAIN s, s[i].creature \notin gone
       PROVE  \E n \in 1 .. size : f[n] = i
  <2>1. i \in kept
    BY <1>12 DEF kept
  <2>2. rank(i) \in 1 .. size
    BY <1>3, <2>1
  <2>3. f[rank(i)] \in kept /\ rank(f[rank(i)]) = rank(i)
    BY <1>5, <2>2
  <2>4. f[rank(i)] \in Nat /\ i \in Nat
    BY <1>1, <1>2, <2>1, <2>3
  <2>5. ~(f[rank(i)] < i) /\ ~(i < f[rank(i)])
    <3>1. rank(i) \in Int
      BY <2>2
    <3> QED BY <1>3, <2>1, <2>3, <3>1
  <2>6. f[rank(i)] = i
    BY <2>4, <2>5
  <2> QED BY <2>2, <2>6
<1>13. Thinned(r, s, gone)
  <2>1. DOMAIN r = 1 .. size
    BY <1>8
  <2> HIDE DEF r, size
  <2>2. f \in [DOMAIN r -> DOMAIN s]
    BY <1>9, <2>1
  <2>3. \A m, n \in DOMAIN r : m < n => f[m] < f[n]
    BY <1>10, <2>1
  <2>4. \A n \in DOMAIN r : r[n] = s[f[n]] /\ s[f[n]].creature \notin gone
    BY <1>11, <2>1
  <2>5. \A i \in DOMAIN s :
          s[i].creature \notin gone => \E n \in DOMAIN r : f[n] = i
    BY <1>12, <2>1
  <2> QED BY <2>2, <2>3, <2>4, <2>5 DEF Thinned
<1> QED BY <1>4, <1>8, <1>13

(* No creature has two entries.                                            *)
Distinct(order) ==
  \A i, j \in DOMAIN order : order[i].creature = order[j].creature => i = j

LEMMA ThinnedListed ==
  ASSUME NEW r, NEW s, NEW gone, Thinned(r, s, gone)
  PROVE  Listed(r) = Listed(s) \ gone
<1>1. PICK f \in [DOMAIN r -> DOMAIN s] :
        /\ \A m, n \in DOMAIN r : m < n => f[m] < f[n]
        /\ \A n \in DOMAIN r : r[n] = s[f[n]] /\ s[f[n]].creature \notin gone
        /\ \A i \in DOMAIN s :
             s[i].creature \notin gone => \E n \in DOMAIN r : f[n] = i
  BY DEF Thinned
<1>2. ASSUME NEW n \in DOMAIN r
      PROVE  r[n].creature \in Listed(s) \ gone
  <2>1. f[n] \in DOMAIN s /\ r[n].creature = s[f[n]].creature
        /\ s[f[n]].creature \notin gone
    BY <1>1
  <2> QED BY <2>1 DEF Listed
<1>3. ASSUME NEW i \in DOMAIN s, s[i].creature \notin gone
      PROVE  s[i].creature \in Listed(r)
  <2>1. PICK n \in DOMAIN r : f[n] = i
    BY <1>1, <1>3
  <2>2. r[n].creature = s[i].creature
    BY <1>1, <2>1
  <2> QED BY <2>2 DEF Listed
<1> QED BY <1>2, <1>3 DEF Listed

LEMMA ThinnedMonotone ==
  ASSUME NEW r \in Seq(Entries), NEW s \in Seq(Entries), NEW gone,
         Thinned(r, s, gone), Monotone(s)
  PROVE  Monotone(r)
<1>1. PICK f \in [DOMAIN r -> DOMAIN s] :
        /\ \A m, n \in DOMAIN r : m < n => f[m] < f[n]
        /\ \A n \in DOMAIN r : r[n] = s[f[n]]
  BY DEF Thinned
<1> QED BY <1>1 DEF Monotone

LEMMA ThinnedDistinct ==
  ASSUME NEW S, NEW r \in Seq(S), NEW s \in Seq(S), NEW gone,
         Thinned(r, s, gone), Distinct(s)
  PROVE  Distinct(r)
<1>1. PICK f \in [DOMAIN r -> DOMAIN s] :
        /\ \A m, n \in DOMAIN r : m < n => f[m] < f[n]
        /\ \A n \in DOMAIN r : r[n] = s[f[n]]
  BY DEF Thinned
<1>2. ASSUME NEW i \in DOMAIN r, NEW j \in DOMAIN r,
             r[i].creature = r[j].creature
      PROVE  i = j
  <2>1. f[i] = f[j]
    BY <1>1, <1>2 DEF Distinct
  <2>2. DOMAIN r \subseteq Int /\ DOMAIN s \subseteq Int
    BY LenProperties
  <2>3. f[i] \in Int
    BY <2>2
  <2>4. ~(i < j) /\ ~(j < i)
    BY <1>1, <2>1, <2>3
  <2> QED BY <2>2, <2>4
<1> QED BY <1>2 DEF Distinct

LEMMA ThinnedConcat ==
  ASSUME NEW S, NEW r1 \in Seq(S), NEW s1 \in Seq(S),
         NEW r2 \in Seq(S), NEW s2 \in Seq(S), NEW gone,
         Thinned(r1, s1, gone), Thinned(r2, s2, gone)
  PROVE  Thinned(r1 \o r2, s1 \o s2, gone)
<1> DEFINE r == r1 \o r2
           s == s1 \o s2
<1>1. PICK f1 \in [DOMAIN r1 -> DOMAIN s1] :
        /\ \A m, n \in DOMAIN r1 : m < n => f1[m] < f1[n]
        /\ \A n \in DOMAIN r1 :
             r1[n] = s1[f1[n]] /\ s1[f1[n]].creature \notin gone
        /\ \A i \in DOMAIN s1 :
             s1[i].creature \notin gone => \E n \in DOMAIN r1 : f1[n] = i
  BY DEF Thinned
<1>2. PICK f2 \in [DOMAIN r2 -> DOMAIN s2] :
        /\ \A m, n \in DOMAIN r2 : m < n => f2[m] < f2[n]
        /\ \A n \in DOMAIN r2 :
             r2[n] = s2[f2[n]] /\ s2[f2[n]].creature \notin gone
        /\ \A i \in DOMAIN s2 :
             s2[i].creature \notin gone => \E n \in DOMAIN r2 : f2[n] = i
  BY DEF Thinned
<1>3. /\ Len(r1) \in Nat /\ Len(r2) \in Nat /\ Len(s1) \in Nat
      /\ Len(s2) \in Nat
      /\ DOMAIN r1 = 1 .. Len(r1) /\ DOMAIN r2 = 1 .. Len(r2)
      /\ DOMAIN s1 = 1 .. Len(s1) /\ DOMAIN s2 = 1 .. Len(s2)
  BY LenProperties
<1>4. /\ DOMAIN r = 1 .. (Len(r1) + Len(r2))
      /\ \A n \in DOMAIN r : r[n] = IF n <= Len(r1) THEN r1[n]
                                    ELSE r2[n - Len(r1)]
  BY ConcatProperties, <1>3
<1>5. /\ DOMAIN s = 1 .. (Len(s1) + Len(s2))
      /\ \A n \in DOMAIN s : s[n] = IF n <= Len(s1) THEN s1[n]
                                    ELSE s2[n - Len(s1)]
  BY ConcatProperties, <1>3
<1> HIDE DEF r, s
<1> DEFINE f == [n \in DOMAIN r |-> IF n <= Len(r1) THEN f1[n]
                                    ELSE Len(s1) + f2[n - Len(r1)]]
<1>6. ASSUME NEW n \in DOMAIN r, n <= Len(r1)
      PROVE  /\ n \in DOMAIN r1 /\ f[n] = f1[n] /\ f1[n] \in 1 .. Len(s1)
             /\ r[n] = r1[n] /\ s[f[n]] = s1[f1[n]] /\ f[n] \in DOMAIN s
  <2>1. n \in DOMAIN r1 /\ r[n] = r1[n] /\ f[n] = f1[n]
    BY <1>3, <1>4, <1>6
  <2>2. f1[n] \in 1 .. Len(s1)
    BY <1>3, <2>1
  <2>3. f1[n] \in DOMAIN s /\ s[f1[n]] = s1[f1[n]]
    BY <1>3, <1>5, <2>2
  <2> QED BY <2>1, <2>2, <2>3
<1>7. ASSUME NEW n \in DOMAIN r, ~(n <= Len(r1))
      PROVE  /\ n - Len(r1) \in DOMAIN r2
             /\ f[n] = Len(s1) + f2[n - Len(r1)]
             /\ f2[n - Len(r1)] \in 1 .. Len(s2)
             /\ r[n] = r2[n - Len(r1)] /\ s[f[n]] = s2[f2[n - Len(r1)]]
             /\ f[n] \in DOMAIN s
  <2>1. /\ n - Len(r1) \in DOMAIN r2 /\ r[n] = r2[n - Len(r1)]
        /\ f[n] = Len(s1) + f2[n - Len(r1)]
    BY <1>3, <1>4, <1>7
  <2>2. f2[n - Len(r1)] \in 1 .. Len(s2)
    BY <1>3, <2>1
  <2> HIDE DEF f
  <2>3. f[n] \in DOMAIN s /\ s[f[n]] = s2[f[n] - Len(s1)]
    BY <1>3, <1>5, <2>1, <2>2
  <2>4. f[n] - Len(s1) = f2[n - Len(r1)]
    BY <1>3, <2>1, <2>2
  <2> QED BY <2>1, <2>2, <2>3, <2>4
<1>8. f \in [DOMAIN r -> DOMAIN s]
  BY <1>6, <1>7
<1> HIDE DEF f
<1>9. ASSUME NEW m \in DOMAIN r, NEW n \in DOMAIN r, m < n
      PROVE  f[m] < f[n]
  <2>1. m \in Nat /\ n \in Nat
    BY <1>3, <1>4
  <2>2. CASE n <= Len(r1)
    <3>1. m <= Len(r1)
      BY <1>3, <1>9, <2>1, <2>2
    <3> QED BY <1>1, <1>6, <1>9, <2>2, <3>1
  <2>3. CASE m <= Len(r1) /\ ~(n <= Len(r1))
    <3>1. f[m] \in 1 .. Len(s1)
      BY <1>6, <2>3
    <3>2. /\ f[n] = Len(s1) + f2[n - Len(r1)]
          /\ f2[n - Len(r1)] \in 1 .. Len(s2)
      BY <1>7, <2>3
    <3> QED BY <1>3, <3>1, <3>2
  <2>4. CASE ~(m <= Len(r1)) /\ ~(n <= Len(r1))
    <3>1. /\ f[n] = Len(s1) + f2[n - Len(r1)]
          /\ f2[n - Len(r1)] \in 1 .. Len(s2)
          /\ n - Len(r1) \in DOMAIN r2
      BY <1>7, <2>4
    <3>2. /\ f[m] = Len(s1) + f2[m - Len(r1)]
          /\ f2[m - Len(r1)] \in 1 .. Len(s2)
          /\ m - Len(r1) \in DOMAIN r2
      BY <1>7, <2>4
    <3>3. m - Len(r1) < n - Len(r1)
      BY <1>3, <1>9, <2>1
    <3>4. f2[m - Len(r1)] < f2[n - Len(r1)]
      BY <1>2, <3>1, <3>2, <3>3
    <3> QED BY <1>3, <3>1, <3>2, <3>4
  <2> QED BY <1>3, <1>9, <2>1, <2>2, <2>3, <2>4
<1>10. ASSUME NEW n \in DOMAIN r
       PROVE  r[n] = s[f[n]] /\ s[f[n]].creature \notin gone
  <2>1. CASE n <= Len(r1)
    BY <1>1, <1>6, <2>1
  <2>2. CASE ~(n <= Len(r1))
    BY <1>2, <1>7, <2>2
  <2> QED BY <2>1, <2>2
<1>11. ASSUME NEW i \in DOMAIN s, s[i].creature \notin gone
       PROVE  \E n \in DOMAIN r : f[n] = i
  <2>1. CASE i <= Len(s1)
    <3>1. i \in DOMAIN s1 /\ s[i] = s1[i]
      BY <1>3, <1>5, <2>1
    <3>2. PICK n \in DOMAIN r1 : f1[n] = i
      BY <1>1, <1>11, <3>1
    <3>3. n \in DOMAIN r /\ n <= Len(r1)
      BY <1>3, <1>4
    <3> QED BY <1>6, <3>2, <3>3
  <2>2. CASE ~(i <= Len(s1))
    <3>1. i - Len(s1) \in DOMAIN s2 /\ s[i] = s2[i - Len(s1)]
      BY <1>3, <1>5, <2>2
    <3>2. PICK n \in DOMAIN r2 : f2[n] = i - Len(s1)
      BY <1>2, <1>11, <3>1
    <3>3. /\ n + Len(r1) \in DOMAIN r /\ ~(n + Len(r1) <= Len(r1))
          /\ (n + Len(r1)) - Len(r1) = n
      BY <1>3, <1>4
    <3>4. f[n + Len(r1)] = Len(s1) + f2[n]
      BY <1>7, <3>3
    <3>5. i \in Int
      BY <1>3, <1>5
    <3>6. f[n + Len(r1)] = i
      BY <1>3, <3>2, <3>4, <3>5
    <3> QED BY <3>3, <3>6
  <2> QED BY <2>1, <2>2
<1>12. Thinned(r, s, gone)
  BY <1>8, <1>9, <1>10, <1>11 DEF Thinned
<1> QED BY <1>12 DEF r, s

-----------------------------------------------------------------------------
(* A list r is s with the entry e after the first index of its entries.    *)

Inserted(r, s, index, e) ==
  /\ DOMAIN r = 1 .. (Len(s) + 1)
  /\ \A k \in DOMAIN r :
       r[k] = IF k <= index THEN s[k]
              ELSE IF k = index + 1 THEN e ELSE s[k - 1]

LEMMA InsertAtInserts ==
  ASSUME NEW S, NEW s \in Seq(S), NEW e \in S, NEW index \in 0 .. Len(s)
  PROVE  /\ InsertAt(s, index + 1, e) \in Seq(S)
         /\ Len(InsertAt(s, index + 1, e)) = Len(s) + 1
         /\ Inserted(InsertAt(s, index + 1, e), s, index, e)
<1> DEFINE front == SubSeq(s, 1, index)
           back == SubSeq(s, index + 1, Len(s))
           r == InsertAt(s, index + 1, e)
<1>1. Len(s) \in Nat /\ index \in Nat /\ index <= Len(s)
      /\ DOMAIN s = 1 .. Len(s)
  BY LenProperties
<1>2. r = (front \o <<e>>) \o back
  <2>1. (index + 1) - 1 = index
    BY <1>1
  <2> QED BY <2>1 DEF InsertAt
<1>3. /\ front \in Seq(S) /\ Len(front) = index
      /\ \A k \in 1 .. index : front[k] = s[k]
  BY <1>1
<1>4. /\ back \in Seq(S) /\ Len(back) = Len(s) - index
      /\ \A k \in 1 .. (Len(s) - index) : back[k] = s[index + k]
  <2>1. back \in Seq(S)
    BY <1>1, SubSeqProperties
  <2>2. Len(back) = Len(s) - index
    <3>1. Len(back) = IF index + 1 <= Len(s) THEN Len(s) - (index + 1) + 1
                      ELSE 0
      BY <1>1, SubSeqProperties
    <3>2. CASE index + 1 <= Len(s)
      BY <1>1, <3>1, <3>2
    <3>3. CASE ~(index + 1 <= Len(s))
      <4>1. ASSUME NEW m \in Nat, NEW n \in Nat, m <= n, ~(m + 1 <= n)
            PROVE  n - m = 0
        BY <4>1
      <4>2. Len(s) - index = 0
        BY <1>1, <3>3, <4>1
      <4> QED BY <3>1, <3>3, <4>2
    <3> QED BY <3>2, <3>3
  <2>3. ASSUME NEW k \in 1 .. (Len(s) - index) PROVE back[k] = s[index + k]
    BY <1>1, SubSeqProperties
  <2> QED BY <2>1, <2>2, <2>3
<1>5. <<e>> \in Seq(S) /\ Len(<<e>>) = 1 /\ <<e>>[1] = e
  OBVIOUS
<1> HIDE DEF front, back, r
<1>6. /\ front \o <<e>> \in Seq(S) /\ Len(front \o <<e>>) = index + 1
      /\ \A k \in 1 .. index : (front \o <<e>>)[k] = s[k]
      /\ (front \o <<e>>)[index + 1] = e
  BY <1>1, <1>3, <1>5
<1> DEFINE head == front \o <<e>>
<1> HIDE DEF head
<1>7. r = head \o back
  BY <1>2 DEF head
<1>8. /\ head \in Seq(S) /\ Len(head) = index + 1
      /\ \A k \in 1 .. index : head[k] = s[k]
      /\ head[index + 1] = e
  BY <1>6 DEF head
<1>9. /\ r \in Seq(S) /\ Len(r) = Len(s) + 1
      /\ \A k \in 1 .. (Len(s) + 1) :
           r[k] = IF k <= index + 1 THEN head[k] ELSE back[k - (index + 1)]
  <2>1. /\ r \in Seq(S) /\ Len(r) = Len(head) + Len(back)
        /\ \A k \in 1 .. (Len(head) + Len(back)) :
             r[k] = IF k <= Len(head) THEN head[k] ELSE back[k - Len(head)]
    BY <1>4, <1>7, <1>8, ConcatProperties
  <2>2. Len(head) + Len(back) = Len(s) + 1 /\ Len(head) = index + 1
    BY <1>1, <1>4, <1>8
  <2> QED BY <2>1, <2>2
<1>10. DOMAIN r = 1 .. (Len(s) + 1)
  BY <1>9, LenProperties
<1>11. ASSUME NEW k \in 1 .. (Len(s) + 1)
       PROVE  r[k] = IF k <= index THEN s[k]
                     ELSE IF k = index + 1 THEN e ELSE s[k - 1]
  <2>1. CASE k <= index
    BY <1>1, <1>8, <1>9, <2>1
  <2>2. CASE k = index + 1
    BY <1>1, <1>8, <1>9, <2>2
  <2>3. CASE ~(k <= index) /\ k # index + 1
    <3>1. /\ ~(k <= index + 1) /\ k - (index + 1) \in 1 .. (Len(s) - index)
          /\ index + (k - (index + 1)) = k - 1
      BY <1>1, <2>3
    <3>2. r[k] = back[k - (index + 1)]
      BY <1>9, <3>1
    <3>3. back[k - (index + 1)] = s[k - 1]
      BY <1>4, <3>1
    <3> QED BY <2>3, <3>2, <3>3
  <2> QED BY <2>1, <2>2, <2>3
<1>12. Inserted(r, s, index, e)
  BY <1>10, <1>11 DEF Inserted
<1> QED BY <1>9, <1>12 DEF r

LEMMA InsertedListed ==
  ASSUME NEW S, NEW r \in Seq(S), NEW s \in Seq(S), NEW e,
         NEW index \in 0 .. Len(s), Inserted(r, s, index, e)
  PROVE  Listed(r) = Listed(s) \cup {e.creature}
<1>1. Len(s) \in Nat /\ index \in Nat /\ DOMAIN s = 1 .. Len(s)
  BY LenProperties
<1>2. DOMAIN r = 1 .. (Len(s) + 1)
  BY DEF Inserted
<1>3. ASSUME NEW k \in DOMAIN r
      PROVE  r[k].creature \in Listed(s) \cup {e.creature}
  <2>1. \/ r[k] = e
        \/ \E j \in DOMAIN s : r[k] = s[j]
    <3>1. CASE k <= index
      BY <1>1, <1>2, <3>1 DEF Inserted
    <3>2. CASE k = index + 1
      BY <1>1, <1>2, <3>2 DEF Inserted
    <3>3. CASE ~(k <= index) /\ k # index + 1
      <4>1. k - 1 \in DOMAIN s
        BY <1>1, <1>2, <3>3
      <4> QED BY <3>3, <4>1 DEF Inserted
    <3> QED BY <3>1, <3>2, <3>3
  <2> QED BY <2>1 DEF Listed
<1>4. e.creature \in Listed(r)
  <2>1. index + 1 \in DOMAIN r /\ ~(index + 1 <= index)
    BY <1>1, <1>2
  <2>2. r[index + 1] = e
    BY <2>1 DEF Inserted
  <2> QED BY <2>1, <2>2 DEF Listed
<1>5. ASSUME NEW j \in DOMAIN s PROVE s[j].creature \in Listed(r)
  <2>1. CASE j <= index
    <3>1. j \in DOMAIN r /\ r[j] = s[j]
      BY <1>1, <1>2, <2>1 DEF Inserted
    <3> QED BY <3>1 DEF Listed
  <2>2. CASE ~(j <= index)
    <3>1. j + 1 \in DOMAIN r /\ ~(j + 1 <= index) /\ j + 1 # index + 1
          /\ (j + 1) - 1 = j
      BY <1>1, <1>2, <2>2
    <3>2. r[j + 1] = s[j]
      BY <3>1 DEF Inserted
    <3> QED BY <3>1, <3>2 DEF Listed
  <2> QED BY <2>1, <2>2
<1> QED BY <1>3, <1>4, <1>5 DEF Listed

LEMMA InsertedDistinct ==
  ASSUME NEW S, NEW r \in Seq(S), NEW s \in Seq(S), NEW e,
         NEW index \in 0 .. Len(s), Inserted(r, s, index, e),
         Distinct(s), e.creature \notin Listed(s)
  PROVE  Distinct(r)
<1>1. Len(s) \in Nat /\ index \in Nat /\ DOMAIN s = 1 .. Len(s)
  BY LenProperties
<1>2. DOMAIN r = 1 .. (Len(s) + 1)
  BY DEF Inserted
<1> DEFINE old(k) == IF k <= index THEN k ELSE k - 1
<1>3. ASSUME NEW k \in DOMAIN r, k # index + 1
      PROVE  old(k) \in DOMAIN s /\ r[k] = s[old(k)]
  <2>1. CASE k <= index
    BY <1>1, <1>2, <2>1 DEF Inserted
  <2>2. CASE ~(k <= index)
    <3>1. k - 1 \in DOMAIN s
      BY <1>1, <1>2, <1>3, <2>2
    <3> QED BY <1>3, <2>2, <3>1 DEF Inserted
  <2> QED BY <2>1, <2>2
<1>4. r[index + 1] = e
  <2>1. index + 1 \in DOMAIN r /\ ~(index + 1 <= index)
    BY <1>1, <1>2
  <2> QED BY <2>1 DEF Inserted
<1>5. ASSUME NEW k \in DOMAIN r, k # index + 1
      PROVE  r[k].creature # e.creature
  BY <1>3, <1>5 DEF Listed
<1>6. ASSUME NEW i \in DOMAIN r, NEW j \in DOMAIN r,
             r[i].creature = r[j].creature
      PROVE  i = j
  <2>1. CASE i = index + 1 \/ j = index + 1
    BY <1>4, <1>5, <1>6, <2>1
  <2>2. CASE i # index + 1 /\ j # index + 1
    <3>1. old(i) = old(j)
      <4> HIDE DEF old
      <4> QED BY <1>3, <1>6, <2>2 DEF Distinct
    <3> QED BY <1>1, <1>2, <2>2, <3>1
  <2> QED BY <2>1, <2>2
<1> QED BY <1>6 DEF Distinct

(* Where an entry of this score keeps the order.                           *)
Fits(s, index, score) ==
  \A k \in DOMAIN s : /\ k <= index => s[k].initiative >= score
                      /\ ~(k <= index) => score >= s[k].initiative

LEMMA InsertedMonotone ==
  ASSUME NEW r \in Seq(Entries), NEW s \in Seq(Entries), NEW e \in Entries,
         NEW index \in 0 .. Len(s), Inserted(r, s, index, e),
         Monotone(s), Fits(s, index, e.initiative)
  PROVE  Monotone(r)
<1>1. Len(s) \in Nat /\ index \in Nat /\ DOMAIN s = 1 .. Len(s)
  BY LenProperties
<1>2. DOMAIN r = 1 .. (Len(s) + 1)
  BY DEF Inserted
<1>3. ASSUME NEW k \in DOMAIN r, k <= index
      PROVE  k \in DOMAIN s /\ r[k] = s[k]
  BY <1>1, <1>2, <1>3 DEF Inserted
<1>4. ASSUME NEW k \in DOMAIN r, ~(k <= index), k # index + 1
      PROVE  k - 1 \in DOMAIN s /\ r[k] = s[k - 1] /\ ~(k - 1 <= index)
  <2>1. k - 1 \in DOMAIN s /\ ~(k - 1 <= index)
    BY <1>1, <1>2, <1>4
  <2> QED BY <1>4, <2>1 DEF Inserted
<1>5. ASSUME NEW k \in DOMAIN r, k = index + 1
      PROVE  r[k] = e
  <2>1. ~(k <= index)
    BY <1>1, <1>5
  <2> QED BY <1>5, <2>1 DEF Inserted
<1>6. /\ e.initiative \in Int
      /\ \A k \in DOMAIN s : s[k].initiative \in Int
  <2>1. \A x \in Entries : x.initiative \in Int
    BY TurnsAssumption DEF Entries
  <2>2. \A k \in DOMAIN s : s[k] \in Entries
    BY <1>1, ElementOfSeq
  <2> QED BY <2>1, <2>2
<1>7. ASSUME NEW i \in DOMAIN r, NEW j \in DOMAIN r, i < j
      PROVE  r[i].initiative >= r[j].initiative
  <2>1. i \in Nat /\ j \in Nat
    BY <1>1, <1>2
  <2>2. CASE j <= index
    <3>1. i <= index
      BY <1>1, <1>7, <2>1, <2>2
    <3> QED BY <1>3, <1>7, <2>2, <3>1 DEF Monotone
  <2>3. CASE j = index + 1
    <3>1. i <= index
      BY <1>1, <1>7, <2>1, <2>3
    <3> QED BY <1>3, <1>5, <2>3, <3>1 DEF Fits
  <2>4. CASE ~(j <= index) /\ j # index + 1
    <3>1. /\ j - 1 \in DOMAIN s /\ r[j] = s[j - 1] /\ ~(j - 1 <= index)
      BY <1>4, <2>4
    <3>2. CASE i <= index
      <4>1. i \in DOMAIN s /\ r[i] = s[i]
        BY <1>3, <3>2
      <4>2. i < j - 1
        BY <1>1, <2>1, <3>1, <3>2
      <4> QED BY <3>1, <4>1, <4>2 DEF Monotone
    <3>3. CASE i = index + 1
      BY <1>5, <3>1, <3>3 DEF Fits
    <3>4. CASE ~(i <= index) /\ i # index + 1
      <4>1. i - 1 \in DOMAIN s /\ r[i] = s[i - 1]
        BY <1>4, <3>4
      <4>2. i - 1 < j - 1
        BY <1>7, <2>1
      <4> QED BY <3>1, <4>1, <4>2 DEF Monotone
    <3> QED BY <3>2, <3>3, <3>4
  <2> QED BY <2>2, <2>3, <2>4
<1> QED BY <1>7 DEF Monotone

LEMMA InsertedLeft ==
  ASSUME NEW S, NEW r1 \in Seq(S), NEW s1 \in Seq(S), NEW s2 \in Seq(S),
         NEW e, NEW index \in 0 .. Len(s1), Inserted(r1, s1, index, e)
  PROVE  Inserted(r1 \o s2, s1 \o s2, index, e)
<1>1. /\ Len(s1) \in Nat /\ Len(s2) \in Nat /\ index \in Nat
      /\ Len(r1) = Len(s1) + 1
  BY LenProperties DEF Inserted
<1> DEFINE r == r1 \o s2
           s == s1 \o s2
<1>2. /\ Len(r) = Len(s) + 1 /\ DOMAIN r = 1 .. (Len(s) + 1)
      /\ Len(s) = Len(s1) + Len(s2)
      /\ \A k \in 1 .. (Len(s) + 1) :
           r[k] = IF k <= Len(s1) + 1 THEN r1[k] ELSE s2[k - (Len(s1) + 1)]
  <2>1. /\ r \in Seq(S) /\ Len(r) = Len(r1) + Len(s2)
        /\ \A k \in 1 .. (Len(r1) + Len(s2)) :
             r[k] = IF k <= Len(r1) THEN r1[k] ELSE s2[k - Len(r1)]
    BY ConcatProperties
  <2>2. Len(s) = Len(s1) + Len(s2)
    BY ConcatProperties
  <2>3. DOMAIN r = 1 .. Len(r)
    BY <2>1, LenProperties
  <2> HIDE DEF r, s
  <2>4. Len(r1) + Len(s2) = Len(s) + 1
    BY <1>1, <2>2
  <2> QED BY <1>1, <2>1, <2>2, <2>3, <2>4
<1>3. \A k \in 1 .. (Len(s1) + Len(s2)) :
        s[k] = IF k <= Len(s1) THEN s1[k] ELSE s2[k - Len(s1)]
  BY <1>1, ConcatProperties
<1> HIDE DEF r, s
<1>4. ASSUME NEW k \in DOMAIN r
      PROVE  r[k] = IF k <= index THEN s[k]
                    ELSE IF k = index + 1 THEN e ELSE s[k - 1]
  <2>1. k \in Nat /\ 1 <= k /\ k <= Len(s1) + Len(s2) + 1
    BY <1>1, <1>2
  <2>2. CASE k <= Len(s1) + 1
    <3>1. r[k] = r1[k] /\ k \in DOMAIN r1
      BY <1>1, <1>2, <2>1, <2>2 DEF Inserted
    <3>2. r1[k] = IF k <= index THEN s1[k]
                  ELSE IF k = index + 1 THEN e ELSE s1[k - 1]
      BY <3>1 DEF Inserted
    <3>3. k <= index => s[k] = s1[k]
      BY <1>1, <1>3, <2>1
    <3>4. ~(k <= index) /\ k # index + 1 => s[k - 1] = s1[k - 1]
      <4>1. SUFFICES ASSUME ~(k <= index), k # index + 1
                     PROVE  s[k - 1] = s1[k - 1]
        OBVIOUS
      <4>2. k - 1 \in 1 .. (Len(s1) + Len(s2)) /\ k - 1 <= Len(s1)
        BY <1>1, <2>1, <2>2, <4>1
      <4> QED BY <1>3, <4>2
    <3> QED BY <3>1, <3>2, <3>3, <3>4
  <2>3. CASE ~(k <= Len(s1) + 1)
    <3>1. r[k] = s2[k - (Len(s1) + 1)]
      BY <1>2, <2>3
    <3>2. /\ k - 1 \in 1 .. (Len(s1) + Len(s2)) /\ ~(k - 1 <= Len(s1))
          /\ (k - 1) - Len(s1) = k - (Len(s1) + 1)
          /\ ~(k <= index) /\ k # index + 1
      BY <1>1, <2>1, <2>3
    <3>3. s[k - 1] = s2[k - (Len(s1) + 1)]
      BY <1>3, <3>2
    <3> QED BY <3>1, <3>2, <3>3
  <2> QED BY <2>2, <2>3
<1>5. Inserted(r, s, index, e)
  BY <1>2, <1>4 DEF Inserted
<1> QED BY <1>5 DEF r, s

LEMMA InsertedRight ==
  ASSUME NEW S, NEW s1 \in Seq(S), NEW r2 \in Seq(S), NEW s2 \in Seq(S),
         NEW e, NEW index \in Nat,
         Len(s1) <= index, index <= Len(s1) + Len(s2),
         Inserted(r2, s2, index - Len(s1), e)
  PROVE  Inserted(s1 \o r2, s1 \o s2, index, e)
<1>1. /\ Len(s1) \in Nat /\ Len(s2) \in Nat
      /\ Len(r2) = Len(s2) + 1 /\ DOMAIN r2 = 1 .. (Len(s2) + 1)
  BY LenProperties DEF Inserted
<1> DEFINE r == s1 \o r2
           s == s1 \o s2
<1>2. /\ Len(r) = Len(s) + 1 /\ DOMAIN r = 1 .. (Len(s) + 1)
      /\ Len(s) = Len(s1) + Len(s2)
      /\ \A k \in 1 .. (Len(s) + 1) :
           r[k] = IF k <= Len(s1) THEN s1[k] ELSE r2[k - Len(s1)]
  <2>1. /\ r \in Seq(S) /\ Len(r) = Len(s1) + Len(r2)
        /\ \A k \in 1 .. (Len(s1) + Len(r2)) :
             r[k] = IF k <= Len(s1) THEN s1[k] ELSE r2[k - Len(s1)]
    BY ConcatProperties
  <2>2. Len(s) = Len(s1) + Len(s2)
    BY ConcatProperties
  <2>3. DOMAIN r = 1 .. Len(r)
    BY <2>1, LenProperties
  <2> HIDE DEF r, s
  <2>4. Len(s1) + Len(r2) = Len(s) + 1
    BY <1>1, <2>2
  <2> QED BY <2>1, <2>2, <2>3, <2>4
<1>3. \A k \in 1 .. (Len(s1) + Len(s2)) :
        s[k] = IF k <= Len(s1) THEN s1[k] ELSE s2[k - Len(s1)]
  BY <1>1, ConcatProperties
<1> HIDE DEF r, s
<1>4. ASSUME NEW k \in DOMAIN r
      PROVE  r[k] = IF k <= index THEN s[k]
                    ELSE IF k = index + 1 THEN e ELSE s[k - 1]
  <2>1. k \in Nat /\ 1 <= k /\ k <= Len(s1) + Len(s2) + 1
    BY <1>1, <1>2
  <2>2. CASE k <= Len(s1)
    <3>1. k <= index /\ k \in 1 .. (Len(s1) + Len(s2))
          /\ k \in 1 .. (Len(s) + 1)
      BY <1>1, <1>2, <2>1, <2>2
    <3> QED BY <1>2, <1>3, <2>2, <3>1
  <2>3. CASE ~(k <= Len(s1))
    <3> DEFINE n == k - Len(s1)
    <3>1. n \in DOMAIN r2 /\ r[k] = r2[n]
      BY <1>1, <1>2, <2>1, <2>3
    <3>2. /\ (n <= index - Len(s1)) <=> (k <= index)
          /\ (n = (index - Len(s1)) + 1) <=> (k = index + 1)
      <4>1. (n <= index - Len(s1)) <=> (k <= index)
        BY <1>1, <2>1
      <4>2. (n = (index - Len(s1)) + 1) <=> (k = index + 1)
        BY <1>1, <2>1
      <4> QED BY <4>1, <4>2
    <3>3. r2[n] = IF k <= index THEN s2[n]
                  ELSE IF k = index + 1 THEN e ELSE s2[n - 1]
      BY <3>1, <3>2 DEF Inserted
    <3>4. ASSUME k <= index PROVE s[k] = s2[n]
      <4>1. k \in 1 .. (Len(s1) + Len(s2))
        BY <1>1, <2>1, <3>4
      <4> QED BY <1>3, <2>3, <4>1
    <3>5. ASSUME ~(k <= index), k # index + 1 PROVE s[k - 1] = s2[n - 1]
      <4>1. index + 1 < k
        BY <2>1, <3>5
      <4>2. k - 1 \in 1 .. (Len(s1) + Len(s2)) /\ ~(k - 1 <= Len(s1))
        BY <1>1, <2>1, <4>1
      <4>3. (k - 1) - Len(s1) = n - 1
        BY <1>1, <2>1
      <4> QED BY <1>3, <4>2, <4>3
    <3> QED BY <3>1, <3>3, <3>4, <3>5
  <2> QED BY <2>2, <2>3
<1>5. Inserted(r, s, index, e)
  BY <1>2, <1>4 DEF Inserted
<1> QED BY <1>5 DEF r, s

LEMMA TiesFit ==
  ASSUME NEW s \in Seq(Entries), NEW score \in Scores, Monotone(s),
         Ties(s, score) # {},
         NEW index \in InsertionIndices(s, score)
  PROVE  /\ Min(Ties(s, score)) \in 1 .. Len(s)
         /\ Cardinality(Ties(s, score)) \in Nat
         /\ index \in 0 .. Len(s) /\ Fits(s, index, score)
<1> DEFINE ties == Ties(s, score)
           first == Min(ties)
           size == Cardinality(ties)
<1>1. Len(s) \in Nat /\ DOMAIN s = 1 .. Len(s)
  BY LenProperties
<1>2. score \in Int /\ \A k \in DOMAIN s : s[k].initiative \in Int
  <2>1. \A x \in Entries : x.initiative \in Int
    BY TurnsAssumption DEF Entries
  <2>2. \A k \in DOMAIN s : s[k] \in Entries
    BY <1>1, ElementOfSeq
  <2> QED BY <2>1, <2>2, TurnsAssumption
<1>3. ties \subseteq 1 .. Len(s)
  BY <1>1 DEF Ties
<1>4. \A k \in DOMAIN s : k \in ties <=> s[k].initiative = score
  BY DEF Ties
<1>5. first \in ties /\ \A k \in ties : first <= k
  <2>1. ties \in SUBSET Nat /\ ties # {}
    BY <1>1, <1>3
  <2> HIDE DEF ties
  <2> QED BY <2>1, MinNat
<1>6. index \in (first - 1) .. (first - 1 + size)
  BY DEF InsertionIndices
<1> HIDE DEF ties, first, size
<1>7. first \in 1 .. Len(s) /\ first \in Nat /\ 1 <= first
  BY <1>1, <1>3, <1>5
<1>8. ASSUME NEW last \in Nat, ties \subseteq first .. last, first <= last + 1
      PROVE  size \in Nat /\ size <= last - first + 1
  <2>1. IsFiniteSet(first .. last)
        /\ Cardinality(first .. last) = IF first > last THEN 0
                                        ELSE last - first + 1
    BY <1>7, FS_Interval
  <2>2. ties \in SUBSET (first .. last)
    BY <1>8
  <2>3. IsFiniteSet(ties) /\ size <= Cardinality(first .. last)
    BY <2>1, <2>2, FS_Subset DEF size
  <2>4. size \in Nat
    BY <2>3, FS_CardinalityType DEF size
  <2> HIDE <2>2
  <2> QED BY <1>7, <1>8, <2>1, <2>3, <2>4
<1>9. size \in Nat /\ size <= Len(s) - first + 1
  <2>1. ties \subseteq first .. Len(s)
    BY <1>1, <1>3, <1>5
  <2> QED BY <1>1, <1>7, <1>8, <2>1
<1>10. index \in 0 .. Len(s)
  BY <1>1, <1>6, <1>7, <1>9
<1>11. ASSUME NEW k \in DOMAIN s, k <= index
       PROVE  s[k].initiative >= score
  <2>1. k \in Nat /\ 1 <= k /\ k <= Len(s)
    BY <1>1
  <2>2. s[first].initiative = score /\ first \in DOMAIN s
    BY <1>1, <1>4, <1>5, <1>7
  <2>3. CASE k < first
    BY <1>2, <2>2, <2>3 DEF Monotone
  <2>4. CASE ~(k < first)
    <3>1. SUFFICES ASSUME ~(s[k].initiative >= score) PROVE FALSE
      OBVIOUS
    <3>2. ASSUME NEW t \in ties PROVE t \in first .. (k - 1)
      <4>1. t \in DOMAIN s /\ s[t].initiative = score /\ t \in Nat
            /\ first <= t
        BY <1>1, <1>3, <1>4, <1>5
      <4>2. ~(k < t)
        BY <1>2, <3>1, <4>1 DEF Monotone
      <4>3. t # k
        BY <1>2, <3>1, <4>1
      <4> QED BY <1>7, <2>1, <4>1, <4>2, <4>3
    <3>3. size <= (k - 1) - first + 1
      <4>1. k - 1 \in Nat /\ first <= (k - 1) + 1
        BY <1>7, <2>1, <2>4
      <4> QED BY <1>8, <3>2, <4>1
    <3> QED BY <1>6, <1>7, <1>9, <1>11, <2>1, <3>3
  <2> QED BY <2>3, <2>4
<1>12. ASSUME NEW k \in DOMAIN s, ~(k <= index)
       PROVE  score >= s[k].initiative
  <2>1. k \in Nat /\ first <= k
    BY <1>1, <1>6, <1>7, <1>9, <1>12
  <2>2. s[first].initiative = score /\ first \in DOMAIN s
    BY <1>1, <1>4, <1>5, <1>7
  <2>3. CASE k = first
    BY <1>2, <2>2, <2>3
  <2>4. CASE k # first
    <3>1. first < k
      BY <1>7, <2>1, <2>4
    <3>2. s[first].initiative >= s[k].initiative
      BY <2>2, <3>1 DEF Monotone
    <3> QED BY <2>2, <3>2
  <2> QED BY <2>3, <2>4
<1>13. Fits(s, index, score)
  BY <1>11, <1>12 DEF Fits
<1> QED BY <1>7, <1>9, <1>10, <1>13 DEF first, size, ties

LEMMA FirstLowerFits ==
  ASSUME NEW s \in Seq(Entries), NEW score \in Scores, Monotone(s),
         Ties(s, score) = {}
  PROVE  /\ FirstLower(s, score) - 1 \in 0 .. Len(s)
         /\ Fits(s, FirstLower(s, score) - 1, score)
<1> DEFINE lower == {i \in DOMAIN s : s[i].initiative < score}
           places == lower \cup {Len(s) + 1}
           first == Min(places)
<1>1. Len(s) \in Nat /\ DOMAIN s = 1 .. Len(s)
  BY LenProperties
<1>2. score \in Int /\ \A k \in DOMAIN s : s[k].initiative \in Int
  <2>1. \A x \in Entries : x.initiative \in Int
    BY TurnsAssumption DEF Entries
  <2>2. \A k \in DOMAIN s : s[k] \in Entries
    BY <1>1, ElementOfSeq
  <2> QED BY <2>1, <2>2, TurnsAssumption
<1>3. first \in places /\ \A k \in places : first <= k
  <2>1. places \in SUBSET Nat /\ places # {}
    BY <1>1
  <2> HIDE DEF places
  <2> QED BY <2>1, MinNat
<1>4. FirstLower(s, score) = first
  BY DEF FirstLower
<1> HIDE DEF first
<1>5. first \in Nat /\ 1 <= first /\ first <= Len(s) + 1
  BY <1>1, <1>3
<1>6. ASSUME NEW k \in DOMAIN s, s[k].initiative < score PROVE first <= k
  <2>1. k \in places
    BY <1>6
  <2> HIDE DEF places
  <2> QED BY <1>3, <2>1
<1>7. \/ first = Len(s) + 1
      \/ first \in DOMAIN s /\ s[first].initiative < score
  <2>1. ASSUME NEW x \in places, x # Len(s) + 1
        PROVE  x \in DOMAIN s /\ s[x].initiative < score
    <3>1. x \in lower
      BY <2>1
    <3> QED BY <3>1
  <2> HIDE DEF places
  <2> QED BY <1>3, <2>1
<1> HIDE DEF places
<1>8. first - 1 \in 0 .. Len(s)
  BY <1>1, <1>5
<1>9. ASSUME NEW k \in DOMAIN s, k <= first - 1
      PROVE  s[k].initiative >= score
  <2>1. ~(first <= k)
    BY <1>1, <1>5, <1>9
  <2> QED BY <1>2, <1>6, <2>1
<1>10. ASSUME NEW k \in DOMAIN s, ~(k <= first - 1)
       PROVE  score >= s[k].initiative
  <2>1. k \in Nat /\ first <= k /\ k <= Len(s)
    BY <1>1, <1>5, <1>10
  <2>2. first \in DOMAIN s /\ s[first].initiative < score
    BY <1>1, <1>5, <1>7, <2>1
  <2>3. CASE k = first
    BY <1>2, <2>2, <2>3
  <2>4. CASE k # first
    <3>1. first < k
      BY <1>5, <2>1, <2>4
    <3>2. s[first].initiative >= s[k].initiative
      BY <2>2, <3>1 DEF Monotone
    <3> QED BY <1>2, <2>2, <3>2
  <2> QED BY <2>3, <2>4
<1>11. Fits(s, first - 1, score)
  BY <1>9, <1>10 DEF Fits
<1> QED BY <1>4, <1>8, <1>11

(* Every place the code offers an entry keeps the order.                   *)
LEMMA IndicesFit ==
  ASSUME NEW s \in Seq(Entries), NEW score \in Scores, Monotone(s),
         NEW index \in InsertionIndices(s, score)
  PROVE  index \in 0 .. Len(s) /\ Fits(s, index, score)
<1>1. CASE Ties(s, score) # {}
  BY <1>1, TiesFit
<1>2. CASE Ties(s, score) = {}
  <2>1. index = FirstLower(s, score) - 1
    BY <1>2 DEF InsertionIndices
  <2> QED BY <1>2, <2>1, FirstLowerFits
<1> QED BY <1>1, <1>2

LEMMA MaxInterval ==
  ASSUME NEW a \in Int, NEW b \in Int, a <= b
  PROVE  Max(a .. b) \in a .. b
<1>1. b \in a .. b /\ \A x \in a .. b : b >= x
  OBVIOUS
<1> QED BY <1>1 DEF Max

LEMMA LastIndex ==
  ASSUME NEW s \in Seq(Entries), NEW score \in Scores, Monotone(s)
  PROVE  Max(InsertionIndices(s, score)) \in InsertionIndices(s, score)
<1>1. CASE Ties(s, score) # {}
  <2> DEFINE first == Min(Ties(s, score))
             size == Cardinality(Ties(s, score))
  <2>1. InsertionIndices(s, score) = (first - 1) .. (first - 1 + size)
    BY <1>1 DEF InsertionIndices
  <2>2. Ties(s, score) \in SUBSET Nat
    <3>1. DOMAIN s \subseteq Nat
      BY LenProperties
    <3> QED BY <3>1 DEF Ties
  <2>3. first \in Nat
    BY <1>1, <2>2, MinNat
  <2>4. size \in Nat
    <3>1. IsFiniteSet(DOMAIN s)
      <4>1. DOMAIN s = 1 .. Len(s) /\ Len(s) \in Nat
        BY LenProperties
      <4> QED BY <4>1, FS_Interval
    <3>2. Ties(s, score) \in SUBSET DOMAIN s
      BY DEF Ties
    <3> QED BY <3>1, <3>2, FS_Subset, FS_CardinalityType
  <2> HIDE DEF first, size
  <2>5. first - 1 \in Int /\ first - 1 + size \in Int
        /\ first - 1 <= first - 1 + size
    BY <2>3, <2>4
  <2> QED BY <2>1, <2>5, MaxInterval
<1>2. CASE Ties(s, score) = {}
  <2>1. InsertionIndices(s, score) = {FirstLower(s, score) - 1}
    BY <1>2 DEF InsertionIndices
  <2>2. FirstLower(s, score) - 1 \in Int
    BY <1>2, FirstLowerFits
  <2> QED BY <2>1, <2>2 DEF Max
<1> QED BY <1>1, <1>2

-----------------------------------------------------------------------------
(* The familiar and its Reaction.                                          *)

Fields ==
  {"round", "acted", "still", "roster", "reaction", "companion", "effects"}

(* b is a battle in shape: EXCEPT changes the fields it names only.        *)
Battle(b) == DOMAIN b = Fields /\ b = [x \in Fields |-> b[x]]

Absent == {"temporarilyDismissed", "disappearedAtZeroHitPoints"}

(* Wherever the familiar is kept, on the roster or in its companion entry, *)
(* a used Reaction is kept with it; used says whether it is.               *)
Kept(b, used) ==
  /\ Battle(b)
  /\ b.reaction \in BOOLEAN
  /\ b.companion \in [status : Statuses, reaction : BOOLEAN]
  /\ Familiar \in b.roster => FamiliarPresent(b)
  /\ used => /\ Familiar \in b.roster => ~b.reaction
             /\ b.companion.status \in Absent => ~b.companion.reaction

IInv == reacted \in BOOLEAN /\ Kept(battle, reacted)

SameBut(b, c) ==
  /\ Battle(c)
  /\ c.roster = b.roster /\ c.reaction = b.reaction
  /\ c.companion = b.companion

-----------------------------------------------------------------------------
(* The lists of Initiative apart from the rest.                            *)

LEMMA NextKeeps ==
  ASSUME NEW b, Battle(b)
  PROVE  SameBut(b, NextInitiative(b))
BY DEF NextInitiative, SameBut, Battle, Fields

LEMMA RemoveKeeps ==
  ASSUME NEW b, NEW gone, Battle(b)
  PROVE  SameBut(b, RemoveFromInitiative(b, gone))
<1> DEFINE acted == Remaining(b.acted, gone)
           still == Remaining(b.still, gone)
<1>1. RemoveFromInitiative(b, gone) =
        IF still # <<>> THEN [b EXCEPT !.acted = acted, !.still = still]
        ELSE [b EXCEPT !.round = @ + 1, !.acted = <<>>, !.still = acted]
  BY DEF RemoveFromInitiative
<1> HIDE DEF acted, still
<1> QED BY <1>1 DEF SameBut, Battle, Fields

LEMMA InsertKeeps ==
  ASSUME NEW b, NEW index, NEW entry, Battle(b)
  PROVE  SameBut(b, InsertAtOrderIndex(b, index, entry))
BY DEF InsertAtOrderIndex, SameBut, Battle, Fields

-----------------------------------------------------------------------------
(* Leaving and coming back.                                                *)

LEMMA RemovedFields ==
  ASSUME NEW b, NEW ids, Battle(b)
  PROVE  /\ Battle(Removed(b, ids))
         /\ Removed(b, ids).roster = b.roster \ WithDependents(b, ids)
         /\ Removed(b, ids).reaction =
              (b.reaction \/ Familiar \in WithDependents(b, ids))
         /\ Removed(b, ids).companion =
              IF \/ Owner \in WithDependents(b, ids)
                 \/ FamiliarPresent(b) /\ Familiar \in WithDependents(b, ids)
              THEN NoCompanion ELSE b.companion
<1> DEFINE gone == WithDependents(b, ids)
<1> DEFINE c == RemoveFromInitiative(b, gone)
<1>1. SameBut(b, c)
  BY RemoveKeeps
<1> HIDE DEF c, gone
<1>2. Removed(b, ids) =
        [c EXCEPT !.roster = @ \ gone,
                  !.reaction = @ \/ Familiar \in gone,
                  !.effects = {e \in @ : {e.on, e.by} \cap gone = {}},
                  !.companion = IF \/ Owner \in gone
                                   \/ FamiliarPresent(b) /\ Familiar \in gone
                                THEN NoCompanion ELSE @]
  BY DEF Removed, c, gone
<1>3. /\ Battle(Removed(b, ids))
      /\ Removed(b, ids).roster = b.roster \ gone
      /\ Removed(b, ids).reaction = (b.reaction \/ Familiar \in gone)
      /\ Removed(b, ids).companion =
           IF \/ Owner \in gone
              \/ FamiliarPresent(b) /\ Familiar \in gone
           THEN NoCompanion ELSE b.companion
  BY <1>1, <1>2 DEF SameBut, Battle, Fields
<1> QED BY <1>3 DEF gone

LEMMA RemovedKeeps ==
  ASSUME NEW b, NEW ids, NEW used \in BOOLEAN, Kept(b, used)
  PROVE  Kept(Removed(b, ids), used)
<1> DEFINE c == Removed(b, ids)
           gone == WithDependents(b, ids)
<1>1. /\ Battle(c) /\ c.roster = b.roster \ gone
      /\ c.reaction = (b.reaction \/ Familiar \in gone)
      /\ c.companion = IF \/ Owner \in gone
                          \/ FamiliarPresent(b) /\ Familiar \in gone
                       THEN NoCompanion ELSE b.companion
  BY RemovedFields DEF Kept
<1>2. FamiliarPresent(b) /\ Owner \in gone => Familiar \in gone
  BY TurnsAssumption DEF WithDependents
<1>3. NoCompanion \in [status : Statuses, reaction : BOOLEAN]
      /\ NoCompanion.status = "none"
  BY DEF NoCompanion, Statuses
<1> HIDE DEF c, gone
<1>4. Kept(c, used)
  BY <1>1, <1>2, <1>3 DEF Kept, FamiliarPresent, Absent
<1> QED BY <1>4 DEF c

LEMMA DisappearedKeeps ==
  ASSUME NEW b, NEW used \in BOOLEAN, Kept(b, used), Familiar \in b.roster
  PROVE  Kept(Disappeared(b), used) /\ Familiar \notin Disappeared(b).roster
<1> DEFINE c == Removed(b, {Familiar})
<1>1. /\ Battle(c) /\ c.reaction \in BOOLEAN
      /\ c.roster = b.roster \ WithDependents(b, {Familiar})
  BY RemovedFields DEF Kept
<1>2. Familiar \notin c.roster
  BY <1>1 DEF WithDependents
<1> HIDE DEF c
<1>3. Disappeared(b) =
        [c EXCEPT !.companion = [status |-> "disappearedAtZeroHitPoints",
                                 reaction |-> b.reaction]]
  BY DEF Disappeared, c
<1>4. /\ Battle(Disappeared(b)) /\ Disappeared(b).roster = c.roster
      /\ Disappeared(b).reaction = c.reaction
      /\ Disappeared(b).companion =
           [status |-> "disappearedAtZeroHitPoints", reaction |-> b.reaction]
  BY <1>1, <1>3 DEF Battle, Fields
<1> QED BY <1>1, <1>2, <1>4 DEF Kept, Statuses, Absent

LEMMA DismissedKeeps ==
  ASSUME NEW b, NEW used \in BOOLEAN, Kept(b, used),
         NEW status \in {"temporarilyDismissed", "dismissedForever"},
         status = "temporarilyDismissed" => Familiar \in b.roster
  PROVE  Kept(DismissedFor(b, status), used)
<1> DEFINE companion == [status |-> status,
                         reaction |-> status = "dismissedForever" \/ b.reaction]
           c == IF Familiar \in b.roster THEN Removed(b, {Familiar}) ELSE b
<1>1. /\ Battle(c) /\ c.reaction \in BOOLEAN /\ Familiar \notin c.roster
  <2>1. /\ Battle(Removed(b, {Familiar}))
        /\ Removed(b, {Familiar}).reaction \in BOOLEAN
        /\ Familiar \notin Removed(b, {Familiar}).roster
    <3>1. Familiar \in WithDependents(b, {Familiar})
      BY DEF WithDependents
    <3>2. Battle(b)
      BY DEF Kept
    <3>3. /\ Battle(Removed(b, {Familiar}))
          /\ Removed(b, {Familiar}).roster =
               b.roster \ WithDependents(b, {Familiar})
          /\ Removed(b, {Familiar}).reaction =
               (b.reaction \/ Familiar \in WithDependents(b, {Familiar}))
      BY <3>2, RemovedFields
    <3> QED BY <3>1, <3>3
  <2>2. CASE Familiar \in b.roster
    BY <2>1, <2>2
  <2>3. CASE Familiar \notin b.roster
    <3>1. c = b
      BY <2>3
    <3> QED BY <2>3, <3>1 DEF Kept
  <2> QED BY <2>2, <2>3
<1>2. companion \in [status : Statuses, reaction : BOOLEAN]
      /\ companion.status = status
      /\ companion.reaction = (status = "dismissedForever" \/ b.reaction)
  BY DEF Kept, Statuses
<1> HIDE DEF c, companion
<1>3. DismissedFor(b, status) = [c EXCEPT !.companion = companion]
  BY DEF DismissedFor, c, companion
<1>4. /\ Battle(DismissedFor(b, status))
      /\ DismissedFor(b, status).roster = c.roster
      /\ DismissedFor(b, status).reaction = c.reaction
      /\ DismissedFor(b, status).companion = companion
  BY <1>1, <1>3 DEF Battle, Fields
<1> QED BY <1>1, <1>2, <1>4 DEF Kept, Absent

LEMMA SummonedKeeps ==
  ASSUME NEW b, NEW score, NEW used \in BOOLEAN, Kept(b, used),
         Familiar \in b.roster <=> FamiliarPresent(b),
         b.companion.status \in {"none", "dismissedForever"} => ~used
  PROVE  Kept(Summoned(b, score), used)
<1> DEFINE prior == IF Familiar \in b.roster THEN Removed(b, {Familiar}) ELSE b
           entry == [creature |-> Familiar, initiative |-> score]
           after == Max(InsertionIndices(Order(prior), score))
           c == InsertAtOrderIndex(prior, after, entry)
<1>1. Battle(prior)
  BY RemovedFields DEF Kept
<1> HIDE DEF prior, after
<1>2. Battle(c)
  BY <1>1, InsertKeeps DEF SameBut
<1> HIDE DEF c
<1>3. Summoned(b, score) =
        [c EXCEPT !.roster = @ \cup {Familiar},
                  !.reaction = FamiliarReaction(b),
                  !.companion = [status |-> "present", reaction |-> TRUE]]
  BY DEF Summoned, c, prior, after
<1>4. /\ Battle(Summoned(b, score))
      /\ Summoned(b, score).reaction = FamiliarReaction(b)
      /\ Summoned(b, score).companion =
           [status |-> "present", reaction |-> TRUE]
  BY <1>2, <1>3 DEF Battle, Fields
<1>5. FamiliarReaction(b) \in BOOLEAN /\ (used => ~FamiliarReaction(b))
  BY DEF FamiliarReaction, FamiliarPresent, Kept, Statuses, Absent
<1> QED BY <1>4, <1>5 DEF Kept, FamiliarPresent, Statuses, Absent

LEMMA AdmittedKeeps ==
  ASSUME NEW b, NEW c, NEW score, NEW index, NEW used \in BOOLEAN,
         Kept(b, used), c # Familiar
  PROVE  Kept(Admitted(b, c, score, index), used)
<1> DEFINE entry == [creature |-> c, initiative |-> score]
           d == InsertAtOrderIndex(b, index, entry)
<1>1. SameBut(b, d)
  BY InsertKeeps DEF Kept
<1> HIDE DEF d
<1>2. Admitted(b, c, score, index) = [d EXCEPT !.roster = @ \cup {c}]
  BY DEF Admitted, d
<1>3. /\ Battle(Admitted(b, c, score, index))
      /\ Admitted(b, c, score, index).roster = b.roster \cup {c}
      /\ Admitted(b, c, score, index).reaction = b.reaction
      /\ Admitted(b, c, score, index).companion = b.companion
  BY <1>1, <1>2 DEF SameBut, Battle, Fields
<1> QED BY <1>3 DEF Kept, FamiliarPresent

-----------------------------------------------------------------------------
(* The boundary between two turns.                                         *)

LEMMA TickedKeeps ==
  ASSUME NEW b, NEW cohort, NEW count, NEW used \in BOOLEAN, Kept(b, used)
  PROVE  Kept(Ticked(b, cohort, count), used)
<1> DEFINE effects == Ticked(b, cohort, count).effects
<1>1. Ticked(b, cohort, count) = [b EXCEPT !.effects = effects]
  BY DEF Ticked, Kept, Battle, Fields
<1> HIDE DEF effects
<1>2. SameBut(b, [b EXCEPT !.effects = effects])
  BY DEF SameBut, Kept, Battle, Fields
<1> QED BY <1>1, <1>2 DEF SameBut, Kept, FamiliarPresent

LEMMA EndTurnDamagedKeeps ==
  ASSUME NEW b, NEW used \in BOOLEAN, Kept(b, used), Familiar \in b.roster
  PROVE  Kept(EndTurnDamaged(b), used)
<1> DEFINE damaged == Disappeared(b)
<1>1. Kept(damaged, used) /\ Familiar \notin damaged.roster
  BY DisappearedKeeps
<1> HIDE DEF damaged
<1>2. EndTurnDamaged(b) =
        [b EXCEPT !.roster = damaged.roster, !.reaction = damaged.reaction,
                  !.effects = damaged.effects]
  BY DEF EndTurnDamaged, damaged
<1>3. /\ Battle(EndTurnDamaged(b))
      /\ EndTurnDamaged(b).roster = damaged.roster
      /\ EndTurnDamaged(b).reaction = damaged.reaction
      /\ EndTurnDamaged(b).companion = b.companion
  BY <1>2 DEF Kept, Battle, Fields
<1> QED BY <1>1, <1>3 DEF Kept, FamiliarPresent, Absent

LEMMA AfterEndTurnKeeps ==
  ASSUME NEW b, NEW used \in BOOLEAN, Kept(b, used),
         NEW fallsAtEnd \in BOOLEAN, NEW fallsAtStart \in BOOLEAN, NEW count,
         fallsAtEnd \/ fallsAtStart => Familiar \in b.roster,
         ~(fallsAtEnd /\ fallsAtStart)
  PROVE  Kept(AfterEndTurn(b, fallsAtEnd, fallsAtStart, count),
              used /\ Current(NextInitiative(b)) # Familiar)
<1> DEFINE actor == Current(b)
           turned == NextInitiative(b)
           next == Current(turned)
           stillUsed == used /\ next # Familiar
           cohort == IF turned.round > b.round
                     THEN {e \in b.effects : e.kind \in Lasting} ELSE {}
           reset == [b EXCEPT !.reaction = @ \/ next = Familiar]
           damaged == IF fallsAtEnd THEN EndTurnDamaged(reset) ELSE reset
           left == {e \in damaged.effects : ~ExpiresWith(e, actor, b.round)}
           begun == [turned EXCEPT !.roster = damaged.roster,
                                   !.reaction = damaged.reaction,
                                   !.effects = left]
           started == IF fallsAtStart THEN Disappeared(begun) ELSE begun
<1>1. AfterEndTurn(b, fallsAtEnd, fallsAtStart, count) =
        Ticked(started, cohort, count)
  BY DEF AfterEndTurn
<1>2. SameBut(b, turned)
  BY NextKeeps DEF Kept
<1> HIDE DEF turned, next, cohort, left, actor
<1>3. Kept(reset, stillUsed) /\ reset.roster = b.roster
      /\ reset.companion = b.companion
  <2>1. /\ Battle(reset) /\ reset.roster = b.roster
        /\ reset.companion = b.companion
        /\ reset.reaction = (b.reaction \/ next = Familiar)
    BY DEF Kept, Battle, Fields
  <2> QED BY <2>1 DEF Kept, FamiliarPresent
<1>4. stillUsed \in BOOLEAN
  OBVIOUS
<1> HIDE DEF reset, stillUsed
<1>5. Kept(damaged, stillUsed) /\ damaged.companion = b.companion
      /\ (fallsAtStart => damaged.roster = b.roster)
  <2>1. CASE fallsAtEnd
    <3>1. Kept(EndTurnDamaged(reset), stillUsed)
      BY <1>3, <1>4, <2>1, EndTurnDamagedKeeps
    <3>2. EndTurnDamaged(reset).companion = reset.companion
      BY <1>3 DEF EndTurnDamaged, Kept, Battle, Fields
    <3> QED BY <1>3, <2>1, <3>1, <3>2
  <2>2. CASE ~fallsAtEnd
    BY <1>3, <2>2
  <2> QED BY <2>1, <2>2
<1> HIDE DEF damaged
<1>6. Kept(begun, stillUsed) /\ begun.roster = damaged.roster
  <2>1. /\ Battle(begun) /\ begun.roster = damaged.roster
        /\ begun.reaction = damaged.reaction
        /\ begun.companion = b.companion
    BY <1>2 DEF SameBut, Battle, Fields
  <2> QED BY <1>5, <2>1 DEF Kept, FamiliarPresent
<1> HIDE DEF begun
<1>7. Kept(started, stillUsed)
  <2>1. CASE fallsAtStart
    BY <1>4, <1>5, <1>6, <2>1, DisappearedKeeps
  <2>2. CASE ~fallsAtStart
    BY <1>6, <2>2
  <2> QED BY <2>1, <2>2
<1> HIDE DEF started
<1>8. Kept(Ticked(started, cohort, count), stillUsed)
  BY <1>4, <1>7, TickedKeeps
<1> QED BY <1>1, <1>8 DEF stillUsed, next, turned

-----------------------------------------------------------------------------
(* The invariant, action by action.                                        *)

LEMMA Weaken ==
  ASSUME NEW b, NEW used \in BOOLEAN, NEW less \in BOOLEAN, less => used,
         Kept(b, used)
  PROVE  Kept(b, less)
BY DEF Kept

LEMMA EffectsKeep ==
  ASSUME NEW b, NEW effects, NEW used \in BOOLEAN, Kept(b, used)
  PROVE  Kept([b EXCEPT !.effects = effects], used)
<1>1. SameBut(b, [b EXCEPT !.effects = effects])
  BY DEF SameBut, Kept, Battle, Fields
<1> QED BY <1>1 DEF SameBut, Kept, FamiliarPresent

(* A step in which nobody's Reaction comes back.                           *)
LEMMA BecomesKeeps ==
  ASSUME reacted \in BOOLEAN, NEW next, NEW ender, NEW newcomers,
         NEW refreshed, Becomes(next, ender, newcomers, refreshed),
         Kept(next, reacted)
  PROVE  IInv'
<1>1. reacted' = (reacted /\ Familiar \notin refreshed) /\ battle' = next
  BY DEF Becomes
<1>2. reacted' \in BOOLEAN /\ (reacted' => reacted)
  BY <1>1
<1>3. Kept(next, reacted')
  BY <1>2, Weaken
<1> QED BY <1>1, <1>2, <1>3 DEF IInv, Kept, Battle, FamiliarPresent

LEMMA InitKept == Init => IInv
<1> SUFFICES ASSUME Init PROVE IInv
  OBVIOUS
<1>1. PICK order \in StartingOrders :
        battle = [round |-> 1, acted |-> <<>>, still |-> order,
                  roster |-> Listed(order), reaction |-> TRUE,
                  companion |-> IF Familiar \in Listed(order)
                                THEN [NoCompanion EXCEPT !.status = "present"]
                                ELSE NoCompanion,
                  effects |-> {}]
  BY DEF Init
<1>2. Battle(battle)
  BY <1>1 DEF Battle, Fields
<1>3. battle.companion \in [status : Statuses, reaction : BOOLEAN]
      /\ (Familiar \in battle.roster => FamiliarPresent(battle))
  BY <1>1 DEF NoCompanion, Statuses, FamiliarPresent
<1> QED BY <1>1, <1>2, <1>3 DEF Init, IInv, Kept

LEMMA StepKeeps == IInv /\ [Next]_vars => IInv'
<1> SUFFICES ASSUME IInv, [Next]_vars PROVE IInv'
  OBVIOUS
<1> USE DEF IInv
<1>1. CASE EndTurn
  <2> DEFINE actor == Current(battle)
             next == Current(NextInitiative(battle))
             Frail(c) == c = Familiar /\ c \in battle.roster
                           /\ FamiliarPresent(battle)
             count == [ends EXCEPT ![actor] = @ + 1]
  <2>1. PICK fallsAtEnd \in
               {x \in BOOLEAN : x => TurnEndDamage /\ Frail(actor)},
             fallsAtStart \in {x \in BOOLEAN : x => Frail(next)} :
          /\ ~(fallsAtEnd /\ fallsAtStart)
          /\ Becomes(AfterEndTurn(battle, fallsAtEnd, fallsAtStart, count),
                     {actor}, {}, {next})
    BY <1>1 DEF EndTurn
  <2>2. Kept(AfterEndTurn(battle, fallsAtEnd, fallsAtStart, count),
             reacted /\ next # Familiar)
    BY <2>1, AfterEndTurnKeeps
  <2>3. /\ battle' = AfterEndTurn(battle, fallsAtEnd, fallsAtStart, count)
        /\ reacted' = (reacted /\ Familiar \notin {next})
    BY <2>1 DEF Becomes
  <2> HIDE DEF next, actor, count
  <2>4. reacted' = (reacted /\ next # Familiar)
    BY <2>3
  <2> QED BY <2>2, <2>3, <2>4 DEF Kept, Battle, FamiliarPresent
<1>2. ASSUME NEW e, PutEffect(e) PROVE IInv'
  <2>1. Kept([battle EXCEPT !.effects = battle.effects \cup {e}], reacted)
    BY EffectsKeep
  <2>2. Becomes([battle EXCEPT !.effects = battle.effects \cup {e}], {}, {}, {})
    BY <1>2 DEF PutEffect
  <2> QED BY <2>1, <2>2, BecomesKeeps
<1>3. CASE UntilEndOfNextTurn
  BY <1>2, <1>3 DEF UntilEndOfNextTurn
<1>4. CASE UseFeature
  BY <1>2, <1>4 DEF UseFeature
<1>5. CASE LastForRounds
  BY <1>2, <1>5 DEF LastForRounds
<1>6. CASE BreakConcentration
  <2>1. PICK e \in battle.effects :
          Becomes([battle EXCEPT !.effects =
                     (battle.effects \ {e})
                       \cup Promotions(battle, {e}, ends, FALSE)], {}, {}, {})
    BY <1>6 DEF BreakConcentration
  <2>2. Kept([battle EXCEPT !.effects =
                (battle.effects \ {e})
                  \cup Promotions(battle, {e}, ends, FALSE)], reacted)
    BY EffectsKeep
  <2> QED BY <2>1, <2>2, BecomesKeeps
<1>7. CASE UseReaction
  <2>1. /\ Familiar \in battle.roster /\ reacted' = TRUE
        /\ battle' = [battle EXCEPT !.reaction = FALSE]
    BY <1>7 DEF UseReaction
  <2>2. /\ Battle(battle') /\ battle'.reaction = FALSE
        /\ battle'.companion = battle.companion
        /\ battle'.roster = battle.roster
    BY <2>1 DEF Kept, Battle, Fields
  <2> QED BY <2>1, <2>2 DEF Kept, Battle, FamiliarPresent, Absent
<1>8. CASE FamiliarFalls
  BY <1>8, DisappearedKeeps, BecomesKeeps DEF FamiliarFalls
<1>9. CASE Dismiss
  BY <1>9, DismissedKeeps, BecomesKeeps DEF Dismiss
<1>10. CASE Summon
  <2>1. PICK score \in Scores :
          Becomes(Summoned(battle, score), {}, {Familiar},
                  IF battle.companion.status \in {"none", "dismissedForever"}
                  THEN {Familiar} ELSE {})
    BY <1>10 DEF Summon
  <2>2. /\ battle' = Summoned(battle, score)
        /\ reacted' = (reacted /\ Familiar \notin
             IF battle.companion.status \in {"none", "dismissedForever"}
             THEN {Familiar} ELSE {})
    BY <2>1 DEF Becomes
  <2>3. /\ reacted' \in BOOLEAN /\ (reacted' => reacted)
        /\ battle.companion.status \in {"none", "dismissedForever"} => ~reacted'
    BY <2>2
  <2>4. Kept(battle, reacted')
    BY <2>3, Weaken
  <2>5. Kept(Summoned(battle, score), reacted')
    BY <1>10, <2>3, <2>4, SummonedKeeps DEF Summon
  <2> QED BY <2>2, <2>3, <2>5 DEF Kept, Battle, FamiliarPresent
<1>11. CASE AddCombatant
  <2>1. PICK c \in ({Owner} \cup Others) \ battle.roster, score \in Scores :
          \E index \in InsertionIndices(Order(battle), score) :
            Becomes(Admitted(battle, c, score, index), {}, {c}, {c})
    BY <1>11 DEF AddCombatant
  <2>2. c # Familiar
    BY <2>1, TurnsAssumption
  <2> QED BY <2>1, <2>2, AdmittedKeeps, BecomesKeeps
<1>12. CASE RemoveCombatant
  BY <1>12, RemovedKeeps, BecomesKeeps DEF RemoveCombatant
<1>13. CASE UNCHANGED vars
  BY <1>13 DEF vars, Kept, Battle, FamiliarPresent
<1> QED
  BY <1>1, <1>3, <1>4, <1>5, <1>6, <1>7, <1>8, <1>9, <1>10, <1>11, <1>12,
     <1>13 DEF Next

-----------------------------------------------------------------------------
(* What the operations do to the lists.                                    *)

Acted(b) == Listed(b.acted)

Still(b) == Listed(b.still)

Typed(b) ==
  /\ Battle(b)
  /\ b.round \in Nat
  /\ b.acted \in Seq(Entries) /\ b.still \in Seq(Entries)
  /\ b.roster \subseteq Creatures /\ b.effects \subseteq Effects

(* The lists of c are not those of b; all else is.                         *)
Relisted(b, c) == Typed(c) /\ SameBut(b, c) /\ c.effects = b.effects

(* The creature whose turn it is has had it.                               *)
Turns(b, c) ==
  \/ /\ Len(b.still) # 1 /\ c.round = b.round
     /\ Acted(c) = Acted(b) \cup {Current(b)}
     /\ Still(b) = Still(c) \cup {Current(b)}
     /\ Distinct(Order(b)) => Current(b) \notin Still(c)
  \/ /\ Len(b.still) = 1 /\ c.round = b.round + 1
     /\ Acted(c) = {} /\ Still(c) = Acted(b) \cup {Current(b)}
     /\ Still(b) = {Current(b)}

(* Those who are gone have left the lists.                                 *)
Leaves(b, c, gone) ==
  \/ /\ c.round = b.round
     /\ Acted(c) = Acted(b) \ gone /\ Still(c) = Still(b) \ gone
  \/ /\ c.round = b.round + 1
     /\ Acted(c) = {} /\ Still(c) = Acted(b) \ gone
     /\ Still(b) \subseteq gone

(* The newcomer stands in one of the lists.                                *)
Joins(b, c, newcomer) ==
  /\ c.round = b.round
  /\ \/ Acted(c) = Acted(b) \cup {newcomer} /\ Still(c) = Still(b)
     \/ Acted(c) = Acted(b) /\ Still(c) = Still(b) \cup {newcomer}

LEMMA ListedConcat ==
  ASSUME NEW S, NEW s \in Seq(S), NEW t \in Seq(S)
  PROVE  Listed(s \o t) = Listed(s) \cup Listed(t)
<1>1. /\ Len(s) \in Nat /\ Len(t) \in Nat
      /\ DOMAIN s = 1 .. Len(s) /\ DOMAIN t = 1 .. Len(t)
      /\ s \o t \in Seq(S)
      /\ DOMAIN (s \o t) = 1 .. (Len(s) + Len(t))
  BY LenProperties, ConcatProperties
<1>2. \A k \in 1 .. (Len(s) + Len(t)) :
        (s \o t)[k] = IF k <= Len(s) THEN s[k] ELSE t[k - Len(s)]
  BY ConcatProperties
<1> DEFINE r == s \o t
<1> HIDE DEF r
<1>3. ASSUME NEW k \in DOMAIN r
      PROVE  r[k].creature \in Listed(s) \cup Listed(t)
  <2>1. CASE k <= Len(s)
    <3>1. k \in DOMAIN s /\ r[k] = s[k]
      BY <1>1, <1>2, <2>1 DEF r
    <3> QED BY <3>1 DEF Listed
  <2>2. CASE ~(k <= Len(s))
    <3>1. k - Len(s) \in DOMAIN t /\ r[k] = t[k - Len(s)]
      BY <1>1, <1>2, <2>2 DEF r
    <3> QED BY <3>1 DEF Listed
  <2> QED BY <2>1, <2>2
<1>4. ASSUME NEW k \in DOMAIN s PROVE s[k].creature \in Listed(r)
  <2>1. k \in DOMAIN r /\ r[k] = s[k]
    BY <1>1, <1>2 DEF r
  <2> QED BY <2>1 DEF Listed
<1>5. ASSUME NEW k \in DOMAIN t PROVE t[k].creature \in Listed(r)
  <2>1. k + Len(s) \in DOMAIN r /\ ~(k + Len(s) <= Len(s))
        /\ (k + Len(s)) - Len(s) = k
    BY <1>1 DEF r
  <2>2. r[k + Len(s)] = t[k]
    BY <1>1, <1>2, <2>1 DEF r
  <2> QED BY <2>1, <2>2 DEF Listed
<1>6. Listed(r) = Listed(s) \cup Listed(t)
  BY <1>3, <1>4, <1>5 DEF Listed
<1> QED BY <1>6 DEF r

LEMMA OrderListed ==
  ASSUME NEW b, Typed(b)
  PROVE  /\ Order(b) \in Seq(Entries)
         /\ Listed(Order(b)) = Acted(b) \cup Still(b)
         /\ Len(Order(b)) = Len(b.acted) + Len(b.still)
<1>1. b.acted \in Seq(Entries) /\ b.still \in Seq(Entries)
  BY DEF Typed
<1> QED BY <1>1, ListedConcat, ConcatProperties DEF Order, Acted, Still

LEMMA NextTurns ==
  ASSUME NEW b, Typed(b), b.still # <<>>
  PROVE  /\ Relisted(b, NextInitiative(b))
         /\ NextInitiative(b).still # <<>>
         /\ Order(NextInitiative(b)) = Order(b)
         /\ Turns(b, NextInitiative(b))
<1> DEFINE c == NextInitiative(b)
           head == Head(b.still)
           tail == Tail(b.still)
           acted == Append(b.acted, head)
<1>1. /\ b.acted \in Seq(Entries) /\ b.still \in Seq(Entries)
      /\ Battle(b) /\ b.round \in Nat
  BY DEF Typed
<1>2. /\ head \in Entries /\ tail \in Seq(Entries)
      /\ Len(tail) = Len(b.still) - 1 /\ Len(b.still) \in Nat
      /\ Len(b.still) # 0 /\ head = b.still[1]
  BY <1>1, HeadTailProperties, LenProperties, EmptySeq
<1> DEFINE one == <<head>>
<1>3. /\ b.still = one \o tail /\ acted = b.acted \o one
      /\ one \in Seq(Entries) /\ Listed(one) = {Current(b)}
  <2>1. b.still = one \o tail
    BY <1>1, <1>2, HeadTailProperties
  <2>2. acted = b.acted \o one
    BY <1>1, <1>2, AppendIsConcat
  <2>3. one \in Seq(Entries)
    BY <1>2
  <2>4. Listed(one) = {head.creature}
    BY DEF Listed
  <2> QED BY <1>2, <2>1, <2>2, <2>3, <2>4 DEF Current
<1>4. acted \in Seq(Entries) /\ acted # <<>>
  <2>1. acted \in Seq(Entries) /\ Len(acted) = Len(b.acted) + 1
    BY <1>1, <1>2, AppendProperties
  <2>2. Len(b.acted) \in Nat
    BY <1>1, LenProperties
  <2> HIDE DEF acted
  <2> QED BY <2>1, <2>2, EmptySeq
<1> HIDE DEF head, tail, one
<1>5. /\ Listed(acted) = Acted(b) \cup {Current(b)}
      /\ Still(b) = Listed(tail) \cup {Current(b)}
  <2> HIDE DEF acted
  <2>1. Listed(b.acted \o one) = Listed(b.acted) \cup Listed(one)
    BY <1>1, <1>3, ListedConcat
  <2>2. Listed(one \o tail) = Listed(one) \cup Listed(tail)
    BY <1>2, <1>3, ListedConcat
  <2> QED BY <1>3, <2>1, <2>2 DEF Acted, Still
<1>6. SameBut(b, c) /\ c.effects = b.effects
  BY <1>1, NextKeeps DEF NextInitiative, Battle, Fields
<1>7. c = IF Len(b.still) = 1
          THEN [b EXCEPT !.round = @ + 1, !.acted = <<>>, !.still = acted]
          ELSE [b EXCEPT !.acted = acted, !.still = tail]
  BY DEF NextInitiative, head, tail
<1> HIDE DEF c, acted
<1>8. CASE Len(b.still) = 1
  <2>1. c.round = b.round + 1 /\ c.acted = <<>> /\ c.still = acted
    BY <1>1, <1>7, <1>8 DEF Battle, Fields
  <2>2. tail = <<>>
    BY <1>2, <1>8, EmptySeq
  <2>3. Order(c) = Order(b)
    <3>1. b.still = one
      BY <1>3, <2>2, ConcatEmptySeq
    <3>2. Order(c) = acted
      BY <1>4, <2>1, ConcatEmptySeq DEF Order
    <3> QED BY <1>3, <3>1, <3>2 DEF Order
  <2>4. Typed(c)
    BY <1>1, <1>4, <1>6, <2>1 DEF Typed, SameBut
  <2>5. Listed(tail) = {} /\ Acted(c) = {}
    BY <2>1, <2>2 DEF Listed, Acted
  <2>6. Turns(b, c)
    BY <1>5, <1>8, <2>1, <2>5 DEF Turns, Still
  <2> QED BY <1>4, <1>6, <2>1, <2>3, <2>4, <2>6 DEF Relisted, c
<1>9. CASE Len(b.still) # 1
  <2>1. c.round = b.round /\ c.acted = acted /\ c.still = tail
    BY <1>1, <1>7, <1>9 DEF Battle, Fields
  <2>2. tail # <<>>
    <3>1. Len(tail) # 0
      BY <1>2, <1>9
    <3> QED BY <3>1, EmptySeq
  <2>3. Order(c) = Order(b)
    <3>1. (b.acted \o one) \o tail = b.acted \o (one \o tail)
      <4>1. b.acted \in Seq(Entries) /\ one \in Seq(Entries)
            /\ tail \in Seq(Entries)
        BY <1>1, <1>2, <1>3
      <4>2. \A r, s, t \in Seq(Entries) : (r \o s) \o t = r \o (s \o t)
        BY ConcatAssociative
      <4> QED BY <4>1, <4>2
    <3> QED BY <1>3, <2>1, <3>1 DEF Order
  <2>4. Typed(c)
    BY <1>1, <1>2, <1>4, <1>6, <2>1 DEF Typed, SameBut
  <2>5. ASSUME Distinct(Order(b)) PROVE Current(b) \notin Still(c)
    <3>1. /\ DOMAIN tail = 1 .. Len(tail) /\ Len(tail) \in Nat
          /\ Len(b.acted) \in Nat
          /\ DOMAIN b.acted = 1 .. Len(b.acted)
      BY <1>1, <1>2, LenProperties
    <3> DEFINE n == Len(b.acted)
    <3>2. /\ DOMAIN Order(b) = 1 .. (n + Len(b.still))
          /\ \A k \in 1 .. (n + Len(b.still)) :
               Order(b)[k] = IF k <= n THEN b.acted[k] ELSE b.still[k - n]
      <4>1. /\ b.acted \o b.still \in Seq(Entries)
            /\ Len(b.acted \o b.still) = n + Len(b.still)
        BY <1>1, ConcatProperties
      <4>2. DOMAIN (b.acted \o b.still) = 1 .. (n + Len(b.still))
        BY <4>1, LenProperties
      <4>3. \A k \in 1 .. (n + Len(b.still)) :
              (b.acted \o b.still)[k] = IF k <= n THEN b.acted[k]
                                        ELSE b.still[k - n]
        BY <1>1, ConcatProperties
      <4> QED BY <4>2, <4>3 DEF Order
    <3>3. ASSUME NEW k \in DOMAIN tail, tail[k].creature = Current(b)
          PROVE  FALSE
      <4>1. b.still[k + 1] = tail[k] /\ k + 1 \in 1 .. Len(b.still)
        BY <1>1, <1>2, <3>1, HeadTailProperties DEF tail
      <4>2. /\ n + 1 \in DOMAIN Order(b) /\ ~(n + 1 <= n)
            /\ (n + 1) - n = 1 /\ n + (k + 1) \in DOMAIN Order(b)
            /\ ~(n + (k + 1) <= n) /\ (n + (k + 1)) - n = k + 1
        <5>1. k \in Nat /\ 1 <= k /\ k + 1 <= Len(b.still)
              /\ n \in Nat /\ Len(b.still) \in Nat
          BY <1>2, <3>1, <4>1
        <5>2. DOMAIN Order(b) = 1 .. (n + Len(b.still))
          BY <3>2
        <5> HIDE DEF n
        <5> QED BY <5>1, <5>2
      <4>3. Order(b)[n + 1] = b.still[1]
            /\ Order(b)[n + (k + 1)] = b.still[k + 1]
        BY <3>2, <4>2
      <4>4. n + 1 = n + (k + 1)
        BY <2>5, <3>3, <4>1, <4>2, <4>3 DEF Distinct, Current
      <4> QED BY <3>1, <4>4
    <3> QED BY <2>1, <3>3 DEF Still, Listed
  <2>6. Turns(b, c)
    BY <1>5, <1>9, <2>1, <2>5 DEF Turns, Acted, Still
  <2> QED BY <1>6, <2>1, <2>2, <2>3, <2>4, <2>6 DEF Relisted, c
<1> QED BY <1>8, <1>9

LEMMA RemovalLeaves ==
  ASSUME NEW b, NEW gone, Typed(b)
  PROVE  /\ Relisted(b, RemoveFromInitiative(b, gone))
         /\ Thinned(Order(RemoveFromInitiative(b, gone)), Order(b), gone)
         /\ Leaves(b, RemoveFromInitiative(b, gone), gone)
         /\ ~(Listed(Order(b)) \subseteq gone)
              => RemoveFromInitiative(b, gone).still # <<>>
<1> DEFINE c == RemoveFromInitiative(b, gone)
           acted == Remaining(b.acted, gone)
           still == Remaining(b.still, gone)
<1>1. /\ b.acted \in Seq(Entries) /\ b.still \in Seq(Entries)
      /\ Battle(b) /\ b.round \in Nat
  BY DEF Typed
<1>2. acted \in Seq(Entries) /\ Thinned(acted, b.acted, gone)
  BY <1>1, RemainingThins
<1>3. still \in Seq(Entries) /\ Thinned(still, b.still, gone)
  BY <1>1, RemainingThins
<1>4. /\ Listed(acted) = Acted(b) \ gone
      /\ Listed(still) = Still(b) \ gone
  BY <1>2, <1>3, ThinnedListed DEF Acted, Still
<1>5. SameBut(b, c) /\ c.effects = b.effects
  BY <1>1, RemoveKeeps DEF RemoveFromInitiative, Battle, Fields
<1>6. c = IF still # <<>> THEN [b EXCEPT !.acted = acted, !.still = still]
          ELSE [b EXCEPT !.round = @ + 1, !.acted = <<>>, !.still = acted]
  BY DEF RemoveFromInitiative
<1> HIDE DEF c, acted, still
<1>7. Thinned(acted \o still, b.acted \o b.still, gone)
  BY <1>1, <1>2, <1>3, ThinnedConcat
<1>8. CASE still # <<>>
  <2>1. c.round = b.round /\ c.acted = acted /\ c.still = still
    BY <1>1, <1>6, <1>8 DEF Battle, Fields
  <2>2. Typed(c)
    BY <1>1, <1>2, <1>3, <1>5, <2>1 DEF Typed, SameBut
  <2>3. Thinned(Order(c), Order(b), gone)
    BY <1>7, <2>1 DEF Order
  <2>4. Leaves(b, c, gone)
    BY <1>4, <2>1 DEF Leaves, Acted, Still
  <2> QED BY <1>5, <1>8, <2>1, <2>2, <2>3, <2>4 DEF Relisted, c
<1>9. CASE still = <<>>
  <2>1. c.round = b.round + 1 /\ c.acted = <<>> /\ c.still = acted
    BY <1>1, <1>6, <1>9 DEF Battle, Fields
  <2>2. Typed(c)
    BY <1>1, <1>2, <1>5, <2>1 DEF Typed, SameBut
  <2>3. acted \o still = acted /\ <<>> \o acted = acted
    BY <1>2, <1>9, ConcatEmptySeq
  <2>4. Thinned(Order(c), Order(b), gone)
    BY <1>7, <2>1, <2>3 DEF Order
  <2>5. Listed(still) = {} /\ Acted(c) = {}
    BY <1>9, <2>1 DEF Listed, Acted
  <2>6. Leaves(b, c, gone)
    BY <1>4, <2>1, <2>5 DEF Leaves, Still
  <2>7. ASSUME ~(Listed(Order(b)) \subseteq gone) PROVE c.still # <<>>
    <3>1. Listed(acted) # {}
      BY <1>4, <2>5, <2>7, OrderListed
    <3> QED BY <2>1, <3>1 DEF Listed
  <2> QED BY <1>5, <2>2, <2>4, <2>6, <2>7 DEF Relisted, c
<1> QED BY <1>8, <1>9

LEMMA InsertionJoins ==
  ASSUME NEW b, Typed(b), NEW entry \in Entries,
         NEW index \in 0 .. Len(Order(b))
  PROVE  /\ Relisted(b, InsertAtOrderIndex(b, index, entry))
         /\ Inserted(Order(InsertAtOrderIndex(b, index, entry)), Order(b),
                     index, entry)
         /\ Joins(b, InsertAtOrderIndex(b, index, entry), entry.creature)
         /\ b.still # <<>> =>
              InsertAtOrderIndex(b, index, entry).still # <<>>
<1> DEFINE c == InsertAtOrderIndex(b, index, entry)
           n == Len(b.acted)
           acted == InsertAt(b.acted, index + 1, entry)
           still == InsertAt(b.still, (index - n) + 1, entry)
<1>1. /\ b.acted \in Seq(Entries) /\ b.still \in Seq(Entries)
      /\ Battle(b) /\ b.round \in Nat
  BY DEF Typed
<1>2. /\ n \in Nat /\ Len(b.still) \in Nat
      /\ index \in Nat /\ index <= n + Len(b.still)
  <2>1. n \in Nat /\ Len(b.still) \in Nat
    BY <1>1, LenProperties
  <2>2. Len(Order(b)) = n + Len(b.still)
    BY OrderListed
  <2>3. index \in 0 .. (n + Len(b.still))
    BY <2>2
  <2> HIDE DEF n
  <2> QED BY <2>1, <2>3
<1>3. SameBut(b, c) /\ c.effects = b.effects /\ c.round = b.round
  BY <1>1, InsertKeeps DEF InsertAtOrderIndex, Battle, Fields
<1>4. CASE index <= n
  <2>1. c = [b EXCEPT !.acted = acted]
    BY <1>4 DEF InsertAtOrderIndex
  <2> HIDE DEF c
  <2>2. index \in 0 .. n
    BY <1>2, <1>4
  <2>3. /\ acted \in Seq(Entries) /\ Inserted(acted, b.acted, index, entry)
    BY <1>1, <2>2, InsertAtInserts
  <2>4. Listed(acted) = Listed(b.acted) \cup {entry.creature}
    <3> HIDE DEF acted
    <3> QED BY <1>1, <2>2, <2>3, InsertedListed
  <2>5. Inserted(acted \o b.still, b.acted \o b.still, index, entry)
    <3> HIDE DEF acted
    <3> QED BY <1>1, <2>2, <2>3, InsertedLeft
  <2> HIDE DEF acted
  <2>6. c.acted = acted /\ c.still = b.still
    BY <1>1, <2>1 DEF Battle, Fields
  <2>7. Typed(c)
    BY <1>1, <1>3, <2>3, <2>6 DEF Typed, SameBut
  <2>8. Inserted(Order(c), Order(b), index, entry)
    BY <2>5, <2>6 DEF Order
  <2>9. Joins(b, c, entry.creature)
    BY <1>3, <2>4, <2>6 DEF Joins, Acted, Still
  <2> QED BY <1>3, <2>6, <2>7, <2>8, <2>9 DEF Relisted, c
<1>5. CASE ~(index <= n)
  <2>1. c = [b EXCEPT !.still = still]
    BY <1>5 DEF InsertAtOrderIndex
  <2> HIDE DEF c
  <2>2. index - n \in 0 .. Len(b.still)
    <3>1. ASSUME NEW i \in Nat, NEW k \in Nat, NEW l \in Nat,
                 i <= k + l, ~(i <= k)
          PROVE  i - k \in 0 .. l
      BY <3>1
    <3> HIDE DEF n
    <3> QED BY <1>2, <1>5, <3>1
  <2>3. /\ still \in Seq(Entries) /\ Len(still) = Len(b.still) + 1
        /\ Inserted(still, b.still, index - n, entry)
    BY <1>1, <2>2, InsertAtInserts
  <2>4. Listed(still) = Listed(b.still) \cup {entry.creature}
    <3> HIDE DEF still
    <3> QED BY <1>1, <2>2, <2>3, InsertedListed
  <2>5. Inserted(b.acted \o still, b.acted \o b.still, index, entry)
    <3>1. n <= index
      BY <1>2, <1>5
    <3> HIDE DEF still
    <3> QED BY <1>1, <1>2, <2>3, <3>1, InsertedRight
  <2>6. still # <<>>
    <3> HIDE DEF still
    <3>1. Len(still) # 0
      BY <1>2, <2>3
    <3> QED BY <3>1, EmptySeq
  <2> HIDE DEF still
  <2>7. c.acted = b.acted /\ c.still = still
    BY <1>1, <2>1 DEF Battle, Fields
  <2>8. Typed(c)
    BY <1>1, <1>3, <2>3, <2>7 DEF Typed, SameBut
  <2>9. Inserted(Order(c), Order(b), index, entry)
    BY <2>5, <2>7 DEF Order
  <2>10. Joins(b, c, entry.creature)
    BY <1>3, <2>4, <2>7 DEF Joins, Acted, Still
  <2> QED BY <1>3, <2>6, <2>7, <2>8, <2>9, <2>10 DEF Relisted, c
<1> QED BY <1>4, <1>5

-----------------------------------------------------------------------------
(* The battle as a whole: the lists hold everyone on the roster, in the    *)
(* order of their scores, and somebody is still to act.                    *)

Well(b) ==
  /\ Typed(b) /\ b.still # <<>>
  /\ Monotone(Order(b))
  /\ b.roster \subseteq Listed(Order(b))

(* The lists hold nobody else, and nobody twice.                           *)
Tidy(b) ==
  /\ Distinct(Order(b))
  /\ Listed(Order(b)) \subseteq b.roster
  /\ FamiliarPresent(b) => Familiar \in b.roster

Sound(b) ==
  /\ Well(b)
  /\ Familiar \in b.roster => Owner \in b.roster
  /\ TurnEndDamage \/ Tidy(b)

(* What a removal, an arrival and everything else do to a battle.          *)
Departs(b, c, gone) ==
  /\ Leaves(b, c, gone)
  /\ c.roster = b.roster \ gone
  /\ c.effects = {e \in b.effects : {e.on, e.by} \cap gone = {}}

Arrives(b, c, newcomer) ==
  /\ Joins(b, c, newcomer)
  /\ c.roster = b.roster \cup {newcomer} /\ c.effects = b.effects

Stands(b, c) ==
  /\ c.round = b.round /\ c.acted = b.acted /\ c.still = b.still
  /\ c.roster = b.roster /\ c.effects = b.effects

LEMMA StandsSound ==
  ASSUME NEW b, NEW c, Sound(b), Stands(b, c), Battle(c),
         FamiliarPresent(c) => FamiliarPresent(b)
  PROVE  Sound(c)
<1>1. Typed(c) /\ Order(c) = Order(b)
  BY DEF Sound, Well, Stands, Typed, Order
<1> QED BY <1>1 DEF Sound, Well, Stands, Tidy

LEMMA DepartsSound ==
  ASSUME NEW b, NEW c, NEW gone, Sound(b),
         Typed(c), Departs(b, c, gone), Thinned(Order(c), Order(b), gone),
         ~(Listed(Order(b)) \subseteq gone) => c.still # <<>>,
         ~(b.roster \subseteq gone),
         Familiar \in b.roster /\ Owner \in gone => Familiar \in gone,
         FamiliarPresent(c) => FamiliarPresent(b) /\ Familiar \notin gone
  PROVE  Sound(c)
<1>1. Typed(b) /\ Order(b) \in Seq(Entries) /\ Order(c) \in Seq(Entries)
  BY OrderListed DEF Sound, Well
<1>2. c.roster = b.roster \ gone /\ b.roster \subseteq Listed(Order(b))
      /\ Monotone(Order(b))
  BY DEF Sound, Well, Departs
<1>3. Listed(Order(c)) = Listed(Order(b)) \ gone
  BY ThinnedListed
<1>4. Well(c)
  <2>1. Monotone(Order(c))
    BY <1>1, <1>2, ThinnedMonotone
  <2>2. c.still # <<>>
    BY <1>2
  <2> QED BY <1>2, <1>3, <2>1, <2>2 DEF Well
<1>5. Familiar \in c.roster => Owner \in c.roster
  BY <1>2 DEF Sound
<1>6. ASSUME Tidy(b) PROVE Tidy(c)
  <2>1. Distinct(Order(b)) /\ Listed(Order(b)) \subseteq b.roster
        /\ (FamiliarPresent(b) => Familiar \in b.roster)
    BY <1>6 DEF Tidy
  <2>2. Distinct(Order(c))
    BY <1>1, <2>1, ThinnedDistinct
  <2> QED BY <1>2, <1>3, <2>1, <2>2 DEF Tidy
<1> QED BY <1>4, <1>5, <1>6 DEF Sound

LEMMA RemovedDeparts ==
  ASSUME NEW b, NEW ids, Typed(b)
  PROVE  /\ Typed(Removed(b, ids))
         /\ Departs(b, Removed(b, ids), WithDependents(b, ids))
         /\ Thinned(Order(Removed(b, ids)), Order(b), WithDependents(b, ids))
         /\ ~(Listed(Order(b)) \subseteq WithDependents(b, ids))
              => Removed(b, ids).still # <<>>
<1> DEFINE gone == WithDependents(b, ids)
           d == RemoveFromInitiative(b, gone)
           c == Removed(b, ids)
           companion == IF \/ Owner \in gone
                           \/ FamiliarPresent(b) /\ Familiar \in gone
                        THEN NoCompanion ELSE d.companion
           effects == {e \in d.effects : {e.on, e.by} \cap gone = {}}
<1>1. /\ Relisted(b, d) /\ Thinned(Order(d), Order(b), gone)
      /\ Leaves(b, d, gone)
      /\ ~(Listed(Order(b)) \subseteq gone) => d.still # <<>>
  BY RemovalLeaves
<1>2. c = [d EXCEPT !.roster = @ \ gone,
                    !.reaction = @ \/ Familiar \in gone,
                    !.effects = effects,
                    !.companion = companion]
  BY DEF Removed
<1> HIDE DEF d, c, gone, companion
<1>3. /\ Battle(d) /\ d.roster = b.roster /\ d.effects = b.effects
      /\ d.acted \in Seq(Entries) /\ d.still \in Seq(Entries)
      /\ d.round \in Nat /\ b.roster \subseteq Creatures
      /\ b.effects \subseteq Effects
  BY <1>1 DEF Relisted, SameBut, Typed
<1>4. /\ Battle(c) /\ c.round = d.round /\ c.acted = d.acted
      /\ c.still = d.still /\ c.roster = d.roster \ gone
      /\ c.effects = effects
  <2> HIDE DEF effects
  <2> QED BY <1>2, <1>3 DEF Battle, Fields
<1>5. Typed(c)
  BY <1>3, <1>4 DEF Typed
<1>6. Departs(b, c, gone)
  <2>1. Leaves(b, c, gone)
    BY <1>1, <1>4 DEF Leaves, Acted, Still
  <2> QED BY <1>3, <1>4, <2>1 DEF Departs
<1>7. Order(c) = Order(d)
  BY <1>4 DEF Order
<1> QED BY <1>1, <1>4, <1>5, <1>6, <1>7 DEF c, gone

LEMMA RemovedSound ==
  ASSUME NEW b, NEW ids, NEW used, Sound(b), Kept(b, used),
         ~(b.roster \subseteq WithDependents(b, ids))
  PROVE  /\ Sound(Removed(b, ids))
         /\ Departs(b, Removed(b, ids), WithDependents(b, ids))
<1> DEFINE gone == WithDependents(b, ids)
           c == Removed(b, ids)
<1>1. Typed(b) /\ Battle(b)
  BY DEF Sound, Well, Kept
<1>2. /\ Typed(c) /\ Departs(b, c, gone)
      /\ Thinned(Order(c), Order(b), gone)
      /\ ~(Listed(Order(b)) \subseteq gone) => c.still # <<>>
  BY <1>1, RemovedDeparts
<1>3. c.companion = IF \/ Owner \in gone
                       \/ FamiliarPresent(b) /\ Familiar \in gone
                    THEN NoCompanion ELSE b.companion
  BY <1>1, RemovedFields
<1>4. Familiar \in b.roster /\ Owner \in gone => Familiar \in gone
  BY TurnsAssumption DEF Kept, WithDependents
<1> HIDE DEF c
<1>5. FamiliarPresent(c) => FamiliarPresent(b) /\ Familiar \notin gone
  <2> HIDE DEF gone
  <2> QED BY <1>3 DEF FamiliarPresent, NoCompanion
<1>6. Sound(c)
  <2>1. ~(b.roster \subseteq gone)
    OBVIOUS
  <2> HIDE DEF gone
  <2> QED BY <1>2, <1>4, <1>5, <2>1, DepartsSound
<1> QED BY <1>2, <1>6 DEF c

LEMMA FamiliarAlone ==
  ASSUME NEW b
  PROVE  WithDependents(b, {Familiar}) = {Familiar}
BY TurnsAssumption DEF WithDependents

LEMMA DisappearedSound ==
  ASSUME NEW b, NEW used, Sound(b), Kept(b, used), Familiar \in b.roster
  PROVE  Sound(Disappeared(b)) /\ Departs(b, Disappeared(b), {Familiar})
<1> DEFINE d == Removed(b, {Familiar})
           c == Disappeared(b)
<1>1. ~(b.roster \subseteq {Familiar})
  BY TurnsAssumption DEF Sound
<1>2. Sound(d) /\ Departs(b, d, {Familiar})
  BY <1>1, FamiliarAlone, RemovedSound
<1>3. c = [d EXCEPT !.companion = [status |-> "disappearedAtZeroHitPoints",
                                   reaction |-> b.reaction]]
  BY DEF Disappeared
<1> HIDE DEF d, c
<1>4. Battle(d)
  BY <1>2 DEF Sound, Well, Typed
<1>5. /\ Battle(c) /\ Stands(d, c)
      /\ c.companion.status = "disappearedAtZeroHitPoints"
  BY <1>3, <1>4 DEF Battle, Fields, Stands
<1>6. Sound(c)
  BY <1>2, <1>5, StandsSound DEF FamiliarPresent
<1>7. Departs(b, c, {Familiar})
  BY <1>2, <1>5 DEF Departs, Leaves, Stands, Acted, Still
<1> QED BY <1>6, <1>7 DEF c

LEMMA DismissedSound ==
  ASSUME NEW b, NEW used, NEW status, Sound(b), Kept(b, used),
         status # "present"
  PROVE  /\ Sound(DismissedFor(b, status))
         /\ IF Familiar \in b.roster
            THEN Departs(b, DismissedFor(b, status), {Familiar})
            ELSE Stands(b, DismissedFor(b, status))
<1> DEFINE companion == [status |-> status,
                         reaction |-> status = "dismissedForever" \/ b.reaction]
           d == Removed(b, {Familiar})
           c == DismissedFor(b, status)
<1>1. companion.status = status
  OBVIOUS
<1>2. c = IF Familiar \in b.roster THEN [d EXCEPT !.companion = companion]
          ELSE [b EXCEPT !.companion = companion]
  BY DEF DismissedFor
<1> HIDE DEF companion, c
<1>3. CASE Familiar \in b.roster
  <2>1. ~(b.roster \subseteq {Familiar})
    BY <1>3, TurnsAssumption DEF Sound
  <2>2. Sound(d) /\ Departs(b, d, {Familiar})
    BY <2>1, FamiliarAlone, RemovedSound
  <2> HIDE DEF d
  <2>3. Battle(d)
    BY <2>2 DEF Sound, Well, Typed
  <2>4. Battle(c) /\ Stands(d, c) /\ c.companion = companion
    BY <1>2, <1>3, <2>3 DEF Battle, Fields, Stands
  <2>5. Sound(c)
    BY <1>1, <2>2, <2>4, StandsSound DEF FamiliarPresent
  <2>6. Departs(b, c, {Familiar})
    BY <2>2, <2>4 DEF Departs, Leaves, Stands, Acted, Still
  <2> QED BY <1>3, <2>5, <2>6 DEF c
<1>4. CASE Familiar \notin b.roster
  <2>1. Battle(b)
    BY DEF Sound, Well, Typed
  <2>2. Battle(c) /\ Stands(b, c) /\ c.companion = companion
    BY <1>2, <1>4, <2>1 DEF Battle, Fields, Stands
  <2>3. Sound(c)
    BY <1>1, <2>2, StandsSound DEF FamiliarPresent
  <2> QED BY <1>4, <2>2, <2>3 DEF c
<1> QED BY <1>3, <1>4

LEMMA ArrivesSound ==
  ASSUME NEW b, Sound(b), NEW c, NEW entry \in Entries,
         NEW index \in 0 .. Len(Order(b)),
         Typed(c), c.still # <<>>, Arrives(b, c, entry.creature),
         Inserted(Order(c), Order(b), index, entry),
         Fits(Order(b), index, entry.initiative),
         entry.creature \notin b.roster,
         entry.creature = Familiar => Owner \in b.roster,
         FamiliarPresent(c) =>
           entry.creature = Familiar \/ FamiliarPresent(b)
  PROVE  Sound(c)
<1>1. Typed(b) /\ Order(b) \in Seq(Entries) /\ Order(c) \in Seq(Entries)
  BY OrderListed DEF Sound, Well
<1>2. c.roster = b.roster \cup {entry.creature}
      /\ b.roster \subseteq Listed(Order(b)) /\ Monotone(Order(b))
  BY DEF Sound, Well, Arrives
<1>3. Listed(Order(c)) = Listed(Order(b)) \cup {entry.creature}
  BY <1>1, InsertedListed
<1>4. Well(c)
  <2>1. Monotone(Order(c))
    BY <1>1, <1>2, InsertedMonotone
  <2> QED BY <1>2, <1>3, <2>1 DEF Well
<1>5. Familiar \in c.roster => Owner \in c.roster
  BY <1>2 DEF Sound
<1>6. ASSUME Tidy(b) PROVE Tidy(c)
  <2>1. Distinct(Order(b)) /\ Listed(Order(b)) \subseteq b.roster
        /\ (FamiliarPresent(b) => Familiar \in b.roster)
    BY <1>6 DEF Tidy
  <2>2. Distinct(Order(c))
    BY <1>1, <2>1, InsertedDistinct
  <2> QED BY <1>2, <1>3, <2>1, <2>2 DEF Tidy
<1> QED BY <1>4, <1>5, <1>6 DEF Sound

LEMMA AdmittedSound ==
  ASSUME NEW b, Sound(b), NEW x \in Creatures, x \notin b.roster,
         x # Familiar, NEW score \in Scores,
         NEW index \in InsertionIndices(Order(b), score)
  PROVE  /\ Sound(Admitted(b, x, score, index))
         /\ Arrives(b, Admitted(b, x, score, index), x)
<1> DEFINE entry == [creature |-> x, initiative |-> score]
           d == InsertAtOrderIndex(b, index, entry)
           c == Admitted(b, x, score, index)
<1>1. Typed(b) /\ Order(b) \in Seq(Entries) /\ Monotone(Order(b))
      /\ b.still # <<>>
  BY OrderListed DEF Sound, Well
<1>2. entry \in Entries /\ entry.creature = x /\ entry.initiative = score
  BY DEF Entries
<1>3. c = [d EXCEPT !.roster = @ \cup {x}]
  BY DEF Admitted
<1> HIDE DEF entry, c
<1>4. index \in 0 .. Len(Order(b)) /\ Fits(Order(b), index, score)
  BY <1>1, IndicesFit
<1>5. /\ Relisted(b, d) /\ Inserted(Order(d), Order(b), index, entry)
      /\ Joins(b, d, x) /\ d.still # <<>>
  BY <1>1, <1>2, <1>4, InsertionJoins
<1> HIDE DEF d
<1>6. /\ Battle(d) /\ d.roster = b.roster /\ d.effects = b.effects
      /\ d.companion = b.companion /\ Typed(d)
  BY <1>5 DEF Relisted, SameBut
<1>7. /\ Battle(c) /\ c.round = d.round /\ c.acted = d.acted
      /\ c.still = d.still /\ c.roster = b.roster \cup {x}
      /\ c.effects = d.effects /\ c.companion = d.companion
  BY <1>3, <1>6 DEF Battle, Fields
<1>8. Typed(c) /\ Order(c) = Order(d)
  BY <1>6, <1>7 DEF Typed, Order
<1>9. Arrives(b, c, x)
  BY <1>5, <1>6, <1>7 DEF Arrives, Joins, Acted, Still
<1>10. FamiliarPresent(c) => FamiliarPresent(b)
  BY <1>6, <1>7 DEF FamiliarPresent
<1>11. Sound(c)
  <2>1. Inserted(Order(c), Order(b), index, entry) /\ c.still # <<>>
    BY <1>5, <1>7, <1>8
  <2> QED BY <1>2, <1>4, <1>8, <1>9, <1>10, <2>1, ArrivesSound
<1> QED BY <1>9, <1>11 DEF c

(* An earlier manifestation has made room.                                 *)
Prior(b) == IF Familiar \in b.roster THEN Removed(b, {Familiar}) ELSE b

LEMMA PriorSound ==
  ASSUME NEW b, NEW used, Sound(b), Kept(b, used), Owner \in b.roster
  PROVE  /\ Sound(Prior(b)) /\ Familiar \notin Prior(b).roster
         /\ Owner \in Prior(b).roster
         /\ IF Familiar \in b.roster THEN Departs(b, Prior(b), {Familiar})
            ELSE Prior(b) = b
<1>1. CASE Familiar \in b.roster
  <2>1. ~(b.roster \subseteq {Familiar})
    BY TurnsAssumption
  <2>2. /\ Sound(Removed(b, {Familiar}))
        /\ Departs(b, Removed(b, {Familiar}), {Familiar})
    BY <2>1, FamiliarAlone, RemovedSound
  <2> QED BY <1>1, <2>2, TurnsAssumption DEF Prior, Departs
<1>2. CASE Familiar \notin b.roster
  BY <1>2 DEF Prior
<1> QED BY <1>1, <1>2

LEMMA SummonedSound ==
  ASSUME NEW b, NEW used, Sound(b), Kept(b, used), Owner \in b.roster,
         NEW score \in Scores
  PROVE  /\ Sound(Summoned(b, score))
         /\ Arrives(Prior(b), Summoned(b, score), Familiar)
<1> DEFINE prior == Prior(b)
           index == Max(InsertionIndices(Order(prior), score))
           entry == [creature |-> Familiar, initiative |-> score]
           d == InsertAtOrderIndex(prior, index, entry)
           c == Summoned(b, score)
<1>1. Sound(prior) /\ Familiar \notin prior.roster /\ Owner \in prior.roster
  BY PriorSound
<1>2. c = [d EXCEPT !.roster = @ \cup {Familiar},
                    !.reaction = FamiliarReaction(b),
                    !.companion = [status |-> "present", reaction |-> TRUE]]
  BY DEF Summoned, Prior
<1>3. entry \in Entries /\ entry.creature = Familiar
      /\ entry.initiative = score
  BY DEF Entries, Creatures
<1> HIDE DEF prior, c, entry
<1>4. Typed(prior) /\ Order(prior) \in Seq(Entries)
      /\ Monotone(Order(prior)) /\ prior.still # <<>>
  BY <1>1, OrderListed DEF Sound, Well
<1>5. index \in InsertionIndices(Order(prior), score)
  BY <1>4, LastIndex
<1> HIDE DEF index
<1>6. index \in 0 .. Len(Order(prior)) /\ Fits(Order(prior), index, score)
  BY <1>4, <1>5, IndicesFit
<1>7. /\ Relisted(prior, d) /\ Inserted(Order(d), Order(prior), index, entry)
      /\ Joins(prior, d, Familiar) /\ d.still # <<>>
  BY <1>3, <1>4, <1>6, InsertionJoins
<1> HIDE DEF d
<1>8. /\ Battle(d) /\ d.roster = prior.roster
      /\ d.effects = prior.effects /\ Typed(d)
  BY <1>7 DEF Relisted, SameBut
<1>9. /\ Battle(c) /\ c.round = d.round /\ c.acted = d.acted
      /\ c.still = d.still /\ c.roster = prior.roster \cup {Familiar}
      /\ c.effects = d.effects
  BY <1>2, <1>8 DEF Battle, Fields
<1>10. Typed(c) /\ Order(c) = Order(d)
  BY <1>8, <1>9 DEF Typed, Order, Creatures
<1>11. Arrives(prior, c, Familiar)
  BY <1>7, <1>8, <1>9 DEF Arrives, Joins, Acted, Still
<1>12. Sound(c)
  <2>1. Inserted(Order(c), Order(prior), index, entry) /\ c.still # <<>>
    BY <1>7, <1>9, <1>10
  <2> QED BY <1>1, <1>3, <1>6, <1>10, <1>11, <2>1, ArrivesSound
<1> QED BY <1>11, <1>12 DEF c, prior

-----------------------------------------------------------------------------
(* The boundary between two turns, in parts: the lists turn and what ends  *)
(* with the turn ends; the next creature may fall; lasting effects tick.   *)

Cohort(b) ==
  IF NextInitiative(b).round > b.round
  THEN {e \in b.effects : e.kind \in Lasting} ELSE {}

Begun(b, fallsAtEnd) ==
  LET turned == NextInitiative(b)
      reset == [b EXCEPT !.reaction = @ \/ Current(turned) = Familiar]
      damaged == IF fallsAtEnd THEN EndTurnDamaged(reset) ELSE reset
      left == {e \in damaged.effects : ~ExpiresWith(e, Current(b), b.round)}
  IN  [turned EXCEPT !.roster = damaged.roster,
                     !.reaction = damaged.reaction,
                     !.effects = left]

Started(b, fallsAtEnd, fallsAtStart) ==
  IF fallsAtStart THEN Disappeared(Begun(b, fallsAtEnd))
  ELSE Begun(b, fallsAtEnd)

LEMMA BoundaryInParts ==
  ASSUME NEW b, NEW fallsAtEnd, NEW fallsAtStart, NEW count
  PROVE  AfterEndTurn(b, fallsAtEnd, fallsAtStart, count) =
           Ticked(Started(b, fallsAtEnd, fallsAtStart), Cohort(b), count)
BY DEF AfterEndTurn, Started, Begun, Cohort

LEMMA EffectsSound ==
  ASSUME NEW b, NEW c, Sound(b), Battle(c),
         c.round = b.round, c.acted = b.acted, c.still = b.still,
         c.roster = b.roster, c.companion = b.companion,
         c.effects \subseteq Effects
  PROVE  Sound(c)
<1>1. Typed(c) /\ Order(c) = Order(b)
  BY DEF Sound, Well, Typed, Order
<1> QED BY <1>1 DEF Sound, Well, Tidy, FamiliarPresent

LEMMA BegunSound ==
  ASSUME NEW b, NEW used, Sound(b), Kept(b, used),
         NEW fallsAtEnd \in BOOLEAN,
         fallsAtEnd => TurnEndDamage /\ Familiar \in b.roster
  PROVE  LET c == Begun(b, fallsAtEnd)
             fallen == IF fallsAtEnd THEN {Familiar} ELSE {}
         IN  /\ Sound(c) /\ Turns(b, c)
             /\ ~fallsAtEnd => Kept(c, FALSE)
             /\ c.roster = b.roster \ fallen
             /\ c.effects = {e \in b.effects :
                               /\ {e.on, e.by} \cap fallen = {}
                               /\ ~ExpiresWith(e, Current(b), b.round)}
<1> DEFINE turned == NextInitiative(b)
           reset == [b EXCEPT !.reaction = @ \/ Current(turned) = Familiar]
           damaged == IF fallsAtEnd THEN EndTurnDamaged(reset) ELSE reset
           left == {e \in damaged.effects :
                      ~ExpiresWith(e, Current(b), b.round)}
           fallen == IF fallsAtEnd THEN {Familiar} ELSE {}
           c == Begun(b, fallsAtEnd)
<1>1. /\ Typed(b) /\ b.still # <<>> /\ Battle(b)
      /\ b.roster \subseteq Listed(Order(b)) /\ Monotone(Order(b))
      /\ Familiar \in b.roster => Owner \in b.roster
      /\ TurnEndDamage \/ Tidy(b)
      /\ b.roster \subseteq Creatures /\ b.effects \subseteq Effects
  BY DEF Sound, Well, Typed
<1>2. /\ Relisted(b, turned) /\ turned.still # <<>>
      /\ Order(turned) = Order(b) /\ Turns(b, turned)
  BY <1>1, NextTurns
<1>3. c = [turned EXCEPT !.roster = damaged.roster,
                         !.reaction = damaged.reaction,
                         !.effects = left]
  BY DEF Begun
<1> HIDE DEF turned, c
<1>4. /\ Battle(reset) /\ Stands(b, reset)
      /\ reset.companion = b.companion
      /\ reset.reaction = (b.reaction \/ Current(turned) = Familiar)
  BY <1>1 DEF Battle, Fields, Stands
<1>5. Kept(reset, FALSE)
  BY <1>4 DEF Kept, Stands, FamiliarPresent
<1>6. Sound(reset)
  BY <1>4, StandsSound DEF FamiliarPresent
<1> HIDE DEF reset
<1>7. /\ damaged.roster = b.roster \ fallen
      /\ damaged.effects =
           {e \in b.effects : {e.on, e.by} \cap fallen = {}}
      /\ ~fallsAtEnd => damaged.reaction \in BOOLEAN
  <2>1. CASE fallsAtEnd
    <3>1. Departs(reset, Disappeared(reset), {Familiar})
      BY <1>1, <1>4, <1>5, <1>6, <2>1, DisappearedSound DEF Stands
    <3>2. /\ EndTurnDamaged(reset).roster = Disappeared(reset).roster
          /\ EndTurnDamaged(reset).effects = Disappeared(reset).effects
      BY <1>4 DEF EndTurnDamaged, Battle, Fields
    <3> QED BY <1>4, <2>1, <3>1, <3>2 DEF Departs, Stands
  <2>2. CASE ~fallsAtEnd
    BY <1>4, <1>5, <2>2 DEF Stands, Kept
  <2> QED BY <2>1, <2>2
<1>8. left = {e \in b.effects :
                /\ {e.on, e.by} \cap fallen = {}
                /\ ~ExpiresWith(e, Current(b), b.round)}
  <2> HIDE DEF damaged, fallen
  <2> QED BY <1>7
<1> HIDE DEF damaged, left
<1>9. /\ Typed(turned) /\ Battle(turned)
      /\ turned.companion = b.companion
  BY <1>2 DEF Relisted, SameBut, Typed
<1>10. /\ Battle(c) /\ c.round = turned.round /\ c.acted = turned.acted
       /\ c.still = turned.still /\ c.roster = damaged.roster
       /\ c.effects = left /\ c.companion = b.companion
       /\ c.reaction = damaged.reaction
  BY <1>3, <1>9 DEF Battle, Fields
<1>11. Typed(c) /\ Order(c) = Order(b)
  <2>1. c.roster \subseteq Creatures /\ c.effects \subseteq Effects
    BY <1>1, <1>7, <1>8, <1>10
  <2> QED BY <1>2, <1>9, <1>10, <2>1 DEF Typed, Order
<1>12. Turns(b, c)
  BY <1>2, <1>10 DEF Turns, Acted, Still
<1>13. Sound(c)
  <2>1. Well(c)
    BY <1>1, <1>2, <1>7, <1>10, <1>11 DEF Well
  <2>2. Familiar \in c.roster => Owner \in c.roster
    BY <1>1, <1>7, <1>10, TurnsAssumption
  <2>3. TurnEndDamage \/ Tidy(c)
    <3>1. CASE TurnEndDamage
      BY <3>1
    <3>2. CASE ~TurnEndDamage
      <4>1. c.roster = b.roster /\ Tidy(b)
        BY <1>1, <1>7, <1>10, <3>2
      <4> QED BY <1>10, <1>11, <4>1 DEF Tidy, FamiliarPresent
    <3> QED BY <3>1, <3>2
  <2> QED BY <2>1, <2>2, <2>3 DEF Sound
<1>14. ~fallsAtEnd => Kept(c, FALSE)
  <2>1. SUFFICES ASSUME ~fallsAtEnd PROVE Kept(c, FALSE)
    OBVIOUS
  <2>2. c.roster = b.roster
    BY <1>7, <1>10, <2>1
  <2> QED BY <1>7, <1>10, <2>1, <2>2 DEF Kept, FamiliarPresent
<1> QED BY <1>7, <1>8, <1>10, <1>12, <1>13, <1>14 DEF c

LEMMA StartedSound ==
  ASSUME NEW b, NEW used, Sound(b), Kept(b, used),
         NEW fallsAtEnd \in BOOLEAN, NEW fallsAtStart \in BOOLEAN,
         fallsAtEnd => TurnEndDamage /\ Familiar \in b.roster,
         fallsAtStart => ~fallsAtEnd /\ Familiar \in b.roster
  PROVE  LET begun == Begun(b, fallsAtEnd)
             c == Started(b, fallsAtEnd, fallsAtStart)
         IN  /\ Sound(c)
             /\ IF fallsAtStart THEN Departs(begun, c, {Familiar})
                ELSE c = begun
<1> DEFINE begun == Begun(b, fallsAtEnd)
           c == Started(b, fallsAtEnd, fallsAtStart)
<1>1. /\ Sound(begun) /\ (~fallsAtEnd => Kept(begun, FALSE))
      /\ ~fallsAtEnd => begun.roster = b.roster
  <2>1. /\ Sound(begun) /\ (~fallsAtEnd => Kept(begun, FALSE))
        /\ begun.roster = b.roster \ (IF fallsAtEnd THEN {Familiar} ELSE {})
    BY BegunSound
  <2> HIDE DEF begun
  <2> QED BY <2>1
<1>2. c = IF fallsAtStart THEN Disappeared(begun) ELSE begun
  BY DEF Started
<1> HIDE DEF begun, c
<1>3. CASE fallsAtStart
  <2>1. Kept(begun, FALSE) /\ Familiar \in begun.roster
    BY <1>1, <1>3
  <2>2. Sound(Disappeared(begun))
        /\ Departs(begun, Disappeared(begun), {Familiar})
    BY <1>1, <2>1, DisappearedSound
  <2> QED BY <1>2, <1>3, <2>2 DEF c, begun
<1>4. CASE ~fallsAtStart
  BY <1>1, <1>2, <1>4 DEF c, begun
<1> QED BY <1>3, <1>4

LEMMA PromotionIs ==
  ASSUME NEW b, Typed(b), NEW e \in Effects, NEW count \in [Creatures -> Nat],
         NEW justBegun \in BOOLEAN
  PROVE  LET p == Promotion(b, e, count, justBegun)
         IN  /\ p \in Effects /\ p.on = e.on /\ p.by = e.by
             /\ p.of = e.on /\ p.kind = "endOfTurn"
             /\ p.at = EndOfNextTurn(b, e.on, justBegun)
             /\ p.until = count[e.on]
                  + IF e.on = Current(b) /\ ~justBegun THEN 2 ELSE 1
<1>1. e.on \in Creatures /\ e.by \in Creatures /\ b.round \in Nat
  BY DEF Effects, Typed
<1>2. count[e.on] \in Nat
  BY <1>1
<1>3. EndOfNextTurn(b, e.on, justBegun) \in Nat
  BY <1>1 DEF EndOfNextTurn
<1> HIDE DEF EndOfNextTurn
<1> QED BY <1>1, <1>2, <1>3 DEF Promotion, Effects

(* The effects after a tick, by where they come from.                      *)
LEMMA TickedIs ==
  ASSUME NEW b, Typed(b), NEW cohort, NEW count \in [Creatures -> Nat]
  PROVE  LET c == Ticked(b, cohort, count)
         IN  /\ Battle(c) /\ c.round = b.round /\ c.acted = b.acted
             /\ c.still = b.still /\ c.roster = b.roster
             /\ c.companion = b.companion
             /\ c.effects \subseteq Effects
             /\ \A e \in c.effects :
                  \/ e \in b.effects /\ e \notin cohort
                  \/ \E d \in b.effects :
                       /\ d \in cohort /\ d.at > 1
                       /\ e = [d EXCEPT !.at = d.at - 1]
                  \/ \E d \in b.effects :
                       e = Promotion(b, d, count, TRUE)
             /\ \A e \in b.effects :
                  /\ e \notin cohort => e \in c.effects
                  /\ e \in cohort /\ e.at > 1 =>
                       [e EXCEPT !.at = e.at - 1] \in c.effects
<1> DEFINE c == Ticked(b, cohort, count)
           ticking == {e \in b.effects : e \in cohort}
           expiring == {e \in ticking : e.at - 1 <= 0}
           ticked == {[e EXCEPT !.at = @ - 1] : e \in ticking \ expiring}
           promoted == Promotions(b, expiring, count, TRUE)
           effects == ((b.effects \ ticking) \cup ticked) \cup promoted
<1>1. c = [b EXCEPT !.effects = effects]
  BY DEF Ticked
<1>2. Battle(b) /\ b.effects \subseteq Effects
  BY DEF Typed
<1>3. \A e \in Effects : e.at \in Nat
  BY DEF Effects
<1>4. \A e \in ticking : e \in expiring <=> ~(e.at > 1)
  <2>1. \A e \in ticking : e.at \in Nat
    BY <1>2, <1>3
  <2> QED BY <2>1
<1>5. \A e \in ticked : \E d \in b.effects :
        d \in cohort /\ d.at > 1 /\ e = [d EXCEPT !.at = d.at - 1]
  BY <1>4
<1>6. \A e \in promoted : \E d \in b.effects :
        e = Promotion(b, d, count, TRUE)
  BY DEF Promotions
<1>7. ASSUME NEW e \in b.effects, e \in cohort, e.at > 1
      PROVE  [e EXCEPT !.at = e.at - 1] \in ticked
  <2>1. e \in ticking \ expiring
    BY <1>4, <1>7
  <2> QED BY <2>1
<1>8. \A e \in b.effects : e \in ticking <=> e \in cohort
  OBVIOUS
<1>9. ticked \subseteq Effects
  <2>1. ASSUME NEW e \in Effects, e.at > 1
        PROVE  [e EXCEPT !.at = e.at - 1] \in Effects
    <3>1. e.at - 1 \in Nat
      BY <1>3, <2>1
    <3> QED BY <3>1 DEF Effects
  <2> HIDE DEF ticked
  <2> QED BY <1>2, <1>5, <2>1
<1>10. promoted \subseteq Effects
  <2> HIDE DEF promoted
  <2>1. \A d \in b.effects : Promotion(b, d, count, TRUE) \in Effects
    BY <1>2, PromotionIs
  <2> QED BY <1>6, <2>1
<1> HIDE DEF c, ticked, promoted, ticking
<1>11. /\ Battle(c) /\ c.round = b.round /\ c.acted = b.acted
       /\ c.still = b.still /\ c.roster = b.roster
       /\ c.companion = b.companion /\ c.effects = effects
  BY <1>1, <1>2 DEF Battle, Fields
<1>12. c.effects \subseteq Effects
  BY <1>2, <1>9, <1>10, <1>11
<1>13. ASSUME NEW e \in c.effects
       PROVE  \/ e \in b.effects /\ e \notin cohort
              \/ \E d \in b.effects :
                   /\ d \in cohort /\ d.at > 1
                   /\ e = [d EXCEPT !.at = d.at - 1]
              \/ \E d \in b.effects : e = Promotion(b, d, count, TRUE)
  BY <1>5, <1>6, <1>8, <1>11
<1>14. ASSUME NEW e \in b.effects
       PROVE  /\ e \notin cohort => e \in c.effects
              /\ e \in cohort /\ e.at > 1 =>
                   [e EXCEPT !.at = e.at - 1] \in c.effects
  BY <1>7, <1>8, <1>11
<1> QED BY <1>11, <1>12, <1>13, <1>14 DEF c

-----------------------------------------------------------------------------
(* When an effect is due: that of a turn's end, after as many turn ends of *)
(* its creature as were promised; one that lasts, within the rounds it was *)
(* made for and those that were lost when somebody left.                   *)

Borne(b, e) == {e.on, e.by} \subseteq b.roster /\ e.of \in {e.on, e.by}

OnTime(b, count, e) ==
  IF e.of \in Still(b)
  THEN e.at >= b.round /\ e.until - count[e.of] = e.at - b.round + 1
  ELSE e.at >= b.round + 1 /\ e.until - count[e.of] = e.at - b.round

InRounds(b, lost, e) ==
  e.at >= 1 /\ e.until <= b.round + e.at /\ b.round + e.at <= e.until + lost

Due(b, count, lost, e) ==
  /\ Borne(b, e)
  /\ e.kind = "endOfTurn" => TurnEndDamage \/ OnTime(b, count, e)
  /\ e.kind = "duration" => InRounds(b, lost, e)

(* Of the rounds lost when somebody left there is one more if one was lost *)
(* between b and c.                                                        *)
Later(b, c, lost, more) ==
  \/ c.round = b.round /\ more = lost
  \/ c.round = b.round + 1 /\ more = lost + 1

LEMMA EffectTypes ==
  ASSUME NEW e \in Effects
  PROVE  /\ e.at \in Nat /\ e.until \in Nat
         /\ e.on \in Creatures /\ e.by \in Creatures /\ e.of \in Creatures
BY DEF Effects

LEMMA DepartsDue ==
  ASSUME NEW b, NEW c, NEW gone, Sound(b), Departs(b, c, gone),
         NEW count \in [Creatures -> Nat], NEW lost \in Nat, NEW more,
         Later(b, c, lost, more),
         NEW e \in Effects, Due(b, count, lost, e),
         {e.on, e.by} \cap gone = {}
  PROVE  Due(c, count, more, e)
<1>1. /\ b.round \in Nat /\ c.roster = b.roster \ gone
      /\ b.roster \subseteq Acted(b) \cup Still(b)
      /\ \/ c.round = b.round /\ more = lost
         \/ c.round = b.round + 1 /\ more = lost + 1
  BY OrderListed DEF Sound, Well, Typed, Departs, Later
<1>2. e.at \in Nat /\ e.until \in Nat /\ count[e.of] \in Nat
  BY EffectTypes
<1>3. Borne(c, e) /\ e.of \in b.roster /\ e.of \notin gone
  BY <1>1 DEF Due, Borne
<1>4. ASSUME OnTime(b, count, e) PROVE OnTime(c, count, e)
  <2>1. CASE /\ c.round = b.round
             /\ Acted(c) = Acted(b) \ gone /\ Still(c) = Still(b) \ gone
    <3>1. e.of \in Still(c) <=> e.of \in Still(b)
      BY <1>3, <2>1
    <3> QED BY <1>4, <2>1, <3>1 DEF OnTime
  <2>2. CASE /\ c.round = b.round + 1
             /\ Acted(c) = {} /\ Still(c) = Acted(b) \ gone
             /\ Still(b) \subseteq gone
    <3>1. e.of \in Still(c) /\ e.of \notin Still(b)
      BY <1>1, <1>3, <2>2
    <3>2. /\ e.at >= b.round + 1
          /\ e.until - count[e.of] = e.at - b.round
      BY <1>4, <3>1 DEF OnTime
    <3>3. /\ e.at >= c.round
          /\ e.until - count[e.of] = e.at - c.round + 1
      BY <1>1, <1>2, <2>2, <3>2
    <3> QED BY <3>1, <3>3 DEF OnTime
  <2> QED BY <2>1, <2>2 DEF Departs, Leaves
<1>5. ASSUME InRounds(b, lost, e) PROVE InRounds(c, more, e)
  BY <1>1, <1>2, <1>5 DEF InRounds
<1> QED BY <1>3, <1>4, <1>5 DEF Due

LEMMA ArrivesDue ==
  ASSUME NEW b, NEW c, NEW newcomer, Arrives(b, c, newcomer),
         newcomer \notin b.roster,
         NEW count, NEW lost, NEW e, Due(b, count, lost, e)
  PROVE  Due(c, count, lost, e)
<1>1. c.round = b.round /\ c.roster = b.roster \cup {newcomer}
  BY DEF Arrives, Joins
<1>2. Borne(c, e) /\ e.of \in b.roster
  BY <1>1 DEF Due, Borne
<1>3. e.of \in Still(c) <=> e.of \in Still(b)
  BY <1>2 DEF Arrives, Joins
<1> QED BY <1>1, <1>2, <1>3 DEF Due, OnTime, InRounds

LEMMA StaysDue ==
  ASSUME NEW b, NEW c, c.round = b.round, c.still = b.still,
         c.roster = b.roster,
         NEW count, NEW lost, NEW e, Due(b, count, lost, e)
  PROVE  Due(c, count, lost, e)
BY DEF Due, Borne, OnTime, InRounds, Still

LEMMA CurrentActs ==
  ASSUME NEW b, Sound(b)
  PROVE  Current(b) \in Still(b) /\ Current(b) \in Creatures
<1>1. b.still \in Seq(Entries) /\ b.still # <<>>
  BY DEF Sound, Well, Typed
<1>2. 1 \in DOMAIN b.still /\ b.still[1] \in Entries
  <2>1. Len(b.still) \in Nat /\ DOMAIN b.still = 1 .. Len(b.still)
        /\ Len(b.still) # 0
    BY <1>1, LenProperties, EmptySeq
  <2> QED BY <1>1, <2>1, ElementOfSeq
<1> QED BY <1>2 DEF Current, Still, Listed, Entries

(* A turn has ended, and what ended with it is left aside.                 *)
LEMMA TurnsOnTime ==
  ASSUME NEW b, NEW c, Sound(b), Tidy(b), Turns(b, c),
         NEW count \in [Creatures -> Nat],
         NEW e \in Effects, Borne(b, e), OnTime(b, count, e),
         e.kind = "endOfTurn", ~ExpiresWith(e, Current(b), b.round)
  PROVE  OnTime(c, [count EXCEPT ![Current(b)] = @ + 1], e)
<1> DEFINE actor == Current(b)
           later == [count EXCEPT ![actor] = @ + 1]
<1>1. /\ b.round \in Nat /\ e.of \in b.roster
      /\ b.roster \subseteq Acted(b) \cup Still(b)
      /\ Distinct(Order(b))
  BY OrderListed DEF Sound, Well, Typed, Borne, Tidy
<1>2. e.at \in Nat /\ e.until \in Nat /\ count[e.of] \in Nat
      /\ e.of \in Creatures
  BY EffectTypes
<1>3. actor \in Still(b) /\ actor \in Creatures
  BY CurrentActs
<1>4. later[e.of] = IF e.of = actor THEN count[e.of] + 1 ELSE count[e.of]
  BY <1>2, <1>3
<1>5. e.of = actor => e.at # b.round
  BY DEF ExpiresWith
<1> HIDE DEF actor, later
<1>6. CASE /\ Len(b.still) # 1 /\ c.round = b.round
           /\ Acted(c) = Acted(b) \cup {actor}
           /\ Still(b) = Still(c) \cup {actor} /\ actor \notin Still(c)
  <2>1. CASE e.of = actor
    <3>1. e.of \in Still(b) /\ e.of \notin Still(c)
      BY <1>6, <2>1
    <3>2. e.at >= b.round /\ e.until - count[e.of] = e.at - b.round + 1
      BY <3>1 DEF OnTime
    <3>3. e.at >= c.round + 1 /\ e.until - later[e.of] = e.at - c.round
      BY <1>1, <1>2, <1>4, <1>5, <1>6, <2>1, <3>2
    <3> QED BY <3>1, <3>3 DEF OnTime, later, actor
  <2>2. CASE e.of # actor
    <3>1. e.of \in Still(b) <=> e.of \in Still(c)
      BY <1>6, <2>2
    <3>2. later[e.of] = count[e.of]
      BY <1>4, <2>2
    <3>3. OnTime(c, later, e)
      BY <1>6, <3>1, <3>2 DEF OnTime
    <3> QED BY <3>3 DEF later, actor
  <2> QED BY <2>1, <2>2
<1>7. CASE /\ Len(b.still) = 1 /\ c.round = b.round + 1
           /\ Acted(c) = {} /\ Still(c) = Acted(b) \cup {actor}
           /\ Still(b) = {actor}
  <2>1. e.of \in Still(c)
    BY <1>1, <1>7
  <2>2. e.at >= c.round /\ e.until - later[e.of] = e.at - c.round + 1
    <3>1. CASE e.of = actor
      <4>1. e.at >= b.round /\ e.until - count[e.of] = e.at - b.round + 1
        BY <1>3, <3>1 DEF OnTime
      <4> QED BY <1>1, <1>2, <1>4, <1>5, <1>7, <3>1, <4>1
    <3>2. CASE e.of # actor
      <4>1. /\ e.at >= b.round + 1
            /\ e.until - count[e.of] = e.at - b.round
        BY <1>7, <3>2 DEF OnTime
      <4> QED BY <1>1, <1>2, <1>4, <1>7, <3>2, <4>1
    <3> QED BY <3>1, <3>2
  <2>3. OnTime(c, later, e)
    BY <2>1, <2>2 DEF OnTime
  <2> QED BY <2>3 DEF later, actor
<1> QED BY <1>1, <1>6, <1>7 DEF Turns, actor

LEMMA CohortIs ==
  ASSUME NEW b, Sound(b)
  PROVE  Cohort(b) = IF Len(b.still) = 1
                     THEN {e \in b.effects : e.kind \in Lasting} ELSE {}
<1>1. b.round \in Nat /\ Turns(b, NextInitiative(b))
  BY NextTurns DEF Sound, Well, Typed
<1> QED BY <1>1 DEF Cohort, Turns

(* e is what an ended effect d leaves its bearer with.                     *)
Promoted(b, d, e, count) ==
  /\ e.on = d.on /\ e.by = d.by /\ e.of = d.on /\ e.kind = "endOfTurn"
  /\ e.at = IF d.on \in Still(b) THEN b.round ELSE b.round + 1
  /\ e.until = count[d.on] + 1

(* The end of a turn in b: begun is the battle when the next turn begins,  *)
(* early have fallen by then and late fall at its start, and c is what the *)
(* tick of the lasting effects makes of what they leave.                   *)
Crosses(b, begun, early, started, late, c, count) ==
  /\ Sound(begun) /\ Sound(started) /\ Sound(c) /\ Turns(b, begun)
  /\ begun.roster = b.roster \ early
  /\ begun.effects = {e \in b.effects :
                        /\ {e.on, e.by} \cap early = {}
                        /\ ~ExpiresWith(e, Current(b), b.round)}
  /\ \/ late = {} /\ started = begun
     \/ /\ late = {Familiar} /\ Familiar \in begun.roster
        /\ Departs(begun, started, late)
  /\ c.round = started.round /\ c.acted = started.acted
  /\ c.still = started.still /\ c.roster = started.roster
  /\ \A e \in c.effects :
       \/ e \in started.effects /\ e \notin Cohort(b)
       \/ \E d \in started.effects :
            d \in Cohort(b) /\ d.at > 1 /\ e = [d EXCEPT !.at = d.at - 1]
       \/ \E d \in started.effects : Promoted(started, d, e, count)
  /\ \A e \in started.effects :
       /\ e \notin Cohort(b) => e \in c.effects
       /\ e \in Cohort(b) /\ e.at > 1 =>
            [e EXCEPT !.at = e.at - 1] \in c.effects

LEMMA PromotionPromoted ==
  ASSUME NEW b, Typed(b), NEW d \in Effects, NEW count \in [Creatures -> Nat],
         NEW e, e = Promotion(b, d, count, TRUE)
  PROVE  Promoted(b, d, e, count)
<1> DEFINE p == Promotion(b, d, count, TRUE)
<1>1. /\ p.on = d.on /\ p.by = d.by /\ p.of = d.on /\ p.kind = "endOfTurn"
      /\ p.at = EndOfNextTurn(b, d.on, TRUE)
      /\ p.until = count[d.on]
           + IF d.on = Current(b) /\ ~TRUE THEN 2 ELSE 1
  BY PromotionIs, Zenon
<1>2. e = p
  OBVIOUS
<1>3. EndOfNextTurn(b, d.on, TRUE) =
        IF d.on \in Still(b) THEN b.round ELSE b.round + 1
  BY DEF EndOfNextTurn, Still
<1>4. (IF d.on = Current(b) /\ ~TRUE THEN 2 ELSE 1) = 1
  OBVIOUS
<1> HIDE DEF p
<1> QED BY <1>1, <1>2, <1>3, <1>4 DEF Promoted

LEMMA BoundaryCrosses ==
  ASSUME NEW b, NEW used, Sound(b), Kept(b, used),
         NEW fallsAtEnd \in BOOLEAN, NEW fallsAtStart \in BOOLEAN,
         fallsAtEnd => TurnEndDamage /\ Familiar \in b.roster,
         fallsAtStart => ~fallsAtEnd /\ Familiar \in b.roster,
         NEW count \in [Creatures -> Nat]
  PROVE  \E begun, early, started, late :
           Crosses(b, begun, early, started, late,
                   AfterEndTurn(b, fallsAtEnd, fallsAtStart, count), count)
<1> DEFINE begun == Begun(b, fallsAtEnd)
           early == IF fallsAtEnd THEN {Familiar} ELSE {}
           started == Started(b, fallsAtEnd, fallsAtStart)
           late == IF fallsAtStart THEN {Familiar} ELSE {}
           c == Ticked(started, Cohort(b), count)
<1>1. /\ Sound(begun) /\ Turns(b, begun)
      /\ begun.roster = b.roster \ early
      /\ begun.effects = {e \in b.effects :
                            /\ {e.on, e.by} \cap early = {}
                            /\ ~ExpiresWith(e, Current(b), b.round)}
  BY BegunSound
<1>2. /\ Sound(started)
      /\ IF fallsAtStart THEN Departs(begun, started, {Familiar})
         ELSE started = begun
  BY StartedSound
<1>3. AfterEndTurn(b, fallsAtEnd, fallsAtStart, count) = c
  BY BoundaryInParts
<1>4. fallsAtStart => early = {}
  OBVIOUS
<1>5. fallsAtStart => late = {Familiar}
  OBVIOUS
<1>6. ~fallsAtStart => late = {}
  OBVIOUS
<1> HIDE DEF begun, early, started, late
<1>7. \/ late = {} /\ started = begun
      \/ /\ late = {Familiar} /\ Familiar \in begun.roster
         /\ Departs(begun, started, late)
  BY <1>1, <1>2, <1>4, <1>5, <1>6
<1>8. Typed(started) /\ started.effects \subseteq Effects
  BY <1>2 DEF Sound, Well, Typed
<1>9. /\ Battle(c) /\ c.round = started.round /\ c.acted = started.acted
      /\ c.still = started.still /\ c.roster = started.roster
      /\ c.companion = started.companion /\ c.effects \subseteq Effects
  BY <1>8, TickedIs
<1>10. /\ \A e \in c.effects :
            \/ e \in started.effects /\ e \notin Cohort(b)
            \/ \E d \in started.effects :
                 /\ d \in Cohort(b) /\ d.at > 1
                 /\ e = [d EXCEPT !.at = d.at - 1]
            \/ \E d \in started.effects : e = Promotion(started, d, count, TRUE)
       /\ \A e \in started.effects :
            /\ e \notin Cohort(b) => e \in c.effects
            /\ e \in Cohort(b) /\ e.at > 1 =>
                 [e EXCEPT !.at = e.at - 1] \in c.effects
  BY <1>8, TickedIs, Zenon
<1> HIDE DEF c
<1>11. Sound(c)
  BY <1>2, <1>9, EffectsSound
<1>12. ASSUME NEW d \in started.effects, NEW e,
              e = Promotion(started, d, count, TRUE)
       PROVE  Promoted(started, d, e, count)
  BY <1>8, <1>12, PromotionPromoted
<1>13. \A e \in c.effects :
         \/ e \in started.effects /\ e \notin Cohort(b)
         \/ \E d \in started.effects :
              /\ d \in Cohort(b) /\ d.at > 1
              /\ e = [d EXCEPT !.at = d.at - 1]
         \/ \E d \in started.effects : Promoted(started, d, e, count)
  BY <1>10, <1>12, Zenon
<1>14. Crosses(b, begun, early, started, late, c, count)
  BY <1>1, <1>2, <1>7, <1>9, <1>10, <1>11, <1>13 DEF Crosses
<1> QED BY <1>3, <1>14
(* A round that begins at the end of a turn does not end with the fall of  *)
(* the next creature: the owner is still to act.                           *)
LEMMA CrossesRounds ==
  ASSUME NEW b, NEW begun, NEW early, NEW started, NEW late, NEW c, NEW count,
         Sound(b), Crosses(b, begun, early, started, late, c, count)
  PROVE  /\ b.round \in Nat
         /\ Len(b.still) = 1 =>
              c.round = begun.round /\ begun.round = b.round + 1
         /\ Len(b.still) # 1 =>
              begun.round = b.round /\ c.round \in {b.round, b.round + 1}
<1>1. /\ begun.round \in Nat /\ b.round \in Nat
      /\ begun.roster \subseteq Acted(begun) \cup Still(begun)
      /\ (Familiar \in begun.roster => Owner \in begun.roster)
  BY OrderListed DEF Sound, Well, Typed, Crosses
<1>2. c.round \in {begun.round, begun.round + 1}
  BY DEF Departs, Leaves, Crosses
<1>3. CASE Len(b.still) = 1
  <2>1. begun.round = b.round + 1 /\ Acted(begun) = {}
    BY <1>3 DEF Turns, Crosses
  <2>2. ASSUME Familiar \in begun.roster, Departs(begun, started, {Familiar})
        PROVE  started.round = begun.round
    <3>1. Owner \in Still(begun) /\ Owner \notin {Familiar}
      BY <1>1, <2>1, <2>2, TurnsAssumption
    <3> QED BY <2>2, <3>1 DEF Departs, Leaves
  <2>3. c.round = begun.round
    BY <2>2 DEF Crosses
  <2> QED BY <1>1, <1>3, <2>1, <2>3
<1>4. CASE Len(b.still) # 1
  BY <1>1, <1>2, <1>4 DEF Turns, Crosses
<1> QED BY <1>3, <1>4

LEMMA StartedCame ==
  ASSUME NEW b, NEW begun, NEW early, NEW started, NEW late, NEW c, NEW count,
         Crosses(b, begun, early, started, late, c, count),
         NEW d \in started.effects,
         Borne(b, d)
  PROVE  /\ d \in b.effects /\ ~ExpiresWith(d, Current(b), b.round)
         /\ {d.on, d.by} \cap (early \cup late) = {}
         /\ Borne(begun, d) /\ Borne(c, d)
<1>1. d \in begun.effects /\ {d.on, d.by} \cap late = {}
      /\ c.roster = begun.roster \ late
  BY DEF Crosses, Departs
<1>2. /\ d \in b.effects /\ {d.on, d.by} \cap early = {}
      /\ ~ExpiresWith(d, Current(b), b.round)
      /\ begun.roster = b.roster \ early
  BY <1>1 DEF Crosses
<1> QED BY <1>1, <1>2 DEF Borne

AllDue(b, count, lost) == \A e \in b.effects : Due(b, count, lost, e)

(* The counts after a turn's end: of turn ends, and of the rounds lost when *)
(* somebody left.                                                          *)
Counted(b, count, later) == later = [count EXCEPT ![Current(b)] = @ + 1]

Lost(b, c, lost, more) ==
  more = IF c.round > b.round /\ Len(b.still) # 1 THEN lost + 1 ELSE lost

(* Every effect is due in the battle after a turn's end.                   *)
LEMMA CrossesDue ==
  ASSUME NEW b, NEW begun, NEW early, NEW started, NEW late, NEW c,
         NEW count \in [Creatures -> Nat], NEW later,
         Counted(b, count, later),
         Sound(b), Crosses(b, begun, early, started, late, c, later),
         NEW lost \in Nat, NEW more, Lost(b, c, lost, more),
         AllDue(b, count, lost),
         NEW e \in c.effects
  PROVE  Due(c, later, more, e)
<1>1. later \in [Creatures -> Nat]
  <2>1. Current(b) \in Creatures
    BY CurrentActs
  <2> QED BY <2>1 DEF Counted
<1>2. /\ b.round \in Nat
      /\ Len(b.still) = 1 =>
           c.round = begun.round /\ begun.round = b.round + 1
      /\ Len(b.still) # 1 =>
           begun.round = b.round /\ c.round \in {b.round, b.round + 1}
  BY CrossesRounds
<1>3. Cohort(b) = IF Len(b.still) = 1
                  THEN {x \in b.effects : x.kind \in Lasting} ELSE {}
  BY CohortIs
<1>4. b.effects \subseteq Effects /\ c.round \in Nat /\ begun.round \in Nat
  BY DEF Crosses, Sound, Well, Typed
<1>5. /\ more \in Nat
      /\ \/ c.round = begun.round /\ more = lost
         \/ c.round = begun.round + 1 /\ more = lost + 1
  BY <1>2, <1>4 DEF Lost
<1>6. ASSUME NEW d \in started.effects
      PROVE  /\ d \in b.effects /\ Due(b, count, lost, d) /\ d \in Effects
             /\ ~ExpiresWith(d, Current(b), b.round)
             /\ {d.on, d.by} \cap late = {}
             /\ Borne(begun, d) /\ Borne(c, d)
  <2>1. d \in b.effects
    BY DEF Crosses, Departs
  <2>2. Due(b, count, lost, d)
    BY <2>1 DEF AllDue
  <2>3. Borne(b, d)
    BY <2>2 DEF Due
  <2> QED BY <1>4, <2>1, <2>2, <2>3, StartedCame
<1>7. ASSUME e \in started.effects, e \notin Cohort(b)
      PROVE  Due(c, later, more, e)
  <2>1. /\ e \in b.effects /\ Due(b, count, lost, e) /\ e \in Effects
        /\ ~ExpiresWith(e, Current(b), b.round)
        /\ {e.on, e.by} \cap late = {} /\ Borne(begun, e)
    BY <1>6, <1>7
  <2>2. ASSUME e.kind = "endOfTurn", ~TurnEndDamage
        PROVE  OnTime(begun, later, e)
    <3>1. Tidy(b) /\ Borne(b, e) /\ OnTime(b, count, e) /\ Turns(b, begun)
      BY <2>1, <2>2 DEF Sound, Due, Crosses
    <3> QED BY <2>1, <2>2, <3>1, TurnsOnTime DEF Counted
  <2>3. ASSUME e.kind = "duration" PROVE InRounds(begun, lost, e)
    <3>1. Len(b.still) # 1
      BY <1>3, <1>7, <2>1, <2>3 DEF Lasting
    <3>2. InRounds(b, lost, e)
      BY <2>1, <2>3 DEF Due
    <3> QED BY <1>2, <3>1, <3>2 DEF InRounds
  <2>4. Due(begun, later, lost, e)
    BY <2>1, <2>2, <2>3 DEF Due
  <2>5. Due(started, later, more, e)
    <3>1. CASE late = {} /\ started = begun
      <4>1. more = lost
        BY <1>4, <1>5, <3>1 DEF Crosses
      <4> QED BY <2>4, <3>1, <4>1
    <3>2. CASE Departs(begun, started, late)
      <4>1. Sound(begun) /\ Later(begun, started, lost, more)
        BY <1>5 DEF Crosses, Later
      <4> QED BY <1>1, <2>1, <2>4, <3>2, <4>1, DepartsDue
    <3> QED BY <3>1, <3>2 DEF Crosses
  <2> QED BY <2>5, StaysDue DEF Crosses
<1>8. ASSUME NEW d \in started.effects, d \in Cohort(b), d.at > 1,
             e = [d EXCEPT !.at = d.at - 1]
      PROVE  Due(c, later, more, e)
  <2>1. Len(b.still) = 1 /\ d.kind \in Lasting
    BY <1>3, <1>8
  <2>2. d \in Effects /\ Borne(c, d) /\ Due(b, count, lost, d)
    BY <1>6
  <2>3. /\ e.on = d.on /\ e.by = d.by /\ e.of = d.of /\ e.kind = d.kind
        /\ e.until = d.until /\ e.at = d.at - 1
        /\ d.at \in Nat /\ d.until \in Nat
    BY <1>8, <2>2 DEF Effects
  <2>4. Borne(c, e)
    BY <2>2, <2>3 DEF Borne
  <2>5. e.kind # "endOfTurn"
    BY <2>1, <2>3 DEF Lasting
  <2>6. ASSUME e.kind = "duration" PROVE InRounds(c, more, e)
    <3>1. InRounds(b, lost, d)
      BY <2>2, <2>3, <2>6 DEF Due
    <3>2. c.round = b.round + 1 /\ more = lost
      BY <1>2, <1>5, <2>1
    <3> QED BY <1>2, <1>8, <2>3, <3>1, <3>2 DEF InRounds
  <2> QED BY <2>4, <2>5, <2>6 DEF Due
<1>9. ASSUME NEW d \in started.effects, Promoted(started, d, e, later)
      PROVE  Due(c, later, more, e)
  <2>1. d \in Effects /\ Borne(c, d)
    BY <1>6
  <2>2. /\ e.on = d.on /\ e.by = d.by /\ e.of = d.on /\ e.kind = "endOfTurn"
        /\ e.until = later[d.on] + 1 /\ later[d.on] \in Nat
    BY <1>1, <1>9, <2>1, EffectTypes DEF Promoted
  <2>3. e.at = IF d.on \in Still(c) THEN c.round ELSE c.round + 1
    BY <1>9 DEF Promoted, Crosses, Still
  <2>4. e.until - later[e.of] = 1
    BY <2>2
  <2>5. CASE d.on \in Still(c)
    <3>1. e.at >= c.round /\ e.at - c.round + 1 = 1
      BY <1>4, <2>3, <2>5
    <3>2. OnTime(c, later, e)
      BY <2>2, <2>4, <2>5, <3>1 DEF OnTime
    <3> QED BY <2>1, <2>2, <3>2 DEF Due, Borne
  <2>6. CASE d.on \notin Still(c)
    <3>1. e.at >= c.round + 1 /\ e.at - c.round = 1
      BY <1>4, <2>3, <2>6
    <3>2. OnTime(c, later, e)
      BY <2>2, <2>4, <2>6, <3>1 DEF OnTime
    <3> QED BY <2>1, <2>2, <3>2 DEF Due, Borne
  <2> QED BY <2>5, <2>6
<1>10. \/ e \in started.effects /\ e \notin Cohort(b)
       \/ \E d \in started.effects :
            d \in Cohort(b) /\ d.at > 1 /\ e = [d EXCEPT !.at = d.at - 1]
       \/ \E d \in started.effects : Promoted(started, d, e, later)
  BY DEF Crosses
<1> QED BY <1>7, <1>8, <1>9, <1>10

-----------------------------------------------------------------------------
(* What is remembered of a round in b is forgotten in c if it has passed,  *)
(* and one more round is counted.                                          *)
Lapsed(b, c, done) == IF c.round > b.round THEN {} ELSE done

Waived(b, c, lost) == IF c.round > b.round THEN lost + 1 ELSE lost

(* Who has had a turn this round: those who have acted ended one or came   *)
(* in, and nobody who ended one is still to act without having come in.    *)
Once(b, done, came) ==
  Acted(b) \subseteq done \cup came /\ Still(b) \cap done \subseteq came

LEMMA DepartsOnce ==
  ASSUME NEW b, NEW c, NEW gone, b.round \in Nat, Departs(b, c, gone),
         NEW done, NEW came, Once(b, done, came)
  PROVE  Once(c, Lapsed(b, c, done), Lapsed(b, c, came))
<1>1. CASE /\ c.round = b.round
           /\ Acted(c) = Acted(b) \ gone /\ Still(c) = Still(b) \ gone
  <2>1. ~(c.round > b.round)
    BY <1>1
  <2>2. Once(c, done, came)
    BY <1>1 DEF Once
  <2> QED BY <2>1, <2>2 DEF Lapsed
<1>2. CASE c.round = b.round + 1 /\ Acted(c) = {}
  <2>1. c.round > b.round
    BY <1>2
  <2>2. Once(c, {}, {})
    BY <1>2 DEF Once
  <2> QED BY <2>1, <2>2 DEF Lapsed
<1> QED BY <1>1, <1>2 DEF Departs, Leaves

LEMMA ArrivesOnce ==
  ASSUME NEW b, NEW c, NEW newcomer, Arrives(b, c, newcomer),
         NEW done, NEW came, Once(b, done, came)
  PROVE  Once(c, done \ {newcomer}, came \cup {newcomer})
BY DEF Arrives, Joins, Once

LEMMA CrossesOnce ==
  ASSUME NEW b, NEW begun, NEW early, NEW started, NEW late, NEW c, NEW count,
         Sound(b), Tidy(b), Crosses(b, begun, early, started, late, c, count),
         NEW done, NEW came, Once(b, done, came)
  PROVE  Once(c, Lapsed(b, c, done \cup {Current(b)}), Lapsed(b, c, came))
<1>1. /\ b.round \in Nat
      /\ Len(b.still) = 1 =>
           c.round = begun.round /\ begun.round = b.round + 1
      /\ Len(b.still) # 1 =>
           begun.round = b.round /\ c.round \in {b.round, b.round + 1}
  BY CrossesRounds
<1>2. begun.round \in Nat /\ Turns(b, begun) /\ Distinct(Order(b))
  BY DEF Crosses, Sound, Well, Typed, Tidy
<1>3. /\ Acted(c) = Acted(started) /\ Still(c) = Still(started)
      /\ c.round = started.round
      /\ \/ started = begun
         \/ Departs(begun, started, late)
  BY DEF Crosses, Acted, Still
<1>4. CASE Len(b.still) = 1
  <2>1. c.round > b.round /\ Acted(begun) = {} /\ started.round = begun.round
    BY <1>1, <1>2, <1>3, <1>4 DEF Turns
  <2>2. Acted(c) = {}
    BY <1>2, <1>3, <2>1 DEF Departs, Leaves
  <2>3. Once(c, {}, {})
    BY <2>2 DEF Once
  <2> QED BY <2>1, <2>3 DEF Lapsed
<1>5. CASE Len(b.still) # 1 /\ c.round = b.round
  <2>1. /\ Acted(begun) = Acted(b) \cup {Current(b)}
        /\ Still(b) = Still(begun) \cup {Current(b)}
        /\ Current(b) \notin Still(begun) /\ started.round = begun.round
    BY <1>1, <1>2, <1>3, <1>5 DEF Turns
  <2>2. Acted(c) \subseteq Acted(begun) /\ Still(c) \subseteq Still(begun)
    BY <1>2, <1>3, <2>1 DEF Departs, Leaves
  <2>3. Once(c, done \cup {Current(b)}, came)
    BY <2>1, <2>2 DEF Once
  <2>4. ~(c.round > b.round)
    BY <1>1, <1>5
  <2> QED BY <2>3, <2>4 DEF Lapsed
<1>6. CASE Len(b.still) # 1 /\ c.round = b.round + 1
  <2>1. c.round > b.round /\ started.round = begun.round + 1
    BY <1>1, <1>3, <1>6
  <2>2. Acted(c) = {}
    BY <1>2, <1>3, <2>1 DEF Departs, Leaves
  <2>3. Once(c, {}, {})
    BY <2>2 DEF Once
  <2> QED BY <2>1, <2>3 DEF Lapsed
<1> QED BY <1>1, <1>4, <1>5, <1>6

-----------------------------------------------------------------------------
(* The invariant, and what a step keeps of the past.                       *)

TurnsInv ==
  /\ Sound(battle) /\ battle.round \in 1 .. MaxRounds
  /\ joins \in 0 .. MaxJoins /\ wraps \in Nat
  /\ ends \in [Creatures -> Nat]
  /\ ended \subseteq Creatures /\ joined \subseteq Creatures
  /\ AllDue(battle, ends, wraps)
  /\ TurnEndDamage \/ Once(battle, ended, joined)

TurnStep ==
  /\ \A c \in ended \ joined : ends'[c] = ends[c]
  /\ battle'.round # battle.round =>
       \A c \in (battle.roster \cap battle'.roster) \ joined :
         c \in ended \/ ends'[c] > ends[c]

TimeStep ==
  \A e \in battle.effects :
    e.kind = "endOfTurn" /\ {e.on, e.by} \subseteq battle'.roster
      /\ (Familiar \in {e.on, e.by} => joins' = joins)
    => (e \in battle'.effects <=> ends'[e.of] < e.until)

LivesIn(b, e) == \E d \in b.effects : [d EXCEPT !.at = e.at] = e

RoundStep ==
  \A e \in battle.effects :
    e.kind = "duration" /\ {e.on, e.by} \subseteq battle'.roster
      /\ (Familiar \in {e.on, e.by} => joins' = joins)
    => IF LivesIn(battle', e) THEN battle'.round < e.until + wraps'
       ELSE battle'.round >= e.until

Steps ==
  TurnsInv' /\ RoundStep /\ (~TurnEndDamage => TurnStep /\ TimeStep)

(* The invariant of the next state, by its parts.                          *)
LEMMA Primed ==
  ASSUME Sound(battle'), battle'.round \in 1 .. MaxRounds,
         joins' \in 0 .. MaxJoins, wraps' \in Nat,
         ends' \in [Creatures -> Nat],
         ended' \subseteq Creatures, joined' \subseteq Creatures,
         AllDue(battle', ends', wraps'),
         ~TurnEndDamage => Once(battle', ended', joined')
  PROVE  TurnsInv'
<1>1. TurnEndDamage \/ Once(battle', ended', joined')
  OBVIOUS
<1> QED BY <1>1 DEF TurnsInv

LEMMA DueEnds ==
  ASSUME NEW b, NEW count \in [Creatures -> Nat], NEW lost,
         Sound(b), NEW e \in Effects, Due(b, count, lost, e),
         e.kind = "endOfTurn", ~TurnEndDamage
  PROVE  count[e.of] < e.until
<1>1. b.round \in Nat /\ e.at \in Nat /\ e.until \in Nat
      /\ count[e.of] \in Nat
  BY EffectTypes DEF Sound, Well, Typed
<1>2. OnTime(b, count, e)
  BY DEF Due
<1>3. e.until - count[e.of] > 0
  BY <1>1, <1>2 DEF OnTime
<1> QED BY <1>1, <1>3

LEMMA LivesLasts ==
  ASSUME NEW b, NEW count, NEW lost \in Nat, Sound(b), AllDue(b, count, lost),
         NEW e \in Effects, e.kind = "duration", LivesIn(b, e)
  PROVE  b.round < e.until + lost
<1>1. PICK d \in b.effects : [d EXCEPT !.at = e.at] = e
  BY DEF LivesIn
<1>2. d \in Effects /\ b.round \in Nat
  BY DEF Sound, Well, Typed
<1>3. d.kind = e.kind /\ d.until = e.until /\ d.until \in Nat /\ d.at \in Nat
  BY <1>1, <1>2 DEF Effects
<1>4. InRounds(b, lost, d)
  BY <1>1, <1>3 DEF AllDue, Due
<1> QED BY <1>2, <1>3, <1>4 DEF InRounds

-----------------------------------------------------------------------------
(* A step that ends no turn: it keeps every effect but those that leave an  *)
(* effect behind and those of somebody who leaves.                         *)

Spares(b, c, away) ==
  \A e \in b.effects :
    e.kind # "endTargetState" /\ {e.on, e.by} \subseteq c.roster
      /\ {e.on, e.by} \cap away = {}
    => e \in c.effects

(* Nobody's turn ends, and newcomers come in.                              *)
Counts(next, newcomers) ==
  /\ battle' = next /\ next.round <= MaxRounds /\ ends' = ends
  /\ wraps' = Waived(battle, next, wraps) /\ wraps' \in Nat
  /\ ended' = Lapsed(battle, next, ended \ newcomers)
  /\ joined' = Lapsed(battle, next, joined) \cup newcomers
  /\ ended' \subseteq Creatures /\ joined' \subseteq Creatures

LEMMA QuietCounts ==
  ASSUME TurnsInv, NEW next, NEW newcomers \in SUBSET Creatures,
         NEW refreshed, Becomes(next, {}, newcomers, refreshed),
         next.round \in Nat
  PROVE  Counts(next, newcomers)
<1>1. /\ battle' = next /\ next.round <= MaxRounds
      /\ ends' = [c \in Creatures |-> ends[c] + IF c \in {} THEN 1 ELSE 0]
      /\ wraps' = wraps + IF next.round > battle.round /\ ~FALSE
                          THEN 1 ELSE 0
      /\ ended' = IF next.round > battle.round THEN {}
                  ELSE (ended \cup {}) \ newcomers
      /\ joined' = (IF next.round > battle.round THEN {} ELSE joined)
                     \cup newcomers
  BY DEF Becomes
<1>2. /\ wraps \in Nat /\ ends \in [Creatures -> Nat]
      /\ ended \subseteq Creatures /\ joined \subseteq Creatures
  BY DEF TurnsInv
<1>3. \A c \in Creatures :
        ends[c] \in Nat /\ ends[c] + (IF c \in {} THEN 1 ELSE 0) = ends[c]
  BY <1>2
<1>4. ends' = ends
  <2>1. ends' = [c \in Creatures |-> ends[c]]
    BY <1>1, <1>3
  <2> QED BY <1>2, <2>1
<1>5. wraps' = Waived(battle, next, wraps)
  BY <1>1, <1>2 DEF Waived
<1>6. wraps' \in Nat
  BY <1>2, <1>5 DEF Waived
<1>7. /\ ended' = Lapsed(battle, next, ended \ newcomers)
      /\ joined' = Lapsed(battle, next, joined) \cup newcomers
  BY <1>1 DEF Lapsed
<1>8. ended' \subseteq Creatures /\ joined' \subseteq Creatures
  BY <1>2, <1>7 DEF Lapsed
<1> QED BY <1>1, <1>4, <1>5, <1>6, <1>7, <1>8 DEF Counts

(* What is asked of such a step: next is the battle after it.              *)
Quiet(next, newcomers, away) ==
  /\ Sound(next) /\ joins' \in 0 .. MaxJoins
  /\ next.round \in {battle.round, battle.round + 1}
  /\ next.round # battle.round => Still(battle) \cap next.roster = {}
  /\ AllDue(next, ends, Waived(battle, next, wraps))
  /\ Spares(battle, next, away)
  /\ away # {} => away = {Familiar} /\ joins' # joins
  /\ ~TurnEndDamage => Once(next, Lapsed(battle, next, ended \ newcomers),
                             Lapsed(battle, next, joined) \cup newcomers)

LEMMA QuietStep ==
  ASSUME TurnsInv, NEW next, NEW newcomers, Counts(next, newcomers),
         NEW away, Quiet(next, newcomers, away)
  PROVE  Steps
<1>1. next.round \in Nat
  BY DEF Quiet, Sound, Well, Typed
<1>2. /\ battle' = next /\ next.round <= MaxRounds /\ ends' = ends
      /\ wraps' = Waived(battle, next, wraps)
      /\ wraps' \in Nat
      /\ ended' = Lapsed(battle, next, ended \ newcomers)
      /\ joined' = Lapsed(battle, next, joined) \cup newcomers
      /\ ended' \subseteq Creatures /\ joined' \subseteq Creatures
  BY DEF Counts
<1>3. battle.effects \subseteq Effects
  BY DEF TurnsInv, Sound, Well, Typed
<1>4. TurnsInv'
  <2>1. /\ Sound(battle') /\ AllDue(battle', ends, wraps')
        /\ ~TurnEndDamage => Once(battle', ended', joined')
    BY <1>2 DEF Quiet
  <2>2. AllDue(battle', ends', wraps')
    BY <1>2, <2>1
  <2>3. battle'.round \in 1 .. MaxRounds
    <3>1. battle.round \in Nat /\ 1 <= battle.round /\ MaxRounds \in Nat
      BY TurnsAssumption DEF TurnsInv
    <3>2. next.round \in {battle.round, battle.round + 1}
      BY DEF Quiet
    <3> QED BY <1>1, <1>2, <3>1, <3>2
  <2>4. ends' \in [Creatures -> Nat] /\ joins' \in 0 .. MaxJoins
    BY <1>2 DEF TurnsInv, Quiet
  <2> QED BY <1>2, <2>1, <2>2, <2>3, <2>4, Primed
<1>5. ASSUME NEW e \in battle.effects, {e.on, e.by} \subseteq next.roster,
             Familiar \in {e.on, e.by} => joins' = joins,
             e.kind # "endTargetState"
      PROVE  e \in next.effects
  <2>1. {e.on, e.by} \cap away = {}
    BY <1>5 DEF Quiet
  <2> QED BY <1>5, <2>1 DEF Spares, Quiet
<1>6. RoundStep
  <2>1. SUFFICES ASSUME NEW e \in battle.effects, e.kind = "duration",
                        {e.on, e.by} \subseteq battle'.roster,
                        Familiar \in {e.on, e.by} => joins' = joins
                 PROVE  LivesIn(battle', e)
                        /\ battle'.round < e.until + wraps'
    BY Zenon DEF RoundStep
  <2>2. e \in next.effects /\ e \in Effects
    BY <1>2, <1>3, <1>5, <2>1
  <2>3. [e EXCEPT !.at = e.at] = e
    BY <2>2 DEF Effects
  <2>4. LivesIn(next, e)
    BY <2>2, <2>3 DEF LivesIn
  <2>5. AllDue(next, ends, wraps') /\ Sound(next)
    BY <1>2 DEF Quiet
  <2>6. wraps' \in Nat
    BY <1>2
  <2>7. next.round < e.until + wraps'
    BY <2>1, <2>2, <2>4, <2>5, <2>6, LivesLasts
  <2> QED BY <1>2, <2>4, <2>7
<1>7. ASSUME ~TurnEndDamage PROVE TimeStep
  <2>1. SUFFICES ASSUME NEW e \in battle.effects, e.kind = "endOfTurn",
                        {e.on, e.by} \subseteq battle'.roster,
                        Familiar \in {e.on, e.by} => joins' = joins
                 PROVE  e \in battle'.effects /\ ends'[e.of] < e.until
    BY Zenon DEF TimeStep
  <2>2. e \in next.effects
    BY <1>2, <1>5, <2>1
  <2>3. ends \in [Creatures -> Nat] /\ Sound(battle)
        /\ Due(battle, ends, wraps, e) /\ e \in Effects
    BY <1>3 DEF TurnsInv, AllDue
  <2>4. ends[e.of] < e.until
    BY <1>7, <2>1, <2>3, DueEnds
  <2> QED BY <1>2, <2>2, <2>4
<1>8. ASSUME ~TurnEndDamage PROVE TurnStep
  <2>1. /\ Once(battle, ended, joined)
        /\ battle.roster \subseteq Acted(battle) \cup Still(battle)
    <3>1. Sound(battle)
      BY DEF TurnsInv
    <3> QED BY <1>8, <3>1, OrderListed DEF TurnsInv, Sound, Well
  <2>2. ASSUME next.round # battle.round,
               NEW c \in (battle.roster \cap next.roster) \ joined
        PROVE  c \in ended
    BY <2>1, <2>2 DEF Once, Quiet
  <2> QED BY <1>2, <2>2 DEF TurnStep
<1> QED BY <1>4, <1>6, <1>7, <1>8 DEF Steps

-----------------------------------------------------------------------------
(* The step that ends a turn.                                              *)

LEMMA BoundaryCounts ==
  ASSUME TurnsInv, NEW next, NEW refreshed,
         Becomes(next, {Current(battle)}, {}, refreshed), next.round \in Nat,
         NEW later, Counted(battle, ends, later)
  PROVE  /\ battle' = next /\ next.round <= MaxRounds /\ ends' = later
         /\ later \in [Creatures -> Nat]
         /\ Lost(battle, next, wraps, wraps') /\ wraps' \in Nat
         /\ ended' = Lapsed(battle, next, ended \cup {Current(battle)})
         /\ joined' = Lapsed(battle, next, joined)
         /\ ended' \subseteq Creatures /\ joined' \subseteq Creatures
<1> DEFINE actor == Current(battle)
<1>1. /\ battle' = next /\ next.round <= MaxRounds
      /\ ends' = [c \in Creatures |-> ends[c] + IF c \in {actor}
                                                THEN 1 ELSE 0]
      /\ wraps' = wraps + IF /\ next.round > battle.round
                             /\ ~(Len(battle.still) = 1)
                          THEN 1 ELSE 0
      /\ ended' = IF next.round > battle.round THEN {}
                  ELSE (ended \cup {actor}) \ {}
      /\ joined' = (IF next.round > battle.round THEN {} ELSE joined) \cup {}
  BY DEF Becomes
<1>2. /\ wraps \in Nat /\ ends \in [Creatures -> Nat] /\ Sound(battle)
      /\ ended \subseteq Creatures /\ joined \subseteq Creatures
  BY DEF TurnsInv
<1>3. actor \in Creatures
  BY <1>2, CurrentActs
<1>4. later = [ends EXCEPT ![actor] = @ + 1]
  BY DEF Counted
<1> HIDE DEF actor
<1>5. ends' = later
  <2>1. \A c \in Creatures :
          later[c] = ends[c] + IF c \in {actor} THEN 1 ELSE 0
    BY <1>2, <1>3, <1>4
  <2>2. DOMAIN later = Creatures /\ later \in [Creatures -> Nat]
    BY <1>2, <1>3, <1>4
  <2>3. later = [c \in Creatures |-> later[c]]
    BY <2>2
  <2> QED BY <1>1, <2>1, <2>3
<1>6. later \in [Creatures -> Nat]
  BY <1>2, <1>3, <1>4
<1>7. Lost(battle, next, wraps, wraps')
  BY <1>1, <1>2 DEF Lost
<1>8. wraps' \in Nat
  BY <1>1, <1>2
<1>9. /\ ended' = Lapsed(battle, next, ended \cup {actor})
      /\ joined' = Lapsed(battle, next, joined)
  BY <1>1 DEF Lapsed
<1>10. ended' \subseteq Creatures /\ joined' \subseteq Creatures
  BY <1>2, <1>3, <1>9 DEF Lapsed
<1> QED BY <1>1, <1>5, <1>6, <1>7, <1>8, <1>9, <1>10 DEF actor

(* Of the effects of those who stay, one of a turn's end goes only with    *)
(* that turn, and one that lasts only when its rounds are over.            *)
LEMMA CrossesSpares ==
  ASSUME NEW b, NEW begun, NEW early, NEW started, NEW late, NEW c, NEW count,
         Sound(b), Crosses(b, begun, early, started, late, c, count),
         NEW e \in b.effects, {e.on, e.by} \subseteq c.roster,
         ~ExpiresWith(e, Current(b), b.round)
  PROVE  /\ e.kind = "endOfTurn" => e \in c.effects
         /\ e.kind = "duration" /\ ~LivesIn(c, e) =>
              ~(e.at > 1) /\ c.round = b.round + 1
<1>1. e \in begun.effects
  <2>1. c.roster \subseteq begun.roster
    BY DEF Crosses, Departs
  <2>2. {e.on, e.by} \cap early = {}
    BY <2>1 DEF Crosses
  <2> QED BY <2>2 DEF Crosses
<1>2. e \in started.effects
  <2>1. CASE started = begun
    BY <1>1, <2>1
  <2>2. CASE Departs(begun, started, late)
    <3>1. started.roster = begun.roster \ late /\ c.roster = started.roster
      BY <2>2 DEF Crosses, Departs
    <3>2. {e.on, e.by} \cap late = {}
      BY <3>1
    <3> QED BY <1>1, <2>2, <3>2 DEF Departs
  <2> QED BY <2>1, <2>2 DEF Crosses
<1>3. /\ e \notin Cohort(b) => e \in c.effects
      /\ e \in Cohort(b) /\ e.at > 1 => [e EXCEPT !.at = e.at - 1] \in c.effects
  BY <1>2 DEF Crosses
<1>4. Cohort(b) = IF Len(b.still) = 1
                  THEN {x \in b.effects : x.kind \in Lasting} ELSE {}
  BY CohortIs
<1>5. e.kind = "endOfTurn" => e \in c.effects
  BY <1>3, <1>4 DEF Lasting
<1>6. e \in Effects
  BY DEF Sound, Well, Typed
<1>7. ASSUME ~LivesIn(c, e) PROVE ~(e.at > 1) /\ c.round = b.round + 1
  <2>1. [e EXCEPT !.at = e.at] = e
    BY <1>6 DEF Effects
  <2>2. e \notin c.effects
    BY <1>7, <2>1 DEF LivesIn
  <2>3. e \in Cohort(b)
    BY <1>3, <2>2
  <2>4. [[e EXCEPT !.at = e.at - 1] EXCEPT !.at = e.at] = e
    BY <1>6 DEF Effects
  <2>5. [e EXCEPT !.at = e.at - 1] \notin c.effects
    BY <1>7, <2>4 DEF LivesIn
  <2>6. Len(b.still) = 1
    BY <1>4, <2>3
  <2> QED BY <1>3, <2>3, <2>5, <2>6, CrossesRounds
<1> QED BY <1>5, <1>7

LEMMA CrossesStep ==
  ASSUME TurnsInv, NEW next, NEW refreshed,
         Becomes(next, {Current(battle)}, {}, refreshed), joins' = joins,
         NEW later, Counted(battle, ends, later),
         NEW begun, NEW early, NEW started, NEW late,
         Crosses(battle, begun, early, started, late, next, later)
  PROVE  Steps
<1> DEFINE actor == Current(battle)
<1>1. next.round \in Nat
  BY DEF Crosses, Sound, Well, Typed
<1>2. /\ battle' = next /\ next.round <= MaxRounds /\ ends' = later
      /\ later \in [Creatures -> Nat]
      /\ Lost(battle, next, wraps, wraps') /\ wraps' \in Nat
      /\ ended' = Lapsed(battle, next, ended \cup {actor})
      /\ joined' = Lapsed(battle, next, joined)
      /\ ended' \subseteq Creatures /\ joined' \subseteq Creatures
  BY <1>1, BoundaryCounts
<1>3. /\ Sound(battle) /\ Sound(next) /\ battle.effects \subseteq Effects
      /\ AllDue(battle, ends, wraps)
      /\ ends \in [Creatures -> Nat] /\ wraps \in Nat
  BY DEF TurnsInv, Crosses, Sound, Well, Typed
<1>4. /\ battle.round \in Nat
      /\ Len(battle.still) = 1 =>
           next.round = begun.round /\ begun.round = battle.round + 1
      /\ Len(battle.still) # 1 =>
           /\ begun.round = battle.round
           /\ next.round \in {battle.round, battle.round + 1}
  BY <1>3, CrossesRounds
<1>5. actor \in Creatures /\ actor \in Still(battle)
  BY <1>3, CurrentActs
<1>6. /\ later[actor] = ends[actor] + 1
      /\ \A c \in Creatures : c # actor => later[c] = ends[c]
  <2>1. later = [ends EXCEPT ![actor] = @ + 1]
    BY DEF Counted
  <2> QED BY <1>3, <1>5, <2>1
<1> HIDE DEF actor
<1>7. AllDue(next, later, wraps')
  <2>1. SUFFICES ASSUME NEW e \in next.effects
                 PROVE  Due(next, later, wraps', e)
    BY DEF AllDue
  <2>2. Lost(battle, next, wraps, wraps')
    BY <1>2
  <2> QED BY <1>3, <2>2, CrossesDue
<1>8. TurnsInv'
  <2>1. ~TurnEndDamage => Once(battle', ended', joined')
    <3>1. SUFFICES ASSUME ~TurnEndDamage
                   PROVE  Once(next, Lapsed(battle, next, ended \cup {actor}),
                               Lapsed(battle, next, joined))
      BY <1>2
    <3>2. Once(battle, ended, joined) /\ Tidy(battle)
      BY <3>1 DEF TurnsInv, Sound
    <3> QED BY <1>3, <3>2, CrossesOnce DEF actor
  <2>2. battle'.round \in 1 .. MaxRounds
    <3>1. 1 <= battle.round /\ MaxRounds \in Nat
      BY TurnsAssumption DEF TurnsInv
    <3> QED BY <1>1, <1>2, <1>4, <3>1
  <2>3. ends' \in [Creatures -> Nat] /\ joins' \in 0 .. MaxJoins
    BY <1>2 DEF TurnsInv
  <2>4. Sound(battle') /\ AllDue(battle', ends', wraps')
    BY <1>2, <1>3, <1>7
  <2> QED BY <1>2, <2>1, <2>2, <2>3, <2>4, Primed
<1>9. RoundStep
  <2>1. SUFFICES ASSUME NEW e \in battle.effects, e.kind = "duration",
                        {e.on, e.by} \subseteq battle'.roster
                 PROVE  IF LivesIn(battle', e)
                        THEN battle'.round < e.until + wraps'
                        ELSE battle'.round >= e.until
    BY Zenon DEF RoundStep
  <2>2. e \in Effects /\ e.at \in Nat /\ e.until \in Nat
    BY <1>3, EffectTypes
  <2>3. CASE LivesIn(next, e)
    <3>1. wraps' \in Nat
      BY <1>2
    <3>2. next.round < e.until + wraps'
      BY <1>3, <1>7, <2>1, <2>2, <2>3, <3>1, LivesLasts
    <3> QED BY <1>2, <2>3, <3>2
  <2>4. CASE ~LivesIn(next, e)
    <3>1. ~ExpiresWith(e, Current(battle), battle.round)
      BY <2>1 DEF ExpiresWith
    <3>2. {e.on, e.by} \subseteq next.roster
      BY <1>2, <2>1
    <3>3. ~(e.at > 1) /\ next.round = battle.round + 1
      BY <1>3, <2>1, <2>4, <3>1, <3>2, CrossesSpares
    <3>4. InRounds(battle, wraps, e)
      BY <1>3, <2>1 DEF AllDue, Due
    <3>5. next.round >= e.until
      BY <1>4, <2>2, <3>3, <3>4 DEF InRounds
    <3> QED BY <1>2, <2>4, <3>5
  <2> QED BY <2>3, <2>4
<1>10. ASSUME ~TurnEndDamage PROVE TimeStep
  <2>1. SUFFICES ASSUME NEW e \in battle.effects, e.kind = "endOfTurn",
                        {e.on, e.by} \subseteq battle'.roster
                 PROVE  e \in battle'.effects <=> ends'[e.of] < e.until
    BY Zenon DEF TimeStep
  <2>2. e \in Effects /\ e.at \in Nat /\ e.until \in Nat
    BY <1>3, EffectTypes
  <2>3. e \in next.effects => later[e.of] < e.until
    <3>1. SUFFICES ASSUME e \in next.effects PROVE later[e.of] < e.until
      OBVIOUS
    <3>2. Due(next, later, wraps', e)
      BY <1>7, <3>1 DEF AllDue
    <3>3. later \in [Creatures -> Nat]
      BY <1>2
    <3> QED BY <1>3, <1>10, <2>1, <2>2, <3>2, <3>3, DueEnds
  <2>4. ASSUME e \notin next.effects PROVE ~(later[e.of] < e.until)
    <3>1. {e.on, e.by} \subseteq next.roster
      BY <1>2, <2>1
    <3>2. ExpiresWith(e, actor, battle.round)
      BY <1>3, <2>1, <2>4, <3>1, CrossesSpares DEF actor
    <3>3. e.of = actor /\ e.at = battle.round
      BY <3>2 DEF ExpiresWith
    <3>4. OnTime(battle, ends, e)
      BY <1>3, <1>10, <2>1 DEF AllDue, Due
    <3>5. e.until - ends[actor] = battle.round - battle.round + 1
      BY <1>5, <3>3, <3>4 DEF OnTime
    <3>6. ends[actor] \in Nat
      BY <1>3, <1>5
    <3> QED BY <1>4, <1>6, <2>2, <3>3, <3>5, <3>6
  <2> QED BY <1>2, <2>3, <2>4
<1>11. ASSUME ~TurnEndDamage PROVE TurnStep
  <2>1. /\ Once(battle, ended, joined)
        /\ battle.roster \subseteq Acted(battle) \cup Still(battle)
    BY <1>3, <1>11, OrderListed DEF TurnsInv, Sound, Well
  <2>2. ASSUME NEW c \in ended \ joined PROVE later[c] = ends[c]
    <3>1. c # actor /\ c \in Creatures
      BY <1>5, <2>1 DEF Once, TurnsInv
    <3> QED BY <1>6, <3>1
  <2>3. ASSUME next.round # battle.round,
               NEW c \in (battle.roster \cap next.roster) \ joined
        PROVE  c \in ended \/ later[c] > ends[c]
    <3>1. CASE c = actor
      <4>1. ends[actor] \in Nat
        BY <1>3, <1>5
      <4> QED BY <1>6, <3>1, <4>1
    <3>2. CASE c \in Acted(battle)
      BY <2>1, <2>3, <3>2 DEF Once
    <3>3. CASE c \in Still(battle) /\ c # actor
      <4>1. Turns(battle, begun) /\ next.roster = started.roster
            /\ next.round = started.round
        BY DEF Crosses
      <4>2. Len(battle.still) # 1 /\ c \in Still(begun)
        BY <3>3, <4>1 DEF Turns, actor
      <4>3. started # begun /\ Departs(begun, started, late)
        BY <1>4, <2>3, <4>1, <4>2 DEF Crosses
      <4>4. started.round # begun.round
        BY <1>4, <2>3, <4>1, <4>2
      <4>5. c \in late
        BY <4>2, <4>3, <4>4 DEF Departs, Leaves
      <4> QED BY <2>3, <4>1, <4>3, <4>5 DEF Departs
    <3> QED BY <2>1, <2>3, <3>1, <3>2, <3>3
  <2> QED BY <1>2, <2>2, <2>3 DEF TurnStep
<1> QED BY <1>8, <1>9, <1>10, <1>11 DEF Steps
-----------------------------------------------------------------------------
(* The kinds of step that end no turn.                                     *)

LEMMA DepartsStep ==
  ASSUME TurnsInv, NEW next, NEW refreshed, Becomes(next, {}, {}, refreshed),
         joins' = joins, Sound(next), NEW gone, Departs(battle, next, gone)
  PROVE  Steps
<1>1. /\ next.round \in Nat /\ battle.round \in Nat /\ Sound(battle)
      /\ battle.effects \subseteq Effects /\ AllDue(battle, ends, wraps)
      /\ ends \in [Creatures -> Nat] /\ wraps \in Nat
  BY DEF TurnsInv, Sound, Well, Typed
<1>2. Counts(next, {})
  <2>1. {} \in SUBSET Creatures
    OBVIOUS
  <2> QED BY <1>1, <2>1, QuietCounts
<1>3. /\ next.round \in {battle.round, battle.round + 1}
      /\ next.roster = battle.roster \ gone
      /\ next.effects = {e \in battle.effects : {e.on, e.by} \cap gone = {}}
      /\ next.round # battle.round => Still(battle) \subseteq gone
  BY DEF Departs, Leaves
<1>4. next.round # battle.round => Still(battle) \cap next.roster = {}
  BY <1>3
<1>5. Later(battle, next, wraps, Waived(battle, next, wraps))
  BY <1>1, <1>3 DEF Later, Waived
<1>6. AllDue(next, ends, Waived(battle, next, wraps))
  <2>1. SUFFICES ASSUME NEW e \in next.effects
                 PROVE  Due(next, ends, Waived(battle, next, wraps), e)
    BY DEF AllDue
  <2>2. e \in Effects /\ Due(battle, ends, wraps, e)
        /\ {e.on, e.by} \cap gone = {}
    BY <1>1, <1>3 DEF AllDue
  <2> QED BY <1>1, <1>5, <2>2, DepartsDue
<1>7. Spares(battle, next, {})
  BY <1>3 DEF Spares
<1>8. ~TurnEndDamage => Once(next, Lapsed(battle, next, ended \ {}),
                             Lapsed(battle, next, joined) \cup {})
  <2>1. SUFFICES ASSUME ~TurnEndDamage
                 PROVE  Once(next, Lapsed(battle, next, ended),
                             Lapsed(battle, next, joined))
    OBVIOUS
  <2>2. Once(battle, ended, joined)
    BY <2>1 DEF TurnsInv
  <2> QED BY <1>1, <2>2, DepartsOnce
<1>9. joins' \in 0 .. MaxJoins
  BY DEF TurnsInv
<1>10. Quiet(next, {}, {})
  BY <1>3, <1>4, <1>6, <1>7, <1>8, <1>9 DEF Quiet
<1> QED BY <1>2, <1>10, QuietStep

(* The newcomer arrives in prior, the battle or what somebody who is away   *)
(* leaves of it in the same round.                                         *)
LEMMA ArrivesStep ==
  ASSUME TurnsInv, NEW next, NEW refreshed, NEW newcomer \in Creatures,
         Becomes(next, {}, {newcomer}, refreshed),
         joins' \in 0 .. MaxJoins, Sound(next),
         NEW prior, NEW away, prior.round = battle.round,
         prior = battle \/ Departs(battle, prior, away),
         away # {} => away = {Familiar} /\ joins' # joins,
         Arrives(prior, next, newcomer), newcomer \notin prior.roster,
         away \subseteq {newcomer}
  PROVE  Steps
<1>1. /\ next.round \in Nat /\ battle.round \in Nat /\ Sound(battle)
      /\ battle.effects \subseteq Effects /\ AllDue(battle, ends, wraps)
      /\ ends \in [Creatures -> Nat] /\ wraps \in Nat
  BY DEF TurnsInv, Sound, Well, Typed
<1>2. Counts(next, {newcomer})
  <2>1. {newcomer} \in SUBSET Creatures
    OBVIOUS
  <2> QED BY <1>1, <2>1, QuietCounts
<1>3. next.round = battle.round /\ next.effects = prior.effects
      /\ next.roster = prior.roster \cup {newcomer}
  BY DEF Arrives, Joins
<1>4. /\ Waived(battle, next, wraps) = wraps
      /\ \A done : Lapsed(battle, next, done) = done
  <2>1. ~(next.round > battle.round)
    BY <1>1, <1>3
  <2> QED BY <2>1 DEF Waived, Lapsed
<1>5. AllDue(next, ends, Waived(battle, next, wraps))
  <2>1. SUFFICES ASSUME NEW e \in next.effects PROVE Due(next, ends, wraps, e)
    BY <1>4 DEF AllDue
  <2>2. Due(prior, ends, wraps, e)
    <3>1. CASE prior = battle
      BY <1>1, <1>3, <3>1 DEF AllDue
    <3>2. CASE Departs(battle, prior, away)
      <4>1. /\ e \in Effects /\ Due(battle, ends, wraps, e)
            /\ {e.on, e.by} \cap away = {}
        BY <1>1, <1>3, <3>2 DEF AllDue, Departs
      <4>2. Later(battle, prior, wraps, wraps)
        BY DEF Later
      <4> QED BY <1>1, <3>2, <4>1, <4>2, DepartsDue
    <3> QED BY <3>1, <3>2
  <2> QED BY <2>2, ArrivesDue
<1>6. Spares(battle, next, away)
  BY <1>3 DEF Spares, Departs
<1>7. ~TurnEndDamage =>
        Once(next, Lapsed(battle, next, ended \ {newcomer}),
             Lapsed(battle, next, joined) \cup {newcomer})
  <2>1. SUFFICES ASSUME ~TurnEndDamage
                 PROVE  Once(next, ended \ {newcomer}, joined \cup {newcomer})
    BY <1>4
  <2>2. Once(battle, ended, joined)
    BY <2>1 DEF TurnsInv
  <2>3. Once(prior, ended, joined)
    <3>1. CASE Departs(battle, prior, away)
      <4>1. Acted(prior) \subseteq Acted(battle)
            /\ Still(prior) \subseteq Still(battle)
        BY <1>1, <3>1 DEF Departs, Leaves
      <4> QED BY <2>2, <4>1 DEF Once
    <3> QED BY <2>2, <3>1
  <2> QED BY <2>3, ArrivesOnce
<1>8. Quiet(next, {newcomer}, away)
  BY <1>3, <1>5, <1>6, <1>7 DEF Quiet
<1> QED BY <1>2, <1>8, QuietStep

(* The effects change, and their rest stays.                               *)
LEMMA StandsStep ==
  ASSUME TurnsInv, NEW next, Counts(next, {}), joins' = joins, Sound(next),
         next.round = battle.round, next.still = battle.still,
         next.acted = battle.acted, next.roster = battle.roster,
         \A e \in battle.effects :
           e \notin next.effects => e.kind = "endTargetState",
         \A e \in next.effects :
           e \notin battle.effects => Due(battle, ends, wraps, e)
  PROVE  Steps
<1>1. battle.round \in Nat /\ AllDue(battle, ends, wraps)
  BY DEF TurnsInv
<1>2. /\ Waived(battle, next, wraps) = wraps
      /\ \A done : Lapsed(battle, next, done) = done
  <2>1. ~(next.round > battle.round)
    BY <1>1
  <2> QED BY <2>1 DEF Waived, Lapsed
<1>3. AllDue(next, ends, Waived(battle, next, wraps))
  <2>1. SUFFICES ASSUME NEW e \in next.effects PROVE Due(next, ends, wraps, e)
    BY <1>2 DEF AllDue
  <2>2. Due(battle, ends, wraps, e)
    BY <1>1 DEF AllDue
  <2> QED BY <2>2, StaysDue
<1>4. Spares(battle, next, {})
  BY DEF Spares
<1>5. ~TurnEndDamage => Once(next, Lapsed(battle, next, ended \ {}),
                             Lapsed(battle, next, joined) \cup {})
  <2>1. SUFFICES ASSUME ~TurnEndDamage PROVE Once(next, ended, joined)
    BY <1>2
  <2> QED BY <2>1 DEF TurnsInv, Once, Acted, Still
<1>6. joins' \in 0 .. MaxJoins
  BY DEF TurnsInv
<1>7. Quiet(next, {}, {})
  BY <1>3, <1>4, <1>5, <1>6 DEF Quiet
<1> QED BY <1>7, QuietStep

-----------------------------------------------------------------------------
(* A new effect is due.                                                    *)

(* e ends with the next turn of its creature.                              *)
NextTurn(b, count, e) ==
  /\ e.kind = "endOfTurn" /\ e.of \in Creatures
  /\ e.at = EndOfNextTurn(b, e.of, FALSE)
  /\ e.until = count[e.of] + IF e.of = Current(b) THEN 2 ELSE 1

LEMMA NextTurnDue ==
  ASSUME NEW b, Sound(b), NEW count \in [Creatures -> Nat], NEW lost,
         NEW e, Borne(b, e), NextTurn(b, count, e)
  PROVE  Due(b, count, lost, e)
<1>1. b.round \in Nat /\ count[e.of] \in Nat
  BY DEF Sound, Well, Typed, NextTurn
<1>2. Current(b) \in Still(b)
  BY CurrentActs
<1>3. e.at = IF e.of \in Still(b) /\ e.of # Current(b)
             THEN b.round ELSE b.round + 1
  BY DEF EndOfNextTurn, Still, NextTurn
<1>4. CASE e.of = Current(b)
  <2>1. e.at = b.round + 1 /\ e.until = count[e.of] + 2
    BY <1>3, <1>4 DEF NextTurn
  <2>2. e.at >= b.round /\ e.until - count[e.of] = e.at - b.round + 1
    BY <1>1, <2>1
  <2> QED BY <1>2, <1>4, <2>2 DEF Due, OnTime, NextTurn
<1>5. CASE e.of # Current(b) /\ e.of \in Still(b)
  <2>1. e.at = b.round /\ e.until = count[e.of] + 1
    BY <1>3, <1>5 DEF NextTurn
  <2>2. e.at >= b.round /\ e.until - count[e.of] = e.at - b.round + 1
    BY <1>1, <2>1
  <2> QED BY <1>5, <2>2 DEF Due, OnTime, NextTurn
<1>6. CASE e.of # Current(b) /\ e.of \notin Still(b)
  <2>1. e.at = b.round + 1 /\ e.until = count[e.of] + 1
    BY <1>3, <1>6 DEF NextTurn
  <2>2. e.at >= b.round + 1 /\ e.until - count[e.of] = e.at - b.round
    BY <1>1, <2>1
  <2> QED BY <1>6, <2>2 DEF Due, OnTime, NextTurn
<1> QED BY <1>4, <1>5, <1>6

LEMMA FeatureDue ==
  ASSUME NEW b, Sound(b), NEW count \in [Creatures -> Nat], NEW lost,
         NEW rounds \in Nat,
         NEW e, Borne(b, e), e.of = Current(b), e.kind = "endOfTurn",
         e.at = b.round + rounds, e.until = count[Current(b)] + 1 + rounds
  PROVE  Due(b, count, lost, e)
<1>1. b.round \in Nat /\ e.of \in Still(b) /\ e.of \in Creatures
  BY CurrentActs DEF Sound, Well, Typed
<1>2. count[e.of] \in Nat
  BY <1>1
<1>3. e.at >= b.round /\ e.until - count[e.of] = e.at - b.round + 1
  BY <1>1, <1>2
<1> QED BY <1>1, <1>3 DEF Due, OnTime

LEMMA RoundsDue ==
  ASSUME NEW b, Sound(b), NEW count, NEW lost \in Nat,
         NEW rounds \in Nat \ {0},
         NEW e, Borne(b, e), e.kind \in Lasting,
         e.at = rounds, e.until = b.round + rounds
  PROVE  Due(b, count, lost, e)
<1>1. b.round \in Nat
  BY DEF Sound, Well, Typed
<1>2. e.kind # "endOfTurn"
  BY DEF Lasting
<1>3. InRounds(b, lost, e)
  BY <1>1 DEF InRounds
<1> QED BY <1>2, <1>3 DEF Due

-----------------------------------------------------------------------------
(* Steps that change the effects alone.                                    *)

LEMMA EffectsStep ==
  ASSUME TurnsInv, NEW effects, joins' = joins,
         Becomes([battle EXCEPT !.effects = effects], {}, {}, {}),
         effects \subseteq Effects,
         \A e \in battle.effects :
           e \notin effects => e.kind = "endTargetState",
         \A e \in effects :
           e \notin battle.effects => Due(battle, ends, wraps, e)
  PROVE  Steps
<1> DEFINE next == [battle EXCEPT !.effects = effects]
<1>1. Sound(battle) /\ Battle(battle) /\ battle.round \in Nat
  BY DEF TurnsInv, Sound, Well, Typed
<1>2. /\ Battle(next) /\ next.round = battle.round
      /\ next.acted = battle.acted /\ next.still = battle.still
      /\ next.roster = battle.roster /\ next.companion = battle.companion
      /\ next.effects = effects
  BY <1>1 DEF Battle, Fields
<1>3. Becomes(next, {}, {}, {})
  OBVIOUS
<1> HIDE DEF next
<1>4. Sound(next)
  BY <1>1, <1>2, EffectsSound
<1>5. Counts(next, {})
  <2>1. {} \in SUBSET Creatures /\ next.round \in Nat
    BY <1>1, <1>2
  <2> QED BY <1>3, <2>1, QuietCounts
<1>6. /\ \A e \in battle.effects :
           e \notin next.effects => e.kind = "endTargetState"
      /\ \A e \in next.effects :
           e \notin battle.effects => Due(battle, ends, wraps, e)
  BY <1>2
<1> QED BY <1>2, <1>4, <1>5, <1>6, StandsStep

LEMMA PutStep ==
  ASSUME TurnsInv, NEW e \in Effects, Due(battle, ends, wraps, e), PutEffect(e)
  PROVE  Steps
<1> DEFINE effects == battle.effects \cup {e}
<1>1. Becomes([battle EXCEPT !.effects = effects], {}, {}, {}) /\ joins' = joins
  BY DEF PutEffect
<1>2. /\ effects \subseteq Effects
      /\ \A d \in battle.effects :
           d \notin effects => d.kind = "endTargetState"
      /\ \A d \in effects :
           d \notin battle.effects => Due(battle, ends, wraps, d)
  BY DEF TurnsInv, Sound, Well, Typed
<1> HIDE DEF effects
<1> QED BY <1>1, <1>2, EffectsStep

LEMMA UntilStep == TurnsInv /\ UntilEndOfNextTurn => Steps
<1> SUFFICES ASSUME TurnsInv, UntilEndOfNextTurn PROVE Steps
  OBVIOUS
<1>1. PICK on, by \in battle.roster : \E of \in {on, by} :
        PutEffect([on |-> on, by |-> by, kind |-> "endOfTurn", of |-> of,
                   at |-> EndOfNextTurn(battle, of, FALSE),
                   until |-> ends[of] + IF of = Current(battle)
                                        THEN 2 ELSE 1])
  BY DEF UntilEndOfNextTurn
<1>2. PICK of \in {on, by} :
        PutEffect([on |-> on, by |-> by, kind |-> "endOfTurn", of |-> of,
                   at |-> EndOfNextTurn(battle, of, FALSE),
                   until |-> ends[of] + IF of = Current(battle)
                                        THEN 2 ELSE 1])
  BY <1>1
<1> DEFINE at == EndOfNextTurn(battle, of, FALSE)
           until == ends[of] + IF of = Current(battle) THEN 2 ELSE 1
           e == [on |-> on, by |-> by, kind |-> "endOfTurn", of |-> of,
                 at |-> at, until |-> until]
<1>3. /\ Sound(battle) /\ ends \in [Creatures -> Nat] /\ wraps \in Nat
      /\ battle.round \in Nat /\ {on, by, of} \subseteq Creatures
  BY DEF TurnsInv, Sound, Well, Typed
<1>4. at \in Nat /\ until \in Nat
  <2>1. at \in Nat
    BY <1>3 DEF EndOfNextTurn
  <2>2. ends[of] \in Nat
    BY <1>3
  <2> HIDE DEF at
  <2> QED BY <2>1, <2>2
<1>5. at = EndOfNextTurn(battle, of, FALSE)
      /\ until = ends[of] + IF of = Current(battle) THEN 2 ELSE 1
  OBVIOUS
<1>6. PutEffect(e)
  BY <1>2
<1> HIDE DEF at, until
<1>7. e \in Effects
  BY <1>3, <1>4 DEF Effects
<1>8. e.on = on /\ e.by = by /\ e.of = of /\ e.kind = "endOfTurn"
      /\ e.at = at /\ e.until = until
  OBVIOUS
<1> HIDE DEF e
<1>9. Borne(battle, e)
  BY <1>8 DEF Borne
<1>10. Due(battle, ends, wraps, e)
  <2>1. NextTurn(battle, ends, e)
    BY <1>3, <1>5, <1>8 DEF NextTurn
  <2> QED BY <1>3, <1>9, <2>1, NextTurnDue
<1> QED BY <1>6, <1>7, <1>10, PutStep

LEMMA FeatureStep == TurnsInv /\ UseFeature => Steps
<1> SUFFICES ASSUME TurnsInv, UseFeature PROVE Steps
  OBVIOUS
<1> DEFINE actor == Current(battle)
<1>1. PICK rounds \in 0 .. MaxLasting :
        PutEffect([on |-> actor, by |-> actor, kind |-> "endOfTurn",
                   of |-> actor, at |-> battle.round + rounds,
                   until |-> ends[actor] + 1 + rounds])
  BY DEF UseFeature
<1> DEFINE e == [on |-> actor, by |-> actor, kind |-> "endOfTurn",
                 of |-> actor, at |-> battle.round + rounds,
                 until |-> ends[actor] + 1 + rounds]
<1>2. /\ Sound(battle) /\ ends \in [Creatures -> Nat] /\ wraps \in Nat
      /\ battle.round \in Nat /\ rounds \in Nat
  BY DEF TurnsInv, Sound, Well, Typed
<1>3. actor \in Creatures
  BY <1>2, CurrentActs
<1>4. actor \in battle.roster
  BY <1>1 DEF PutEffect, Admits
<1>5. PutEffect(e)
  BY <1>1
<1>6. ends[actor] \in Nat
  BY <1>2, <1>3
<1>7. actor = Current(battle)
  OBVIOUS
<1> HIDE DEF actor
<1>8. e \in Effects
  BY <1>2, <1>3, <1>6 DEF Effects
<1>9. e.on = actor /\ e.by = actor /\ e.of = actor /\ e.kind = "endOfTurn"
      /\ e.at = battle.round + rounds /\ e.until = ends[actor] + 1 + rounds
  OBVIOUS
<1> HIDE DEF e
<1>10. Borne(battle, e)
  BY <1>4, <1>9 DEF Borne
<1>11. Due(battle, ends, wraps, e)
  BY <1>2, <1>7, <1>9, <1>10, FeatureDue
<1> QED BY <1>5, <1>8, <1>11, PutStep

LEMMA RoundsStep == TurnsInv /\ LastForRounds => Steps
<1> SUFFICES ASSUME TurnsInv, LastForRounds PROVE Steps
  OBVIOUS
<1>1. PICK on, by \in battle.roster, kind \in Lasting,
           rounds \in 1 .. MaxLasting :
        PutEffect([on |-> on, by |-> by, kind |-> kind, of |-> on,
                   at |-> rounds, until |-> battle.round + rounds])
  BY DEF LastForRounds
<1> DEFINE e == [on |-> on, by |-> by, kind |-> kind, of |-> on,
                 at |-> rounds, until |-> battle.round + rounds]
<1>2. /\ Sound(battle) /\ wraps \in Nat /\ battle.round \in Nat
      /\ rounds \in Nat \ {0} /\ {on, by} \subseteq Creatures
  BY DEF TurnsInv, Sound, Well, Typed
<1>3. PutEffect(e)
  BY <1>1
<1>4. e \in Effects
  BY <1>2 DEF Effects
<1>5. e.on = on /\ e.by = by /\ e.of = on /\ e.kind \in Lasting
      /\ e.at = rounds /\ e.until = battle.round + rounds
  OBVIOUS
<1> HIDE DEF e
<1>6. Borne(battle, e)
  BY <1>5 DEF Borne
<1>7. Due(battle, ends, wraps, e)
  BY <1>2, <1>5, <1>6, RoundsDue
<1> QED BY <1>3, <1>4, <1>7, PutStep

LEMMA BreakStep == TurnsInv /\ BreakConcentration => Steps
<1> SUFFICES ASSUME TurnsInv, BreakConcentration PROVE Steps
  OBVIOUS
<1>1. PICK e \in battle.effects :
        /\ e.kind = "endTargetState"
        /\ Becomes([battle EXCEPT !.effects =
                      (battle.effects \ {e})
                        \cup Promotions(battle, {e}, ends, FALSE)],
                   {}, {}, {})
  BY DEF BreakConcentration
<1> DEFINE p == Promotion(battle, e, ends, FALSE)
           effects == (battle.effects \ {e})
                        \cup Promotions(battle, {e}, ends, FALSE)
<1>2. /\ Sound(battle) /\ Typed(battle) /\ wraps \in Nat
      /\ battle.effects \subseteq Effects /\ ends \in [Creatures -> Nat]
      /\ Due(battle, ends, wraps, e) /\ e \in Effects
  BY DEF TurnsInv, Sound, Well, Typed, AllDue
<1>3. /\ p \in Effects /\ p.on = e.on /\ p.by = e.by
      /\ p.of = e.on /\ p.kind = "endOfTurn"
      /\ p.at = EndOfNextTurn(battle, e.on, FALSE)
      /\ p.until = ends[e.on]
           + IF e.on = Current(battle) /\ ~FALSE THEN 2 ELSE 1
  BY <1>2, PromotionIs, Zenon
<1>4. Promotions(battle, {e}, ends, FALSE) = {p}
  BY <1>1 DEF Promotions
<1>5. effects = (battle.effects \ {e}) \cup {p}
  BY <1>4
<1>6. Becomes([battle EXCEPT !.effects = effects], {}, {}, {})
      /\ joins' = joins
  BY <1>1 DEF BreakConcentration
<1> HIDE DEF p, effects
<1>7. p.until = ends[p.of] + IF p.of = Current(battle) THEN 2 ELSE 1
  BY <1>3
<1>8. p.at = EndOfNextTurn(battle, p.of, FALSE)
  BY <1>3
<1>9. Borne(battle, p) /\ p.of \in Creatures
  BY <1>2, <1>3, EffectTypes DEF Due, Borne
<1>10. Due(battle, ends, wraps, p)
  <2>1. NextTurn(battle, ends, p)
    BY <1>3, <1>7, <1>8, <1>9 DEF NextTurn
  <2> QED BY <1>2, <1>9, <2>1, NextTurnDue
<1>11. /\ effects \subseteq Effects
       /\ \A d \in battle.effects :
            d \notin effects => d.kind = "endTargetState"
       /\ \A d \in effects :
            d \notin battle.effects => Due(battle, ends, wraps, d)
  BY <1>1, <1>2, <1>3, <1>5, <1>10
<1> QED BY <1>6, <1>11, EffectsStep

-----------------------------------------------------------------------------
(* The other steps.                                                        *)

LEMMA EndTurnStep == TurnsInv /\ IInv /\ EndTurn => Steps
<1> SUFFICES ASSUME TurnsInv, IInv, EndTurn PROVE Steps
  OBVIOUS
<1> DEFINE actor == Current(battle)
           second == Current(NextInitiative(battle))
           Frail(c) == c = Familiar /\ c \in battle.roster
                         /\ FamiliarPresent(battle)
           later == [ends EXCEPT ![actor] = @ + 1]
<1>1. PICK fallsAtEnd \in {x \in BOOLEAN : x => TurnEndDamage /\ Frail(actor)},
           fallsAtStart \in {x \in BOOLEAN : x => Frail(second)} :
        /\ ~(fallsAtEnd /\ fallsAtStart)
        /\ Becomes(AfterEndTurn(battle, fallsAtEnd, fallsAtStart, later),
                   {actor}, {}, {second})
  BY DEF EndTurn
<1>2. /\ fallsAtEnd \in BOOLEAN /\ fallsAtStart \in BOOLEAN
      /\ fallsAtEnd => TurnEndDamage /\ Familiar \in battle.roster
      /\ fallsAtStart => ~fallsAtEnd /\ Familiar \in battle.roster
  BY <1>1
<1>3. /\ Sound(battle) /\ Kept(battle, reacted)
      /\ ends \in [Creatures -> Nat]
  BY DEF TurnsInv, IInv
<1>4. Counted(battle, ends, later)
  BY DEF Counted
<1>5. later \in [Creatures -> Nat]
  <2>1. actor \in Creatures
    BY <1>3, CurrentActs
  <2> QED BY <1>3, <2>1
<1>6. joins' = joins
  BY DEF EndTurn
<1>7. actor = Current(battle)
  OBVIOUS
<1> HIDE DEF actor, second, later
<1>8. PICK next : next = AfterEndTurn(battle, fallsAtEnd, fallsAtStart, later)
  OBVIOUS
<1>9. \E begun, early, started, late :
        Crosses(battle, begun, early, started, late, next, later)
  <2>1. \E begun, early, started, late :
          Crosses(battle, begun, early, started, late,
                  AfterEndTurn(battle, fallsAtEnd, fallsAtStart, later), later)
    BY <1>2, <1>3, <1>5, BoundaryCrosses, Zenon
  <2> QED BY <1>8, <2>1, Zenon
<1>10. Becomes(next, {Current(battle)}, {}, {second})
  BY <1>1, <1>7, <1>8, Zenon
<1> QED BY <1>4, <1>6, <1>9, <1>10, CrossesStep

LEMMA SummonStep == TurnsInv /\ IInv /\ Summon => Steps
<1> SUFFICES ASSUME TurnsInv, IInv, Summon PROVE Steps
  OBVIOUS
<1> DEFINE prior == Prior(battle)
<1>1. PICK score \in Scores :
        Becomes(Summoned(battle, score), {}, {Familiar},
                IF battle.companion.status \in {"none", "dismissedForever"}
                THEN {Familiar} ELSE {})
  BY DEF Summon
<1>2. PICK next : next = Summoned(battle, score)
  OBVIOUS
<1>3. PICK refreshed : Becomes(next, {}, {Familiar}, refreshed)
  BY <1>1, <1>2, Zenon
<1>4. /\ Sound(battle) /\ Kept(battle, reacted) /\ Owner \in battle.roster
      /\ Owner = Current(battle)
  BY DEF TurnsInv, IInv, Summon, Admits
<1>5. joins' \in 0 .. MaxJoins /\ joins' # joins
  BY TurnsAssumption DEF TurnsInv, Summon
<1>6. /\ Familiar \notin prior.roster
      /\ IF Familiar \in battle.roster THEN Departs(battle, prior, {Familiar})
         ELSE prior = battle
  BY <1>4, PriorSound
<1>7. Sound(next) /\ Arrives(prior, next, Familiar)
  BY <1>2, <1>4, SummonedSound
<1> HIDE DEF prior
<1>8. prior.round = battle.round
  <2>1. Owner \in Still(battle) /\ Owner \notin {Familiar}
    BY <1>4, CurrentActs, TurnsAssumption
  <2> QED BY <1>6, <2>1 DEF Departs, Leaves
<1>9. PICK away :
        away = IF Familiar \in battle.roster THEN {Familiar} ELSE {}
  OBVIOUS
<1>10. /\ away \subseteq {Familiar}
       /\ away # {} => away = {Familiar} /\ joins' # joins
       /\ prior = battle \/ Departs(battle, prior, away)
  BY <1>5, <1>6, <1>9
<1>11. Familiar \in Creatures
  BY DEF Creatures
<1> QED BY <1>3, <1>5, <1>6, <1>7, <1>8, <1>10, <1>11, ArrivesStep

LEMMA AddStep == TurnsInv /\ AddCombatant => Steps
<1> SUFFICES ASSUME TurnsInv, AddCombatant PROVE Steps
  OBVIOUS
<1>1. PICK c \in ({Owner} \cup Others) \ battle.roster, score \in Scores :
        \E index \in InsertionIndices(Order(battle), score) :
          Becomes(Admitted(battle, c, score, index), {}, {c}, {c})
  BY DEF AddCombatant
<1>2. PICK index \in InsertionIndices(Order(battle), score) :
        Becomes(Admitted(battle, c, score, index), {}, {c}, {c})
  BY <1>1
<1>3. c \in Creatures /\ c # Familiar /\ c \notin battle.roster
      /\ Sound(battle)
  BY TurnsAssumption DEF Creatures, TurnsInv
<1>4. PICK next : next = Admitted(battle, c, score, index)
  OBVIOUS
<1>5. Sound(next) /\ Arrives(battle, next, c)
  BY <1>3, <1>4, AdmittedSound
<1>6. Becomes(next, {}, {c}, {c})
  BY <1>2, <1>4
<1>7. joins' \in 0 .. MaxJoins
  BY TurnsAssumption DEF TurnsInv, AddCombatant
<1>8. /\ {} \subseteq {c}
      /\ {} # {} => {} = {Familiar} /\ joins' # joins
  OBVIOUS
<1> QED BY <1>3, <1>5, <1>6, <1>7, <1>8, ArrivesStep

LEMMA RemoveStep == TurnsInv /\ IInv /\ RemoveCombatant => Steps
<1> SUFFICES ASSUME TurnsInv, IInv, RemoveCombatant PROVE Steps
  OBVIOUS
<1>1. PICK c \in battle.roster :
        /\ Removable(battle, {c})
        /\ Becomes(Removed(battle, {c}), {}, {}, {})
  BY DEF RemoveCombatant
<1>2. Sound(battle) /\ Kept(battle, reacted) /\ joins' = joins
  BY DEF TurnsInv, IInv, RemoveCombatant
<1>3. ~(battle.roster \subseteq WithDependents(battle, {c}))
  BY <1>1 DEF Removable
<1>4. PICK next : next = Removed(battle, {c})
  OBVIOUS
<1>5. Sound(next) /\ Departs(battle, next, WithDependents(battle, {c}))
  BY <1>2, <1>3, <1>4, RemovedSound
<1>6. Becomes(next, {}, {}, {})
  BY <1>1, <1>4
<1> QED BY <1>2, <1>5, <1>6, DepartsStep

LEMMA FallsStep == TurnsInv /\ IInv /\ FamiliarFalls => Steps
<1> SUFFICES ASSUME TurnsInv, IInv, FamiliarFalls PROVE Steps
  OBVIOUS
<1>1. /\ Sound(battle) /\ Kept(battle, reacted) /\ joins' = joins
      /\ Familiar \in battle.roster
      /\ Becomes(Disappeared(battle), {}, {}, {})
  BY DEF TurnsInv, IInv, FamiliarFalls
<1>2. PICK next : next = Disappeared(battle)
  OBVIOUS
<1>3. Sound(next) /\ Departs(battle, next, {Familiar})
  BY <1>1, <1>2, DisappearedSound
<1>4. Becomes(next, {}, {}, {})
  BY <1>1, <1>2
<1> QED BY <1>1, <1>3, <1>4, DepartsStep

LEMMA DismissStep == TurnsInv /\ IInv /\ Dismiss => Steps
<1> SUFFICES ASSUME TurnsInv, IInv, Dismiss PROVE Steps
  OBVIOUS
<1>1. PICK status \in {"temporarilyDismissed", "dismissedForever"} :
        Becomes(DismissedFor(battle, status), {}, {}, {})
  BY DEF Dismiss
<1>2. Sound(battle) /\ Kept(battle, reacted) /\ joins' = joins
  BY DEF TurnsInv, IInv, Dismiss
<1>3. PICK next : next = DismissedFor(battle, status)
  OBVIOUS
<1>4. status # "present"
  OBVIOUS
<1>5. /\ Sound(next)
      /\ IF Familiar \in battle.roster THEN Departs(battle, next, {Familiar})
         ELSE Stands(battle, next)
  BY <1>2, <1>3, <1>4, DismissedSound
<1>6. Becomes(next, {}, {}, {})
  BY <1>1, <1>3
<1>7. CASE Departs(battle, next, {Familiar})
  BY <1>2, <1>5, <1>6, <1>7, DepartsStep
<1>8. CASE Stands(battle, next)
  <2>1. Counts(next, {})
    <3>1. {} \in SUBSET Creatures /\ next.round \in Nat
      BY <1>5 DEF Sound, Well, Typed
    <3> QED BY <1>6, <3>1, QuietCounts
  <2> QED BY <1>2, <1>5, <1>8, <2>1, StandsStep DEF Stands
<1> QED BY <1>5, <1>7, <1>8

(* A step that leaves the battle as it is but for Reactions.               *)
LEMMA SameStep ==
  ASSUME TurnsInv, NEW next, battle' = next, Battle(next),
         Stands(battle, next), next.companion = battle.companion,
         UNCHANGED <<joins, ends, ended, joined, wraps>>
  PROVE  Steps
<1>1. Sound(battle) /\ battle.round \in Nat /\ battle.round <= MaxRounds
  BY TurnsAssumption DEF TurnsInv
<1>2. Sound(next)
  BY <1>1, StandsSound DEF FamiliarPresent
<1>3. Counts(next, {})
  <2>1. ~(next.round > battle.round) /\ next.round <= MaxRounds
    BY <1>1 DEF Stands
  <2>2. /\ Waived(battle, next, wraps) = wraps
        /\ \A done : Lapsed(battle, next, done) = done
    BY <2>1 DEF Waived, Lapsed
  <2> QED BY <2>1, <2>2 DEF Counts, TurnsInv
<1> QED BY <1>2, <1>3, StandsStep DEF Stands

LEMMA ReactionStep == TurnsInv /\ UseReaction => Steps
<1> SUFFICES ASSUME TurnsInv, UseReaction PROVE Steps
  OBVIOUS
<1>1. Battle(battle)
  BY DEF TurnsInv, Sound, Well, Typed
<1>2. PICK next : next = [battle EXCEPT !.reaction = FALSE]
  OBVIOUS
<1>3. battle' = next /\ UNCHANGED <<joins, ends, ended, joined, wraps>>
  BY <1>2 DEF UseReaction
<1>4. Battle(next) /\ Stands(battle, next)
      /\ next.companion = battle.companion
  BY <1>1, <1>2 DEF Battle, Fields, Stands
<1> QED BY <1>3, <1>4, SameStep

LEMMA IdleStep == TurnsInv /\ UNCHANGED vars => Steps
<1> SUFFICES ASSUME TurnsInv, UNCHANGED vars PROVE Steps
  OBVIOUS
<1>1. Battle(battle) /\ Stands(battle, battle)
  BY DEF TurnsInv, Sound, Well, Typed, Stands
<1>2. battle' = battle /\ UNCHANGED <<joins, ends, ended, joined, wraps>>
  BY DEF vars
<1> QED BY <1>1, <1>2, SameStep

LEMMA StepTurns == TurnsInv /\ IInv /\ [Next]_vars => Steps
BY EndTurnStep, UntilStep, FeatureStep, RoundsStep, BreakStep, ReactionStep,
   FallsStep, DismissStep, SummonStep, AddStep, RemoveStep, IdleStep
   DEF Next

-----------------------------------------------------------------------------
(* The first battle.                                                       *)

(* Nobody stands twice in an order of as many entries as creatures.        *)
LEMMA ListedDistinct ==
  ASSUME NEW order \in Seq(Entries)
  PROVE  Distinct(order) <=> Cardinality(Listed(order)) = Len(order)
<1> DEFINE n == Len(order)
           S == Listed(order)
           f == [i \in 1 .. n |-> order[i].creature]
<1>1. n \in Nat /\ DOMAIN order = 1 .. n
  BY LenProperties
<1>2. S = {order[i].creature : i \in 1 .. n}
  BY <1>1 DEF Listed
<1> HIDE DEF n, S
<1>3. f \in Surjection(1 .. n, S)
  BY <1>2 DEF Surjection
<1>4. IsFiniteSet(1 .. n) /\ Cardinality(1 .. n) = n
  <2>1. /\ IsFiniteSet(1 .. n)
        /\ Cardinality(1 .. n) = IF 1 > n THEN 0 ELSE n - 1 + 1
    BY <1>1, FS_Interval
  <2>2. (IF 1 > n THEN 0 ELSE n - 1 + 1) = n
    BY <1>1
  <2> QED BY <2>1, <2>2
<1>5. Distinct(order) <=> f \in Injection(1 .. n, S)
  <2>1. f \in [1 .. n -> S]
    BY <1>2
  <2>2. Distinct(order) <=> \A i, j \in 1 .. n : f[i] = f[j] => i = j
    BY <1>1 DEF Distinct
  <2> HIDE DEF f
  <2> QED BY <2>1, <2>2 DEF Injection, IsInjective
<1> HIDE DEF f
<1>6. Cardinality(S) = Cardinality(1 .. n) <=> f \in Injection(1 .. n, S)
  BY <1>3, <1>4, FS_Surjection
<1> QED BY <1>4, <1>5, <1>6 DEF n, S

LEMMA StartingOrdersAre ==
  ASSUME NEW order \in StartingOrders
  PROVE  /\ order \in Seq(Entries) /\ order # <<>>
         /\ Monotone(order) /\ Distinct(order)
         /\ Owner \in Listed(order) /\ Listed(order) \subseteq Creatures
<1>1. PICK R \in {{Owner} \cup Others, Creatures} :
        /\ order \in [1 .. Cardinality(R) -> Entries]
        /\ Listed(order) = R /\ Monotone(order)
  BY DEF StartingOrders
<1>2. IsFiniteSet(R) /\ Owner \in R /\ R \subseteq Creatures
  <2>1. IsFiniteSet(Others \cup {Owner})
    BY TurnsAssumption, FS_AddElement
  <2>2. IsFiniteSet((Others \cup {Owner}) \cup {Familiar})
    BY <2>1, FS_AddElement
  <2>3. Creatures = (Others \cup {Owner}) \cup {Familiar}
        /\ {Owner} \cup Others = Others \cup {Owner}
    BY DEF Creatures
  <2>4. IsFiniteSet(R)
    BY <1>1, <2>1, <2>2, <2>3
  <2> QED BY <1>1, <2>3, <2>4
<1>3. Cardinality(R) \in Nat
  BY <1>2, FS_CardinalityType
<1>4. order \in Seq(Entries) /\ Len(order) = Cardinality(R)
  <2>1. order \in Seq(Entries)
    BY <1>1, <1>3, SeqDef
  <2>2. DOMAIN order = 1 .. Cardinality(R) /\ DOMAIN order = 1 .. Len(order)
        /\ Len(order) \in Nat
    BY <1>1, <2>1, LenProperties
  <2> QED BY <1>3, <2>1, <2>2
<1>5. Distinct(order)
  BY <1>1, <1>4, ListedDistinct
<1>6. order # <<>>
  <2>1. SUFFICES ASSUME order = <<>> PROVE FALSE
    OBVIOUS
  <2>2. Listed(order) = {}
    BY <2>1 DEF Listed
  <2> QED BY <1>1, <1>2, <2>2
<1> QED BY <1>1, <1>2, <1>4, <1>5, <1>6

LEMMA InitTurns == Init => TurnsInv
<1> SUFFICES ASSUME Init PROVE TurnsInv
  OBVIOUS
<1>1. PICK order \in StartingOrders :
        battle = [round |-> 1, acted |-> <<>>, still |-> order,
                  roster |-> Listed(order), reaction |-> TRUE,
                  companion |-> IF Familiar \in Listed(order)
                                THEN [NoCompanion EXCEPT !.status = "present"]
                                ELSE NoCompanion,
                  effects |-> {}]
  BY DEF Init
<1>2. /\ order \in Seq(Entries) /\ order # <<>>
      /\ Monotone(order) /\ Distinct(order)
      /\ Owner \in Listed(order) /\ Listed(order) \subseteq Creatures
  BY StartingOrdersAre
<1>3. /\ battle.round = 1 /\ battle.acted = <<>> /\ battle.still = order
      /\ battle.roster = Listed(order) /\ battle.effects = {}
      /\ battle.companion.status =
           IF Familiar \in Listed(order) THEN "present" ELSE "none"
  BY <1>1 DEF NoCompanion
<1>4. Battle(battle)
  BY <1>1 DEF Battle, Fields
<1>5. Typed(battle)
  BY <1>2, <1>3, <1>4, EmptySeq DEF Typed
<1>6. Order(battle) = order
  BY <1>2, <1>3, ConcatEmptySeq DEF Order
<1>7. Sound(battle)
  <2>1. Well(battle)
    BY <1>2, <1>3, <1>5, <1>6 DEF Well
  <2>2. Tidy(battle)
    BY <1>2, <1>3, <1>6 DEF Tidy, FamiliarPresent
  <2> QED BY <1>2, <1>3, <2>1, <2>2 DEF Sound
<1>8. /\ joins = 0 /\ wraps = 0 /\ ended = {} /\ joined = {}
      /\ ends \in [Creatures -> Nat]
  BY DEF Init
<1>9. AllDue(battle, ends, wraps)
  BY <1>3 DEF AllDue
<1>10. Once(battle, ended, joined)
  <2>1. Acted(battle) = {}
    BY <1>3 DEF Acted, Listed
  <2> QED BY <1>8, <2>1 DEF Once
<1>11. battle.round \in 1 .. MaxRounds /\ joins \in 0 .. MaxJoins
  BY <1>3, <1>8, TurnsAssumption
<1> QED BY <1>7, <1>8, <1>9, <1>10, <1>11 DEF TurnsInv

-----------------------------------------------------------------------------
(* What the invariant says of a state.                                     *)

LEMMA TurnsTyped == TurnsInv /\ IInv => TypeOK
<1> SUFFICES ASSUME TurnsInv, IInv PROVE TypeOK
  OBVIOUS
<1>1. /\ Battle(battle) /\ battle.still # <<>>
      /\ battle.round \in 1 .. MaxRounds
      /\ battle.acted \in Seq(Entries) /\ battle.still \in Seq(Entries)
      /\ battle.roster \subseteq Creatures /\ battle.effects \subseteq Effects
      /\ battle.reaction \in BOOLEAN
      /\ battle.companion \in [status : Statuses, reaction : BOOLEAN]
  BY DEF TurnsInv, IInv, Kept, Sound, Well, Typed
<1>2. battle \in
        [round : 1 .. MaxRounds, acted : Seq(Entries), still : Seq(Entries),
         roster : SUBSET Creatures, reaction : BOOLEAN,
         companion : [status : Statuses, reaction : BOOLEAN],
         effects : SUBSET Effects]
  BY <1>1 DEF Battle, Fields
<1>3. /\ joins \in 0 .. MaxJoins /\ wraps \in Nat /\ reacted \in BOOLEAN
      /\ ends \in [Creatures -> Nat]
      /\ {ended, joined} \subseteq SUBSET Creatures
  BY DEF TurnsInv, IInv
<1> QED BY <1>1, <1>2, <1>3 DEF TypeOK

LEMMA TurnsMatch ==
  ASSUME TurnsInv, IInv, ~TurnEndDamage
  PROVE  RosterMatchesOrder
<1>1. Sound(battle) /\ Tidy(battle) /\ Kept(battle, reacted)
  BY DEF TurnsInv, IInv, Sound
<1>2. Listed(Order(battle)) = battle.roster /\ Distinct(Order(battle))
  BY <1>1 DEF Sound, Well, Tidy
<1>3. Order(battle) \in Seq(Entries)
  BY <1>1, OrderListed DEF Sound, Well
<1>4. Cardinality(battle.roster) = Len(Order(battle))
  BY <1>2, <1>3, ListedDistinct
<1>5. FamiliarPresent(battle) <=> Familiar \in battle.roster
  BY <1>1 DEF Tidy, Kept
<1> QED BY <1>2, <1>4, <1>5 DEF RosterMatchesOrder

LEMMA AlwaysTurns == Spec => [](TurnsInv /\ IInv)
<1>1. Init => TurnsInv /\ IInv
  BY InitTurns, InitKept
<1>2. TurnsInv /\ IInv /\ [Next]_vars => (TurnsInv /\ IInv)'
  BY StepTurns, StepKeeps DEF Steps
<1> QED BY <1>1, <1>2, PTL DEF Spec

(* The battle keeps its type (InitiativeRuntimeState, BattleState), and    *)
(* there is always a creature whose turn it is, whoever leaves             *)
(* (initiative-algebra.ts: removeFromInitiative).                          *)
THEOREM BattleTypes == Spec => []TypeOK
<1>1. TurnsInv /\ IInv => TypeOK
  BY TurnsTyped
<1> QED BY <1>1, AlwaysTurns, PTL

(* Initiative never disagrees with the scores, whoever left or came back   *)
(* (initiative-algebra.ts: insertAtOrderIndex, removeFromInitiative), also  *)
(* where a familiar fell to damage at its turn's end.                      *)
THEOREM InitiativeIsOrdered == Spec => []OrderedByInitiative
<1>1. TurnsInv /\ IInv => OrderedByInitiative
  BY DEF TurnsInv, Sound, Well, OrderedByInitiative
<1> QED BY <1>1, AlwaysTurns, PTL

(* Roster and Initiative agree as long as no familiar falls to damage at   *)
(* the end of its turn (combatant-removal.ts); where one does, they need   *)
(* not (turn-boundary-lifecycle.ts: resolveEndTurn).                       *)
THEOREM RosterAndOrderAgree ==
  ASSUME ~TurnEndDamage PROVE Spec => []RosterMatchesOrder
<1>1. TurnsInv /\ IInv => RosterMatchesOrder
  BY TurnsMatch
<1> QED BY <1>1, AlwaysTurns, PTL

(* Nobody ends two turns in a round, and whoever was there when it began   *)
(* and is when it ends has ended one (turn-boundary-lifecycle.ts:          *)
(* resolveEndTurn; combatant-removal.ts).                                  *)
THEOREM EverybodyHasOneTurn ==
  ASSUME ~TurnEndDamage PROVE Spec => OneTurnARound
<1>1. TurnsInv /\ IInv /\ [Next]_vars
        => [/\ \A c \in ended \ joined : ends'[c] = ends[c]
            /\ battle'.round # battle.round =>
                 \A c \in (battle.roster \cap battle'.roster) \ joined :
                   c \in ended \/ ends'[c] > ends[c]]_vars
  BY StepTurns DEF Steps, TurnStep
<1> QED BY <1>1, AlwaysTurns, PTL DEF Spec, OneTurnARound

(* An effect ends with the turn it was promised to end with, whatever      *)
(* happens to the order meanwhile (spell-end-target-state.ts:              *)
(* endOfNextTurn...).                                                      *)
THEOREM EffectsEndWithTheirTurn ==
  ASSUME ~TurnEndDamage PROVE Spec => EffectsEndOnTime
<1>1. TurnsInv /\ IInv /\ [Next]_vars
        => [\A e \in battle.effects :
              e.kind = "endOfTurn" /\ {e.on, e.by} \subseteq battle'.roster
                /\ (Familiar \in {e.on, e.by} => joins' = joins)
              => (e \in battle'.effects <=> ends'[e.of] < e.until)]_vars
  BY StepTurns DEF Steps, TimeStep
<1> QED BY <1>1, AlwaysTurns, PTL DEF Spec, EffectsEndOnTime

(* An effect that lasts rounds lasts those it was made for, and at most one *)
(* more for each round that began because somebody left                    *)
(* (turn-boundary-lifecycle.ts: roundDurationCohort).                      *)
THEOREM LastingEffectsLast == Spec => DurationsLast
<1>1. TurnsInv /\ IInv /\ [Next]_vars
        => [\A e \in battle.effects :
              e.kind = "duration" /\ {e.on, e.by} \subseteq battle'.roster
                /\ (Familiar \in {e.on, e.by} => joins' = joins)
              => IF Lives(e)' THEN battle'.round < e.until + wraps'
                 ELSE battle'.round >= e.until]_vars
  <2>1. SUFFICES ASSUME TurnsInv /\ IInv /\ [Next]_vars
                 PROVE  \A e \in battle.effects :
                          e.kind = "duration"
                            /\ {e.on, e.by} \subseteq battle'.roster
                            /\ (Familiar \in {e.on, e.by} => joins' = joins)
                          => IF Lives(e)'
                             THEN battle'.round < e.until + wraps'
                             ELSE battle'.round >= e.until
    OBVIOUS
  <2>2. RoundStep
    BY <2>1, StepTurns DEF Steps
  <2>3. \A e : Lives(e)' <=> LivesIn(battle', e)
    BY DEF Lives, LivesIn
  <2> QED BY <2>2, <2>3 DEF RoundStep
<1> QED BY <1>1, AlwaysTurns, PTL DEF Spec, DurationsLast

(* A used Reaction comes back with a turn of the familiar's own or a new   *)
(* familiar only (companion-lifecycle.ts:                                  *)
(* reactionAvailableForSpawnedCompanionCast), also where damage at the end *)
(* of its own turn takes it off the roster alone.                          *)
THEOREM ReactionsKept == Spec => []ReactionsAreNotRegained
<1>1. IInv => ReactionsAreNotRegained
  BY DEF IInv, Kept, ReactionsAreNotRegained
<1> QED BY <1>1, InitKept, StepKeeps, PTL DEF Spec
=============================================================================
