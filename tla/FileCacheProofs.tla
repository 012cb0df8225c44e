--------------------------- MODULE FileCacheProofs --------------------------
(***************************************************************************)
(* Theorems about FileCache, for any finite set of data of any lengths and *)
(* a cache of any size.                                                    *)
(***************************************************************************)
EXTENDS FileCache, SequenceTheorems, WellFoundedInduction,
        FiniteSetTheorems, TLAPS

(* A set of naturals that is not empty has a least element.                 *)
LEMMA LeastNumber ==
  ASSUME NEW S, S \subseteq Nat, S # {}
  PROVE  \E m \in S : \A y \in S : m <= y
<1> DEFINE R == {ss \in Nat \X Nat : ss[1] < ss[2]}
<1>1. IsWellFoundedOn(R, Nat)
  BY NatLessThanWellFounded, Zenon DEF OpToRel
<1> HIDE DEF R
<1>2. PICK x \in S : \A y \in S : ~ (<<y, x>> \in R)
  BY <1>1, WFMin, Zenon
<1>3. ASSUME NEW y \in S
      PROVE  x <= y
  <2>1. x \in Nat /\ y \in Nat /\ ~(<<y, x>> \in R)
    BY <1>2
  <2>2. ~(y < x)
    BY <2>1 DEF R
  <2> QED
    BY <2>1, <2>2
<1> QED
  BY <1>3

-----------------------------------------------------------------------------
(* A list that is another one, put in another order.                        *)
Rearranges(t, s, J, p, q) ==
  /\ J \subseteq DOMAIN s
  /\ \A k \in DOMAIN t : p[k] \in J /\ t[k] = s[p[k]] /\ q[p[k]] = k
  /\ \A j \in J : q[j] \in DOMAIN t /\ p[q[j]] = j

LEMMA Rearranged ==
  ASSUME NEW s, NEW t, NEW J, NEW p, NEW q, IsInjective(s), Rearranges(t, s, J, p, q)
  PROVE  IsInjective(t) /\ Range(t) = {s[j] : j \in J}
<1> USE DEF Rearranges
<1>1. \A k, m \in DOMAIN s : s[k] = s[m] => k = m
  BY DEF IsInjective
<1>2. \A k, m \in DOMAIN t : t[k] = t[m] => k = m
  BY <1>1
<1>3. \A k \in DOMAIN t : t[k] \in {s[j] : j \in J}
  OBVIOUS
<1>4. ASSUME NEW j \in J
      PROVE  s[j] \in Range(t)
  <2>1. q[j] \in DOMAIN t /\ t[q[j]] = s[j]
    OBVIOUS
  <2> QED
    BY <2>1 DEF Range
<1> QED
  BY <1>2, <1>3, <1>4 DEF IsInjective, Range

(* The two parts of a list before and after its i-th entry.                 *)
LEMMA Parts ==
  ASSUME NEW s \in Seq(Ids), NEW i \in 1..Len(s)
  PROVE  /\ SubSeq(s, 1, i - 1) \in Seq(Ids) /\ Len(SubSeq(s, 1, i - 1)) = i - 1
         /\ \A k \in 1..(i - 1) : SubSeq(s, 1, i - 1)[k] = s[k]
         /\ SubSeq(s, i + 1, Len(s)) \in Seq(Ids)
         /\ Len(SubSeq(s, i + 1, Len(s))) = Len(s) - i
         /\ \A k \in 1..(Len(s) - i) : SubSeq(s, i + 1, Len(s))[k] = s[i + k]
<1>1. \A k \in 1..(i - 1) : s[k] \in Ids
  OBVIOUS
<1>2. \A k \in (i + 1)..Len(s) : s[k] \in Ids
  OBVIOUS
<1>3. /\ SubSeq(s, 1, i - 1) \in Seq(Ids)
      /\ Len(SubSeq(s, 1, i - 1)) = IF 1 <= i - 1 THEN (i - 1) - 1 + 1 ELSE 0
      /\ \A k \in 1..((i - 1) - 1 + 1) : SubSeq(s, 1, i - 1)[k] = s[1 + k - 1]
  <2>1. 1 \in Int /\ i - 1 \in Int
    OBVIOUS
  <2> QED
    BY ONLY <1>1, <2>1, SubSeqProperties, SMT
<1>4. /\ SubSeq(s, i + 1, Len(s)) \in Seq(Ids)
      /\ Len(SubSeq(s, i + 1, Len(s))) = IF i + 1 <= Len(s) THEN Len(s) - (i + 1) + 1 ELSE 0
      /\ \A k \in 1..(Len(s) - (i + 1) + 1) :
           SubSeq(s, i + 1, Len(s))[k] = s[(i + 1) + k - 1]
  <2>1. i + 1 \in Int /\ Len(s) \in Int
    OBVIOUS
  <2> QED
    BY ONLY <1>2, <2>1, SubSeqProperties, SMT
<1> DEFINE a == SubSeq(s, 1, i - 1)
           b == SubSeq(s, i + 1, Len(s))
           n == Len(s)
<1>5. n \in Nat /\ i \in 1..n
  OBVIOUS
<1> HIDE DEF a, b, n
<1>6. a \in Seq(Ids) /\ Len(a) = i - 1 /\ \A k \in 1..(i - 1) : a[k] = s[k]
  <2>1. /\ a \in Seq(Ids) /\ Len(a) = IF 1 <= i - 1 THEN (i - 1) - 1 + 1 ELSE 0
        /\ \A k \in 1..((i - 1) - 1 + 1) : a[k] = s[1 + k - 1]
    BY <1>3, Zenon DEF a
  <2> QED
    BY ONLY <1>5, <2>1
<1>7. b \in Seq(Ids) /\ Len(b) = n - i /\ \A k \in 1..(n - i) : b[k] = s[i + k]
  <2>1. /\ b \in Seq(Ids) /\ Len(b) = IF i + 1 <= n THEN n - (i + 1) + 1 ELSE 0
        /\ \A k \in 1..(n - (i + 1) + 1) : b[k] = s[(i + 1) + k - 1]
    BY <1>4, Zenon DEF b, n
  <2> QED
    BY ONLY <1>5, <2>1
<1> QED
  BY <1>6, <1>7, Zenon DEF a, b, n

(* An entry is taken out of a list, which may be turned round.              *)
LEMMA TakenOut ==
  ASSUME NEW s \in Seq(Ids), IsInjective(s), NEW i \in DOMAIN s
  PROVE  /\ LET t == SubSeq(s, 1, i - 1) \o SubSeq(s, i + 1, Len(s))
            IN  t \in Seq(Ids) /\ IsInjective(t) /\ Range(t) = Range(s) \ {s[i]}
         /\ LET t == SubSeq(s, i + 1, Len(s)) \o SubSeq(s, 1, i - 1)
            IN  t \in Seq(Ids) /\ IsInjective(t) /\ Range(t) = Range(s) \ {s[i]}
<1> DEFINE n == Len(s)
           a == SubSeq(s, 1, i - 1)
           b == SubSeq(s, i + 1, Len(s))
<1>1. n \in Nat /\ DOMAIN s = 1..n /\ i \in 1..n
  OBVIOUS
<1>2. /\ a \in Seq(Ids) /\ Len(a) = i - 1 /\ \A k \in 1..(i - 1) : a[k] = s[k]
      /\ b \in Seq(Ids) /\ Len(b) = n - i /\ \A k \in 1..(n - i) : b[k] = s[i + k]
  BY <1>1, Parts
<1> HIDE DEF n, a, b
<1>3. {s[j] : j \in (1..n) \ {i}} = Range(s) \ {s[i]}
  BY <1>1 DEF Range, IsInjective
<1>4. ASSUME NEW t, t = a \o b
      PROVE  t \in Seq(Ids) /\ IsInjective(t) /\ Range(t) = Range(s) \ {s[i]}
  <2>1. /\ t \in Seq(Ids) /\ Len(t) = (i - 1) + (n - i)
        /\ \A k \in 1..((i - 1) + (n - i)) :
             t[k] = IF k <= i - 1 THEN a[k] ELSE b[k - (i - 1)]
    BY <1>2, <1>4, ConcatProperties
  <2>2. t \in Seq(Ids) /\ DOMAIN t = 1..(n - 1)
    <3>1. (i - 1) + (n - i) = n - 1
      BY <1>1
    <3> QED
      BY <2>1, <3>1
  <2>3. \A k \in 1..(n - 1) : t[k] = IF k < i THEN s[k] ELSE s[k + 1]
    <3> SUFFICES ASSUME NEW k \in 1..(n - 1)
                 PROVE  t[k] = IF k < i THEN s[k] ELSE s[k + 1]
      OBVIOUS
    <3>1. t[k] = IF k <= i - 1 THEN a[k] ELSE b[k - (i - 1)]
      BY <1>1, <2>1
    <3>2. CASE k < i
      BY ONLY <1>1, <1>2, <3>1, <3>2
    <3>3. CASE ~(k < i)
      <4> DEFINE j == k - (i - 1)
      <4>1. j \in 1..(n - i) /\ i + j = k + 1 /\ ~(k <= i - 1)
        BY ONLY <1>1, <3>3
      <4>2. t[k] = b[j]
        BY ONLY <3>1, <4>1
      <4> HIDE DEF j
      <4>3. b[j] = s[k + 1]
        BY ONLY <1>2, <4>1
      <4> QED
        BY ONLY <3>3, <4>2, <4>3
    <3> QED
      BY <3>2, <3>3
  <2> DEFINE J == (1..n) \ {i}
             p == [k \in 1..(n - 1) |-> IF k < i THEN k ELSE k + 1]
             q == [j \in J |-> IF j < i THEN j ELSE j - 1]
  <2>4. p \in [1..(n - 1) -> J] /\ q \in [J -> 1..(n - 1)]
    BY ONLY <1>1
  <2>5. \A k \in 1..(n - 1) : t[k] = s[p[k]] /\ q[p[k]] = k
    BY ONLY <1>1, <2>3
  <2>6. \A j \in J : p[q[j]] = j
    BY ONLY <1>1
  <2> HIDE DEF p, q
  <2>7. J \subseteq DOMAIN s
    BY <1>1
  <2> HIDE DEF J
  <2>8. IsInjective(t) /\ Range(t) = {s[j] : j \in J}
    <3>1. \A k \in DOMAIN t : p[k] \in J /\ t[k] = s[p[k]] /\ q[p[k]] = k
      BY <2>2, <2>4, <2>5
    <3>2. \A j \in J : q[j] \in DOMAIN t /\ p[q[j]] = j
      BY <2>2, <2>4, <2>6
    <3>3. Rearranges(t, s, J, p, q)
      BY <2>7, <3>1, <3>2 DEF Rearranges
    <3> QED
      BY <3>3, Rearranged, Zenon
  <2> QED
    BY <1>3, <2>2, <2>8 DEF J
<1>5. ASSUME NEW t, t = b \o a
      PROVE  t \in Seq(Ids) /\ IsInjective(t) /\ Range(t) = Range(s) \ {s[i]}
  <2>1. /\ t \in Seq(Ids) /\ Len(t) = (n - i) + (i - 1)
        /\ \A k \in 1..((n - i) + (i - 1)) :
             t[k] = IF k <= n - i THEN b[k] ELSE a[k - (n - i)]
    BY <1>2, <1>5, ConcatProperties
  <2>2. t \in Seq(Ids) /\ DOMAIN t = 1..(n - 1)
    <3>1. (n - i) + (i - 1) = n - 1
      BY <1>1
    <3> QED
      BY <2>1, <3>1
  <2>3. \A k \in 1..(n - 1) : t[k] = IF k <= n - i THEN s[i + k] ELSE s[k - (n - i)]
    <3> SUFFICES ASSUME NEW k \in 1..(n - 1)
                 PROVE  t[k] = IF k <= n - i THEN s[i + k] ELSE s[k - (n - i)]
      OBVIOUS
    <3>1. t[k] = IF k <= n - i THEN b[k] ELSE a[k - (n - i)]
      BY <1>1, <2>1
    <3>2. CASE k <= n - i
      BY ONLY <1>1, <1>2, <3>1, <3>2
    <3>3. CASE ~(k <= n - i)
      <4> DEFINE j == k - (n - i)
      <4>1. j \in 1..(i - 1)
        BY ONLY <1>1, <3>3
      <4>2. t[k] = a[j]
        BY ONLY <3>1, <3>3
      <4> HIDE DEF j
      <4>3. a[j] = s[j]
        BY ONLY <1>2, <4>1
      <4> QED
        BY ONLY <3>3, <4>2, <4>3 DEF j
    <3> QED
      BY <3>2, <3>3
  <2> DEFINE J == (1..n) \ {i}
             p == [k \in 1..(n - 1) |-> IF k <= n - i THEN i + k ELSE k - (n - i)]
             q == [j \in J |-> IF j > i THEN j - i ELSE j + (n - i)]
  <2>4. p \in [1..(n - 1) -> J] /\ q \in [J -> 1..(n - 1)]
    BY ONLY <1>1
  <2>5. \A k \in 1..(n - 1) : t[k] = s[p[k]] /\ q[p[k]] = k
    BY ONLY <1>1, <2>3
  <2>6. \A j \in J : p[q[j]] = j
    BY ONLY <1>1
  <2> HIDE DEF p, q
  <2>7. J \subseteq DOMAIN s
    BY <1>1
  <2> HIDE DEF J
  <2>8. IsInjective(t) /\ Range(t) = {s[j] : j \in J}
    <3>1. \A k \in DOMAIN t : p[k] \in J /\ t[k] = s[p[k]] /\ q[p[k]] = k
      BY <2>2, <2>4, <2>5
    <3>2. \A j \in J : q[j] \in DOMAIN t /\ p[q[j]] = j
      BY <2>2, <2>4, <2>6
    <3>3. Rearranges(t, s, J, p, q)
      BY <2>7, <3>1, <3>2 DEF Rearranges
    <3> QED
      BY <3>3, Rearranged, Zenon
  <2> QED
    BY <1>3, <2>2, <2>8 DEF J
<1> QED
  BY <1>4, <1>5, Zenon DEF a, b

LEMMA PutInFront ==
  ASSUME NEW s \in Seq(Ids), IsInjective(s), NEW e \in Ids, e \notin Range(s)
  PROVE  /\ <<e>> \o s \in Seq(Ids) /\ IsInjective(<<e>> \o s)
         /\ Range(<<e>> \o s) = Range(s) \cup {e}
<1> DEFINE n == Len(s)
<1>1. n \in Nat /\ DOMAIN s = 1..n
  OBVIOUS
<1>2. ASSUME NEW t, t = <<e>> \o s
      PROVE  t \in Seq(Ids) /\ IsInjective(t) /\ Range(t) = Range(s) \cup {e}
  <2>1. /\ <<e>> \in Seq(Ids) /\ Len(<<e>>) = 1 /\ <<e>>[1] = e
    OBVIOUS
  <2>2. /\ t \in Seq(Ids) /\ Len(t) = 1 + n
        /\ \A k \in 1..(1 + n) : t[k] = IF k <= 1 THEN <<e>>[k] ELSE s[k - 1]
    BY <1>2, <2>1, ConcatProperties
  <2>3. DOMAIN t = 1..(n + 1)
    BY <1>1, <2>2
  <2> HIDE DEF n
  <2>4. \A k \in 1..(n + 1) : t[k] = IF k = 1 THEN e ELSE s[k - 1]
    BY ONLY <1>1, <2>1, <2>2
  <2>5. \A k \in 1..n : s[k] # e
    BY <1>1 DEF Range
  <2>6. \A k, m \in 1..n : s[k] = s[m] => k = m
    BY <1>1 DEF IsInjective
  <2>7. \A k, m \in 1..(n + 1) : t[k] = t[m] => k = m
    BY ONLY <1>1, <2>4, <2>5, <2>6
  <2>8. \A k \in 1..(n + 1) : k = 1 \/ k - 1 \in 1..n
    BY <1>1
  <2>9. \A k \in 1..n : k + 1 \in 1..(n + 1) /\ t[k + 1] = s[k]
    BY ONLY <1>1, <2>4
  <2>10. 1 \in 1..(n + 1) /\ t[1] = e
    BY ONLY <1>1, <2>4
  <2>11. Range(t) = Range(s) \cup {e}
    <3>1. Range(t) \subseteq Range(s) \cup {e}
      BY ONLY <1>1, <2>3, <2>4, <2>8 DEF Range
    <3>2. Range(s) \subseteq Range(t)
      BY ONLY <1>1, <2>3, <2>9 DEF Range
    <3>3. e \in Range(t)
      BY ONLY <2>3, <2>10 DEF Range
    <3> QED
      BY <3>1, <3>2, <3>3
  <2>12. IsInjective(t)
    BY <2>3, <2>7 DEF IsInjective
  <2> QED
    BY <2>2, <2>11, <2>12
<1> QED
  BY <1>2

-----------------------------------------------------------------------------
(* The bytes of the entries of S, when they have the lengths b.             *)
Weighed(b, S) == UNION {{e} \X (1..b[e]) : e \in S}

Weight(b, S) == Cardinality(Weighed(b, S))

LEMMA WeightFinite ==
  ASSUME NEW b \in [Ids -> Nat], NEW S \in SUBSET Ids
  PROVE  IsFiniteSet(Weighed(b, S)) /\ Weight(b, S) \in Nat /\ IsFiniteSet(S)
<1>1. IsFiniteSet(S)
  BY FS_Subset, FileCacheAssumption
<1> DEFINE f == [e \in S |-> {e} \X (1..b[e])]
           T == {{e} \X (1..b[e]) : e \in S}
<1>2. f \in Surjection(S, T)
  BY DEF Surjection
<1>3. IsFiniteSet(T)
  BY <1>1, <1>2, FS_Surjection, Zenon
<1>4. ASSUME NEW e \in S
      PROVE  IsFiniteSet({e} \X (1..b[e]))
  <2>1. 1 \in Int /\ b[e] \in Int
    OBVIOUS
  <2>2. IsFiniteSet({e}) /\ IsFiniteSet(1..b[e])
    BY <2>1, FS_Singleton, FS_Interval, Zenon
  <2> QED
    BY <2>2, FS_Product, Zenon
<1>5. \A x \in T : IsFiniteSet(x)
  BY <1>4
<1>6. IsFiniteSet(UNION T)
  BY <1>3, <1>5, FS_UNION
<1> QED
  BY <1>1, <1>6, FS_CardinalityType DEF Weighed, Weight

LEMMA WeightAdd ==
  ASSUME NEW b \in [Ids -> Nat], NEW S \in SUBSET Ids, NEW e \in Ids \ S
  PROVE  Weight(b, S \cup {e}) = Weight(b, S) + b[e]
<1> DEFINE own == {e} \X (1..b[e])
<1>1. Weighed(b, S \cup {e}) = Weighed(b, S) \cup own
  BY DEF Weighed
<1>2. Weighed(b, S) \cap own = {}
  BY DEF Weighed
<1>3. IsFiniteSet(own) /\ Cardinality(own) = b[e]
  <2>1. IsFiniteSet({e}) /\ Cardinality({e}) = 1
    BY FS_Singleton
  <2>2. IsFiniteSet(1..b[e]) /\ Cardinality(1..b[e]) = b[e]
    BY FS_Interval
  <2>3. IsFiniteSet(own) /\ Cardinality(own) = Cardinality({e}) * Cardinality(1..b[e])
    BY <2>1, <2>2, FS_Product, Zenon
  <2> HIDE DEF own
  <2> QED
    BY <2>1, <2>2, <2>3
<1>4. IsFiniteSet(Weighed(b, S)) /\ Weight(b, S) \in Nat
  BY WeightFinite
<1> HIDE DEF own
<1>5. Cardinality(Weighed(b, S) \cup own) = Cardinality(Weighed(b, S)) + b[e] - 0
  BY <1>2, <1>3, <1>4, FS_Union, FS_EmptySet
<1>6. Weight(b, S) = Cardinality(Weighed(b, S)) /\ b[e] \in Nat
  BY DEF Weight
<1>7. Weight(b, S \cup {e}) = Cardinality(Weighed(b, S) \cup own)
  BY <1>1 DEF Weight
<1> QED
  BY <1>4, <1>5, <1>6, <1>7

LEMMA WeightRemove ==
  ASSUME NEW b \in [Ids -> Nat], NEW S \in SUBSET Ids, NEW e \in S
  PROVE  Weight(b, S \ {e}) = Weight(b, S) - b[e]
<1>1. (S \ {e}) \cup {e} = S /\ S \ {e} \in SUBSET Ids /\ e \in Ids \ (S \ {e})
  OBVIOUS
<1>2. Weight(b, S) = Weight(b, S \ {e}) + b[e]
  BY <1>1, WeightAdd
<1>3. Weight(b, S \ {e}) \in Nat /\ b[e] \in Nat
  BY <1>1, WeightFinite
<1> QED
  BY <1>2, <1>3

(* Only the lengths of the entries themselves count.                        *)
LEMMA WeightSame ==
  ASSUME NEW b, NEW d, NEW S, \A e \in S : b[e] = d[e]
  PROVE  Weight(b, S) = Weight(d, S)
BY DEF Weight, Weighed

(* Entries that have at least k bytes each.                                 *)
LEMMA WeightAtLeast ==
  ASSUME NEW b \in [Ids -> Nat], NEW S \in SUBSET Ids, NEW k \in Nat, \A e \in S : k <= b[e]
  PROVE  Cardinality(S) * k <= Weight(b, S)
<1>1. IsFiniteSet(S) /\ IsFiniteSet(Weighed(b, S))
  BY WeightFinite
<1>2. IsFiniteSet(1..k) /\ Cardinality(1..k) = k
  BY FS_Interval
<1>3. S \X (1..k) \subseteq Weighed(b, S)
  <2> SUFFICES ASSUME NEW e \in S, NEW i \in 1..k
               PROVE  <<e, i>> \in Weighed(b, S)
    OBVIOUS
  <2>1. i \in 1..b[e]
    OBVIOUS
  <2> QED
    BY <2>1 DEF Weighed
<1>4. Cardinality(S \X (1..k)) <= Cardinality(Weighed(b, S))
  BY <1>1, <1>3, FS_Subset
<1> QED
  BY <1>1, <1>2, <1>4, FS_Product DEF Weight

-----------------------------------------------------------------------------
(* A cache whose books are in order, but for the entries of X, which are in *)
(* the hash table and at this moment in no list.                            *)
In(c, l) == Range(c.list[l])

ResidentIn(c) == In(c, "t1") \cup In(c, "t2")

Length(l, e) == IF l \in {"t1", "t2"} THEN Header + Bytes[e] ELSE Header

Listed(c, X) ==
  /\ c.hash = X \cup UNION {In(c, l) : l \in Lists}
  /\ \A l \in Lists : IsInjective(c.list[l]) /\ In(c, l) \cap X = {}
  /\ \A l \in Lists : \A e \in In(c, l) : c.where[e] = l /\ c.bytes[e] = Length(l, e)

Counted(c) == \A l \in Lists : c.size[l] = Weight(c.bytes, In(c, l))

(* Only data are in use.                                                    *)
Used(c, X) == \A e \in Ids : e \notin ResidentIn(c) /\ e \notin X => c.usage[e] = 0

Well(c, X) == c \in Caches /\ X \subseteq Ids /\ Listed(c, X) /\ Counted(c) /\ Used(c, X)

LEMMA InTypes ==
  ASSUME NEW c \in Caches, NEW l \in Lists
  PROVE  c.list[l] \in Seq(Ids) /\ In(c, l) \subseteq Ids
<1>1. c.list[l] \in Seq(Ids)
  BY DEF Caches
<1> QED
  BY <1>1 DEF In, Range

(* The lists have no entry in common.                                       *)
LEMMA Apart ==
  ASSUME NEW c, NEW X, Well(c, X), NEW l \in Lists, NEW k \in Lists, l # k
  PROVE  In(c, l) \cap In(c, k) = {}
BY DEF Well, Listed

(* The lists stay, and the entries that are in none change.                 *)
KeepsLists(c, X, d, Y) ==
  /\ d \in Caches /\ Y \subseteq Ids
  /\ d.list = c.list /\ d.size = c.size
  /\ d.hash = (c.hash \ X) \cup Y /\ Y \cap (c.hash \ X) = {}
  /\ \A l \in Lists : \A e \in In(c, l) : d.where[e] = c.where[e] /\ d.bytes[e] = c.bytes[e]
  /\ \A e \in Ids : e \notin ResidentIn(c) /\ e \notin Y => d.usage[e] = 0

LEMMA SameLists ==
  ASSUME NEW c, NEW X, Well(c, X), NEW d, NEW Y, KeepsLists(c, X, d, Y)
  PROVE  /\ Well(d, Y) /\ ResidentIn(d) = ResidentIn(c)
         /\ \A l \in Lists : In(d, l) = In(c, l)
<1> USE DEF KeepsLists
<1>1. \A l : In(d, l) = In(c, l)
  BY DEF In
<1>2. ResidentIn(d) = ResidentIn(c)
  BY <1>1 DEF ResidentIn
<1>3. c.hash \ X = UNION {In(c, l) : l \in Lists}
  BY DEF Well, Listed
<1>4. Listed(d, Y)
  <2>1. d.hash = Y \cup UNION {In(d, l) : l \in Lists}
    BY <1>1, <1>3
  <2>2. \A l \in Lists : IsInjective(d.list[l]) /\ In(d, l) \cap Y = {}
    BY <1>1, <1>3 DEF Well, Listed
  <2>3. \A l \in Lists : \A e \in In(d, l) : d.where[e] = l /\ d.bytes[e] = Length(l, e)
    BY <1>1 DEF Well, Listed
  <2> QED
    BY <2>1, <2>2, <2>3 DEF Listed
<1>5. Counted(d)
  <2> SUFFICES ASSUME NEW l \in Lists
               PROVE  d.size[l] = Weight(d.bytes, In(d, l))
    BY DEF Counted
  <2>1. Weight(c.bytes, In(c, l)) = Weight(d.bytes, In(c, l))
    BY WeightSame
  <2> QED
    BY <1>1, <2>1 DEF Well, Counted
<1>6. Used(d, Y)
  BY <1>2 DEF Used
<1> QED
  BY <1>1, <1>2, <1>4, <1>5, <1>6 DEF Well

(* An entry leaves its list; the list may be turned round.                  *)
TakesOut(c, l, e, t, d) ==
  /\ t \in Seq(Ids) /\ IsInjective(t) /\ Range(t) = In(c, l) \ {e}
  /\ d = [c EXCEPT !.list[l] = t, !.size[l] = @ - c.bytes[e]]

LEMMA Taken ==
  ASSUME NEW c, NEW X, Well(c, X), NEW l \in Lists, NEW e \in In(c, l),
         NEW t, NEW d, TakesOut(c, l, e, t, d)
  PROVE  /\ Well(d, X \cup {e})
         /\ In(d, l) = In(c, l) \ {e}
         /\ \A k \in Lists : k # l => In(d, k) = In(c, k) /\ d.list[k] = c.list[k]
         /\ d.where = c.where /\ d.hash = c.hash /\ d.bytes = c.bytes /\ d.usage = c.usage
         /\ d.target = c.target /\ d.insert = c.insert
<1>t. /\ t \in Seq(Ids) /\ IsInjective(t) /\ Range(t) = In(c, l) \ {e}
      /\ d = [c EXCEPT !.list[l] = t, !.size[l] = @ - c.bytes[e]]
  BY DEF TakesOut
<1>0. /\ c \in Caches /\ X \subseteq Ids
      /\ Listed(c, X) /\ Counted(c) /\ Used(c, X)
  BY DEF Well
<1>1. /\ d.list = [c.list EXCEPT ![l] = t]
      /\ d.size = [c.size EXCEPT ![l] = c.size[l] - c.bytes[e]]
      /\ d.where = c.where /\ d.hash = c.hash /\ d.bytes = c.bytes /\ d.usage = c.usage
      /\ d.target = c.target /\ d.insert = c.insert
  BY <1>0, <1>t DEF Caches
<1>2. c.list \in [Lists -> Seq(Ids)] /\ c.size \in [Lists -> Nat] /\ c.bytes \in [Ids -> Nat]
  BY <1>0 DEF Caches
<1>3. e \in Ids /\ In(c, l) \in SUBSET Ids
  BY <1>0, InTypes
<1>4. d.list[l] = t /\ \A k \in Lists : k # l => d.list[k] = c.list[k]
  BY <1>1, <1>2
<1>5. In(d, l) = In(c, l) \ {e} /\ \A k \in Lists : k # l => In(d, k) = In(c, k)
  <2>1. In(d, l) = Range(t)
    BY <1>4 DEF In
  <2>2. \A k \in Lists : k # l => In(d, k) = In(c, k)
    BY <1>4 DEF In
  <2> QED
    BY <1>t, <2>1, <2>2
<1>6. Weight(c.bytes, In(c, l) \ {e}) = c.size[l] - c.bytes[e]
  <2>1. c.size[l] = Weight(c.bytes, In(c, l))
    BY <1>0 DEF Counted
  <2>2. Weight(c.bytes, In(c, l) \ {e}) = Weight(c.bytes, In(c, l)) - c.bytes[e]
    BY <1>2, <1>3, WeightRemove
  <2> QED
    BY <2>1, <2>2
<1>7. c.size[l] - c.bytes[e] \in Nat
  BY <1>2, <1>3, <1>6, WeightFinite
<1>8. d \in Caches
  <2>1. d.list \in [Lists -> Seq(Ids)] /\ d.size \in [Lists -> Nat]
    BY <1>t, <1>1, <1>2, <1>7
  <2>2. /\ d.hash \in SUBSET Ids /\ d.bytes \in [Ids -> Nat] /\ d.usage \in [Ids -> Nat]
        /\ d.where \in [Ids -> Lists \cup {"none"}]
        /\ d.target \in 0..Size /\ d.insert \in {"none", "t1", "t2"}
    BY <1>0, <1>1 DEF Caches
  <2>3. d = [list |-> d.list, size |-> d.size, where |-> d.where, hash |-> d.hash,
             bytes |-> d.bytes, usage |-> d.usage, target |-> d.target, insert |-> d.insert]
    BY <1>0, <1>t DEF Caches
  <2> QED
    BY ONLY <2>1, <2>2, <2>3 DEF Caches
<1>9. Listed(d, X \cup {e})
  <2>1. d.hash = (X \cup {e}) \cup UNION {In(d, k) : k \in Lists}
    BY <1>0, <1>1, <1>5 DEF Listed
  <2>2. ASSUME NEW k \in Lists
        PROVE  IsInjective(d.list[k]) /\ In(d, k) \cap (X \cup {e}) = {}
    <3>1. CASE k = l
      BY <1>0, <1>t, <1>4, <1>5, <3>1 DEF Listed
    <3>2. CASE k # l
      <4>1. e \notin In(c, k)
        BY <3>2, Apart
      <4> QED
        BY <1>0, <1>4, <1>5, <3>2, <4>1 DEF Listed
    <3> QED
      BY <3>1, <3>2
  <2>3. \A k \in Lists : \A x \in In(d, k) : d.where[x] = k /\ d.bytes[x] = Length(k, x)
    BY <1>0, <1>1, <1>5 DEF Listed
  <2> QED
    BY <2>1, <2>2, <2>3 DEF Listed
<1>10. Counted(d)
  <2> SUFFICES ASSUME NEW k \in Lists
               PROVE  d.size[k] = Weight(c.bytes, In(d, k))
    BY <1>1 DEF Counted
  <2>1. CASE k = l
    BY <1>1, <1>2, <1>5, <1>6, <2>1
  <2>2. CASE k # l
    BY <1>0, <1>1, <1>2, <1>5, <2>2 DEF Counted
  <2> QED
    BY <2>1, <2>2
<1>11. Used(d, X \cup {e})
  BY <1>0, <1>1, <1>5 DEF Used, ResidentIn, Lists
<1>12. X \cup {e} \subseteq Ids
  BY <1>0, <1>3
<1> QED
  BY <1>1, <1>4, <1>5, <1>8, <1>9, <1>10, <1>11, <1>12 DEF Well

(* cache_insert_mru                                                         *)
LEMMA Inserted ==
  ASSUME NEW c, NEW X, Well(c, X), NEW l \in Lists, NEW e \in X,
         c.bytes[e] = Length(l, e), l \in {"t1", "t2"} \/ c.usage[e] = 0,
         NEW d, d = InsertMru(c, l, e)
  PROVE  /\ Well(d, X \ {e})
         /\ In(d, l) = In(c, l) \cup {e}
         /\ \A k \in Lists : k # l => In(d, k) = In(c, k) /\ d.list[k] = c.list[k]
         /\ d.hash = c.hash /\ d.bytes = c.bytes /\ d.usage = c.usage
         /\ d.target = c.target /\ d.insert = c.insert
<1>0. /\ c \in Caches /\ X \subseteq Ids /\ e \in Ids
      /\ Listed(c, X) /\ Counted(c) /\ Used(c, X)
  BY DEF Well
<1>1. /\ d.list = [c.list EXCEPT ![l] = <<e>> \o c.list[l]]
      /\ d.size = [c.size EXCEPT ![l] = c.size[l] + c.bytes[e]]
      /\ d.where = [c.where EXCEPT ![e] = l]
      /\ d.hash = c.hash /\ d.bytes = c.bytes /\ d.usage = c.usage
      /\ d.target = c.target /\ d.insert = c.insert
      /\ d = [list |-> d.list, size |-> d.size, where |-> d.where, hash |-> d.hash,
              bytes |-> d.bytes, usage |-> d.usage, target |-> d.target, insert |-> d.insert]
  BY <1>0 DEF Caches, InsertMru
<1>2. /\ c.list \in [Lists -> Seq(Ids)] /\ c.size \in [Lists -> Nat] /\ c.bytes \in [Ids -> Nat]
      /\ c.where \in [Ids -> Lists \cup {"none"}]
  BY <1>0 DEF Caches
<1>3. In(c, l) \in SUBSET Ids /\ e \notin In(c, l) /\ IsInjective(c.list[l])
  BY <1>0, InTypes DEF Listed
<1>4. /\ <<e>> \o c.list[l] \in Seq(Ids) /\ IsInjective(<<e>> \o c.list[l])
      /\ Range(<<e>> \o c.list[l]) = In(c, l) \cup {e}
  BY <1>0, <1>2, <1>3, PutInFront DEF In
<1> DEFINE t == <<e>> \o c.list[l]
<1> HIDE DEF t
<1>5. d.list[l] = t /\ \A k \in Lists : k # l => d.list[k] = c.list[k]
  BY <1>1, <1>2 DEF t
<1>6. In(d, l) = In(c, l) \cup {e} /\ \A k \in Lists : k # l => In(d, k) = In(c, k)
  BY <1>4, <1>5 DEF In, t
<1>7. Weight(c.bytes, In(c, l) \cup {e}) = c.size[l] + c.bytes[e]
  <2>1. e \in Ids \ In(c, l)
    BY <1>0, <1>3
  <2>2. Weight(c.bytes, In(c, l) \cup {e}) = Weight(c.bytes, In(c, l)) + c.bytes[e]
    BY <1>2, <1>3, <2>1, WeightAdd
  <2> QED
    BY <1>0, <2>2 DEF Counted
<1>8. d \in Caches
  <2>1. /\ d.list \in [Lists -> Seq(Ids)] /\ d.size \in [Lists -> Nat]
        /\ d.where \in [Ids -> Lists \cup {"none"}]
    BY <1>0, <1>1, <1>2, <1>4
  <2>2. /\ d.hash \in SUBSET Ids /\ d.bytes \in [Ids -> Nat] /\ d.usage \in [Ids -> Nat]
        /\ d.target \in 0..Size /\ d.insert \in {"none", "t1", "t2"}
    BY <1>0, <1>1 DEF Caches
  <2>3. d = [list |-> d.list, size |-> d.size, where |-> d.where, hash |-> d.hash,
             bytes |-> d.bytes, usage |-> d.usage, target |-> d.target, insert |-> d.insert]
    BY <1>1
  <2> QED
    BY ONLY <2>1, <2>2, <2>3 DEF Caches
<1>9. Listed(d, X \ {e})
  <2>1. d.hash = (X \ {e}) \cup UNION {In(d, k) : k \in Lists}
    BY <1>0, <1>1, <1>6 DEF Listed
  <2>2. ASSUME NEW k \in Lists
        PROVE  IsInjective(d.list[k]) /\ In(d, k) \cap (X \ {e}) = {}
    <3>1. CASE k = l
      BY <1>0, <1>4, <1>5, <1>6, <3>1 DEF Listed, t
    <3>2. CASE k # l
      BY <1>0, <1>5, <1>6, <3>2 DEF Listed
    <3> QED
      BY <3>1, <3>2
  <2>3. ASSUME NEW k \in Lists, NEW x \in In(d, k)
        PROVE  d.where[x] = k /\ d.bytes[x] = Length(k, x)
    <3>1. CASE x = e
      <4>1. k = l
        BY <1>0, <1>6, <2>3, <3>1 DEF Listed
      <4> QED
        BY <1>0, <1>1, <1>2, <3>1, <4>1
    <3>2. CASE x # e
      <4>1. x \in In(c, k) /\ x \in Ids
        BY <1>0, <1>6, <2>3, <3>2, InTypes
      <4>2. d.where[x] = c.where[x] /\ d.bytes[x] = c.bytes[x]
        BY <1>1, <1>2, <3>2, <4>1
      <4> QED
        BY <1>0, <4>1, <4>2 DEF Listed
    <3> QED
      BY <3>1, <3>2
  <2> QED
    BY <2>1, <2>2, <2>3 DEF Listed
<1>10. Counted(d)
  BY <1>0, <1>1, <1>2, <1>6, <1>7 DEF Counted
<1>11. Used(d, X \ {e})
  <2> SUFFICES ASSUME NEW x \in Ids, x \notin ResidentIn(d), x \notin X \ {e}
               PROVE  c.usage[x] = 0
    BY <1>1 DEF Used
  <2>1. "t1" \in Lists /\ "t2" \in Lists
    BY DEF Lists
  <2>2. CASE x = e
    BY <1>6, <2>1, <2>2 DEF ResidentIn
  <2>3. CASE x # e
    BY <1>0, <1>6, <2>1, <2>3 DEF ResidentIn, Used
  <2> QED
    BY <2>2, <2>3
<1> QED
  BY <1>0, <1>1, <1>5, <1>6, <1>8, <1>9, <1>10, <1>11 DEF Well

(* cache_remove_from_list                                                   *)
LEMMA RemovedFromList ==
  ASSUME NEW c, NEW X, Well(c, X), NEW l \in Lists, NEW e \in In(c, l),
         NEW d, d = RemoveFromList(c, l, e)
  PROVE  /\ Well(d, X \cup {e})
         /\ In(d, l) = In(c, l) \ {e}
         /\ \A k \in Lists : k # l => In(d, k) = In(c, k) /\ d.list[k] = c.list[k]
         /\ d.where = c.where /\ d.hash = c.hash /\ d.bytes = c.bytes /\ d.usage = c.usage
         /\ d.target = c.target /\ d.insert = c.insert
<1> DEFINE s == c.list[l]
           i == CHOOSE k \in DOMAIN s : s[k] = e
           t == SubSeq(s, 1, i - 1) \o SubSeq(s, i + 1, Len(s))
<1>1. s \in Seq(Ids) /\ IsInjective(s)
  BY InTypes DEF Well, Listed
<1>2. i \in DOMAIN s /\ s[i] = e
  <2>1. \E k \in DOMAIN s : s[k] = e
    BY DEF In, Range
  <2> QED
    BY <2>1
<1>3. t \in Seq(Ids) /\ IsInjective(t) /\ Range(t) = In(c, l) \ {e}
  <2> HIDE DEF s, i
  <2>1. t \in Seq(Ids) /\ IsInjective(t) /\ Range(t) = Range(s) \ {s[i]}
    BY <1>1, <1>2, TakenOut
  <2> HIDE DEF t
  <2> QED
    BY <1>2, <2>1 DEF s, In
<1>4. d = [c EXCEPT !.list[l] = t, !.size[l] = @ - c.bytes[e]]
  BY DEF RemoveFromList
<1> HIDE DEF t, s, i
<1>5. TakesOut(c, l, e, t, d)
  BY <1>3, <1>4 DEF TakesOut
<1> QED
  BY <1>5, Taken

(* cache_remove                                                             *)
LEMMA Removed ==
  ASSUME NEW c, NEW X, Well(c, X), NEW e \in X, NEW d, d = Remove(c, e)
  PROVE  /\ Well(d, X \ {e})
         /\ ResidentIn(d) = ResidentIn(c) /\ \A l \in Lists : In(d, l) = In(c, l)
         /\ d.list = c.list /\ d.hash = c.hash \ {e} /\ d.usage = [c.usage EXCEPT ![e] = 0]
         /\ d.size = c.size /\ d.target = c.target /\ d.insert = c.insert
<1>0. c \in Caches /\ X \subseteq Ids /\ e \in Ids /\ Listed(c, X) /\ Used(c, X)
  BY DEF Well
<1>1. /\ d.list = c.list /\ d.size = c.size
      /\ d.where = [c.where EXCEPT ![e] = "none"] /\ d.hash = c.hash \ {e}
      /\ d.bytes = [c.bytes EXCEPT ![e] = 0] /\ d.usage = [c.usage EXCEPT ![e] = 0]
      /\ d.target = c.target /\ d.insert = c.insert
      /\ d \in Caches
  BY <1>0 DEF Caches, Remove
<1>2. d.hash = (c.hash \ X) \cup (X \ {e}) /\ (X \ {e}) \cap (c.hash \ X) = {}
  BY <1>0, <1>1 DEF Listed
<1>3. ASSUME NEW l \in Lists, NEW x \in In(c, l)
      PROVE  d.where[x] = c.where[x] /\ d.bytes[x] = c.bytes[x]
  <2>1. x # e /\ x \in Ids
    BY <1>0, InTypes DEF Listed
  <2>2. c.where \in [Ids -> Lists \cup {"none"}] /\ c.bytes \in [Ids -> Nat]
    BY <1>0 DEF Caches
  <2> QED
    BY <1>1, <2>1, <2>2
<1>4. \A x \in Ids : x \notin ResidentIn(c) /\ x \notin X \ {e} => d.usage[x] = 0
  <2>1. c.usage \in [Ids -> Nat]
    BY <1>0 DEF Caches
  <2> QED
    BY <1>0, <1>1, <2>1 DEF Used
<1>5. X \ {e} \in SUBSET Ids
  BY <1>0
<1>6. KeepsLists(c, X, d, X \ {e})
  BY <1>1, <1>2, <1>3, <1>4, <1>5 DEF KeepsLists
<1> QED
  BY <1>1, <1>6, SameLists

(* An entry in no list may have any length.                                 *)
LEMMA Resized ==
  ASSUME NEW c, NEW X, Well(c, X), NEW e \in X, NEW n \in Nat,
         NEW d, d = [c EXCEPT !.bytes[e] = n]
  PROVE  /\ Well(d, X) /\ d.bytes[e] = n
         /\ ResidentIn(d) = ResidentIn(c) /\ \A l \in Lists : In(d, l) = In(c, l)
         /\ d.list = c.list /\ d.hash = c.hash /\ d.usage = c.usage
         /\ d.target = c.target /\ d.insert = c.insert
<1>0. c \in Caches /\ X \subseteq Ids /\ e \in Ids /\ Listed(c, X) /\ Used(c, X)
  BY DEF Well
<1>1. /\ d.list = c.list /\ d.size = c.size /\ d.where = c.where /\ d.hash = c.hash
      /\ d.bytes = [c.bytes EXCEPT ![e] = n] /\ d.usage = c.usage
      /\ d.target = c.target /\ d.insert = c.insert
      /\ d \in Caches
  BY <1>0 DEF Caches
<1>2. d.hash = (c.hash \ X) \cup X /\ X \cap (c.hash \ X) = {}
  BY <1>0, <1>1 DEF Listed
<1>3. c.bytes \in [Ids -> Nat]
  BY <1>0 DEF Caches
<1>4. ASSUME NEW l \in Lists, NEW x \in In(c, l)
      PROVE  d.where[x] = c.where[x] /\ d.bytes[x] = c.bytes[x]
  <2>1. x # e /\ x \in Ids
    BY <1>0, InTypes DEF Listed
  <2> QED
    BY <1>1, <1>3, <2>1
<1>5. \A x \in Ids : x \notin ResidentIn(c) /\ x \notin X => d.usage[x] = 0
  BY <1>0, <1>1 DEF Used
<1>6. d.bytes[e] = n
  BY <1>0, <1>1, <1>3
<1>7. KeepsLists(c, X, d, X)
  BY <1>0, <1>1, <1>2, <1>4, <1>5 DEF KeepsLists
<1> QED
  BY <1>1, <1>6, <1>7, SameLists

-----------------------------------------------------------------------------
(* What is evicted is not in use.                                           *)
LEMMA LruUnused ==
  ASSUME NEW c, NEW X, Well(c, X), NEW l \in Lists, Unused(c, l) # {}
  PROVE  /\ Max(Unused(c, l)) \in Unused(c, l)
         /\ Lru(c, l) \in In(c, l) /\ c.usage[Lru(c, l)] = 0
<1> DEFINE n == Len(c.list[l])
           U == Unused(c, l)
           S == {n - i : i \in U}
<1>1. c.list[l] \in Seq(Ids)
  BY InTypes DEF Well
<1>2. n \in Nat /\ U \subseteq 1..n
  BY <1>1 DEF Unused
<1>3. S \subseteq Nat /\ S # {}
  BY <1>2
<1>4. PICK m \in S : \A y \in S : m <= y
  BY <1>3, LeastNumber
<1>5. PICK i \in U : m = n - i
  BY <1>4
<1>6. ASSUME NEW j \in U
      PROVE  i >= j
  <2>1. n - j \in S /\ i \in Nat /\ j \in Nat
    BY <1>2
  <2>2. n - i <= n - j
    BY <1>4, <1>5, <2>1
  <2> QED
    BY <1>2, <2>1, <2>2
<1>7. Max(U) \in U
  BY <1>5, <1>6 DEF Max
<1> QED
  BY <1>7 DEF Unused, Lru, In, Range

(* cache_remove_lru                                                         *)
LEMMA LruRemoved ==
  ASSUME NEW c, NEW X, Well(c, X), NEW l \in Lists, Unused(c, l) # {},
         NEW d, d = RemoveLru(c, l), NEW e, e = Lru(c, l)
  PROVE  /\ e \in In(c, l) /\ c.usage[e] = 0
         /\ Well(d, X \cup {e})
         /\ In(d, l) = In(c, l) \ {e}
         /\ \A k \in Lists : k # l => In(d, k) = In(c, k) /\ d.list[k] = c.list[k]
         /\ d.where = c.where /\ d.hash = c.hash /\ d.bytes = c.bytes /\ d.usage = c.usage
         /\ d.target = c.target /\ d.insert = c.insert
<1> DEFINE s == c.list[l]
           i == Max(Unused(c, l))
           t == SubSeq(s, i + 1, Len(s)) \o SubSeq(s, 1, i - 1)
<1>1. s \in Seq(Ids) /\ IsInjective(s)
  BY InTypes DEF Well, Listed
<1>2. i \in DOMAIN s /\ s[i] = e /\ e \in In(c, l) /\ c.usage[e] = 0
  BY LruUnused DEF Unused, Lru
<1>3. t \in Seq(Ids) /\ IsInjective(t) /\ Range(t) = In(c, l) \ {e}
  <2> HIDE DEF s, i
  <2>1. t \in Seq(Ids) /\ IsInjective(t) /\ Range(t) = Range(s) \ {s[i]}
    BY <1>1, <1>2, TakenOut
  <2> HIDE DEF t
  <2> QED
    BY <1>2, <2>1 DEF s, In
<1>4. d = [c EXCEPT !.list[l] = t, !.size[l] = @ - c.bytes[e]]
  BY <1>2 DEF RemoveLru
<1> HIDE DEF t, s, i
<1>5. TakesOut(c, l, e, t, d)
  BY <1>3, <1>4 DEF TakesOut
<1>6. Well(c, X) /\ l \in Lists /\ e \in In(c, l) /\ TakesOut(c, l, e, t, d)
  BY <1>2, <1>5
<1>7. /\ Well(d, X \cup {e})
      /\ In(d, l) = In(c, l) \ {e}
      /\ \A k \in Lists : k # l => In(d, k) = In(c, k) /\ d.list[k] = c.list[k]
      /\ d.where = c.where /\ d.hash = c.hash /\ d.bytes = c.bytes /\ d.usage = c.usage
      /\ d.target = c.target /\ d.insert = c.insert
  BY ONLY <1>6, Taken
<1> QED
  BY <1>2, <1>7

-----------------------------------------------------------------------------
(* Data that nobody uses are evicted, or none.                              *)
Frame(c, d) ==
  /\ d.usage = c.usage /\ d.insert = c.insert /\ d.target = c.target
  /\ d.hash \subseteq c.hash

Loses(c, d) ==
  \E x \in ResidentIn(c) : c.usage[x] = 0 /\ ResidentIn(d) = ResidentIn(c) \ {x}

LEMMA ListNames ==
  /\ Lists = {"t1", "t2", "b1", "b2"} /\ Ghosts["t1"] = "b1" /\ Ghosts["t2"] = "b2"
BY DEF Lists, Ghosts

(* Taking an entry out of one of the two lists of data.                     *)
LEMMA DataWithout ==
  ASSUME NEW c, NEW X, Well(c, X), NEW l \in {"t1", "t2"}, NEW e \in In(c, l), NEW d,
         In(d, l) = In(c, l) \ {e},
         \A k \in {"t1", "t2"} : k # l => In(d, k) = In(c, k)
  PROVE  ResidentIn(d) = ResidentIn(c) \ {e} /\ e \in ResidentIn(c)
<1>1. \A k \in {"t1", "t2"} : k # l => e \notin In(c, k)
  BY Apart, ListNames
<1> QED
  BY <1>1 DEF ResidentIn

(* cache_move                                                               *)
LEMMA Moved ==
  ASSUME NEW c, NEW X, Well(c, X), NEW l \in {"t1", "t2"}, Unused(c, l) # {},
         NEW d, d = Move(c, l)
  PROVE  Well(d, X) /\ Frame(c, d) /\ Loses(c, d)
<1> DEFINE e == Lru(c, l)
           c1 == RemoveLru(c, l)
           c2 == [c1 EXCEPT !.bytes[e] = Header]
           g == Ghosts[l]
<1>1. d = InsertMru(c2, g, e)
  BY DEF Move
<1>2. l \in Lists /\ g \in {"b1", "b2"} /\ g \in Lists
  BY ListNames
<1> HIDE DEF e, c1, g
<1>3. /\ e \in In(c, l) /\ c.usage[e] = 0
      /\ Well(c1, X \cup {e})
      /\ In(c1, l) = In(c, l) \ {e}
      /\ \A k \in Lists : k # l => In(c1, k) = In(c, k)
      /\ c1.hash = c.hash /\ c1.usage = c.usage
      /\ c1.target = c.target /\ c1.insert = c.insert
  BY <1>2, LruRemoved DEF e, c1
<1>4. Header \in Nat /\ e \in X \cup {e}
  BY FileCacheAssumption
<1>5. /\ Well(c2, X \cup {e}) /\ c2.bytes[e] = Header
      /\ \A k \in Lists : In(c2, k) = In(c1, k)
      /\ c2.hash = c1.hash /\ c2.usage = c1.usage
      /\ c2.target = c1.target /\ c2.insert = c1.insert
  BY <1>3, <1>4, Resized
<1> HIDE DEF c2
<1>6. c2.bytes[e] = Length(g, e) /\ c2.usage[e] = 0
  BY <1>2, <1>3, <1>5 DEF Length
<1>7. /\ Well(d, (X \cup {e}) \ {e})
      /\ \A k \in Lists : k # g => In(d, k) = In(c2, k)
      /\ d.hash = c2.hash /\ d.usage = c2.usage
      /\ d.target = c2.target /\ d.insert = c2.insert
  BY <1>1, <1>2, <1>4, <1>5, <1>6, Inserted
<1>8. e \notin X /\ (X \cup {e}) \ {e} = X
  BY <1>2, <1>3 DEF Well, Listed
<1>9. In(d, l) = In(c, l) \ {e} /\ \A k \in {"t1", "t2"} : k # l => In(d, k) = In(c, k)
  BY <1>2, <1>3, <1>5, <1>7, ListNames
<1>10. ResidentIn(d) = ResidentIn(c) \ {e} /\ e \in ResidentIn(c)
  BY <1>3, <1>9, DataWithout
<1> QED
  BY <1>3, <1>5, <1>7, <1>8, <1>10 DEF Frame, Loses

(* cache_remove_lru with the cache as an argument                           *)
LEMMA Forgot ==
  ASSUME NEW c, NEW X, Well(c, X), NEW l \in Lists, NEW d, d = Forget(c, l)
  PROVE  /\ Well(d, X) /\ Frame(c, d)
         /\ l \in {"b1", "b2"} => \A k \in {"t1", "t2"} : d.list[k] = c.list[k]
         /\ l \in {"t1", "t2"} /\ Unused(c, l) # {} => Loses(c, d)
         /\ Unused(c, l) = {} => d = c
<1>1. CASE Unused(c, l) = {}
  BY <1>1 DEF Forget, Frame
<1>2. CASE Unused(c, l) # {}
  <2> DEFINE e == Lru(c, l)
             c1 == RemoveLru(c, l)
  <2>1. d = Remove(c1, e)
    BY <1>2 DEF Forget
  <2> HIDE DEF e, c1
  <2>2. /\ e \in In(c, l) /\ c.usage[e] = 0
        /\ Well(c1, X \cup {e})
        /\ In(c1, l) = In(c, l) \ {e}
        /\ \A k \in Lists : k # l => In(c1, k) = In(c, k) /\ c1.list[k] = c.list[k]
        /\ c1.hash = c.hash /\ c1.usage = c.usage
        /\ c1.target = c.target /\ c1.insert = c.insert
    BY <1>2, LruRemoved DEF e, c1
  <2> DEFINE Y == X \cup {e}
  <2>3. e \in Y /\ Well(c1, Y)
    BY <2>2
  <2> HIDE DEF Y
  <2>4. /\ Well(d, Y \ {e})
        /\ \A k \in Lists : In(d, k) = In(c1, k)
        /\ d.list = c1.list /\ d.hash = c1.hash \ {e} /\ d.usage = [c1.usage EXCEPT ![e] = 0]
        /\ d.target = c1.target /\ d.insert = c1.insert
    BY <2>1, <2>3, Removed
  <2>5. e \notin X /\ Y \ {e} = X
    BY <2>2 DEF Well, Listed, Y
  <2>6. d.usage = c.usage
    <3>1. c.usage \in [Ids -> Nat]
      BY DEF Well, Caches
    <3> QED
      BY <2>2, <2>4, <3>1
  <2>7. Well(d, X) /\ Frame(c, d)
    BY <2>2, <2>4, <2>5, <2>6 DEF Frame
  <2>8. ASSUME l \in {"t1", "t2"}
        PROVE  Loses(c, d)
    <3>1. In(d, l) = In(c, l) \ {e} /\ \A k \in {"t1", "t2"} : k # l => In(d, k) = In(c, k)
      BY <2>2, <2>4, ListNames
    <3>2. ResidentIn(d) = ResidentIn(c) \ {e} /\ e \in ResidentIn(c)
      BY <2>2, <2>8, <3>1, DataWithout
    <3> QED
      BY <2>2, <3>2 DEF Loses
  <2>9. l \in {"b1", "b2"} => \A k \in {"t1", "t2"} : d.list[k] = c.list[k]
    BY <2>2, <2>4, ListNames
  <2> QED
    BY <1>2, <2>7, <2>8, <2>9
<1> QED
  BY <1>1, <1>2

(* cache_replace                                                            *)
LEMMA Replaced ==
  ASSUME NEW c, NEW X, Well(c, X), NEW d, d = Replace(c)
  PROVE  /\ Well(d, X) /\ Frame(c, d)
         /\ Loses(c, d) \/ (d = c /\ Unused(c, "t1") = {} /\ Unused(c, "t2") = {})
<1>1. \/ \E l \in {"t1", "t2"} : Unused(c, l) # {} /\ d = Move(c, l)
      \/ d = c /\ Unused(c, "t1") = {} /\ Unused(c, "t2") = {}
  BY DEF Replace, Move
<1>2. CASE \E l \in {"t1", "t2"} : Unused(c, l) # {} /\ d = Move(c, l)
  BY <1>2, Moved
<1> QED
  BY <1>1, <1>2 DEF Frame

(* cache_insert makes room for what was not there.                          *)
LEMMA RoomMade ==
  ASSUME NEW c, Well(c, {}), c.insert = "t1", NEW d, d = MakeRoom(c)
  PROVE  /\ Well(d, {}) /\ Frame(c, d)
         /\ \/ Loses(c, d)
            \/ ResidentIn(d) = ResidentIn(c) /\ (AllInUse(c) \/ Total(c) < Size)
<1>1. Size \in Nat /\ c.size \in [Lists -> Nat]
  BY FileCacheAssumption DEF Well, Caches
<1>2. /\ c.size["t1"] \in Nat /\ c.size["t2"] \in Nat
      /\ c.size["b1"] \in Nat /\ c.size["b2"] \in Nat
  BY <1>1, ListNames
<1>3. ASSUME NEW l \in {"b1", "b2"}, d = Replace(Forget(c, l)), Total(c) >= Size
      PROVE  /\ Well(d, {}) /\ Frame(c, d)
             /\ Loses(c, d) \/ (ResidentIn(d) = ResidentIn(c) /\ AllInUse(c))
  <2> DEFINE c1 == Forget(c, l)
  <2>1. /\ Well(c1, {}) /\ Frame(c, c1)
        /\ \A k \in {"t1", "t2"} : c1.list[k] = c.list[k]
    BY Forgot, ListNames
  <2> HIDE DEF c1
  <2>2. /\ ResidentIn(c1) = ResidentIn(c)
        /\ Unused(c1, "t1") = Unused(c, "t1") /\ Unused(c1, "t2") = Unused(c, "t2")
    BY <2>1 DEF ResidentIn, In, Unused, Frame
  <2>3. /\ Well(d, {}) /\ Frame(c1, d)
        /\ Loses(c1, d) \/ (d = c1 /\ Unused(c1, "t1") = {} /\ Unused(c1, "t2") = {})
    BY <1>3, <2>1, Replaced DEF c1
  <2>4. Loses(c1, d) => Loses(c, d)
    BY <2>1, <2>2 DEF Loses, Frame
  <2>5. Unused(c1, "t1") = {} /\ Unused(c1, "t2") = {} => AllInUse(c)
    BY <1>3, <2>2 DEF AllInUse
  <2>6. Frame(c, d)
    BY <2>1, <2>3 DEF Frame
  <2> QED
    BY <2>2, <2>3, <2>4, <2>5, <2>6
<1>4. CASE c.size["t1"] + c.size["b1"] >= Size
  <2>1. Total(c) >= Size
    BY <1>1, <1>2, <1>4 DEF Total
  <2>2. CASE c.size["t1"] < Size
    BY <1>3, <1>4, <2>1, <2>2 DEF MakeRoom
  <2>3. CASE ~(c.size["t1"] < Size)
    <3>1. d = Forget(c, "t1") /\ c.size["t1"] >= Size
      BY <1>1, <1>2, <1>4, <2>3 DEF MakeRoom
    <3>2. Well(d, {}) /\ Frame(c, d) /\ (Loses(c, d) \/ (d = c /\ Unused(c, "t1") = {}))
      BY <3>1, Forgot, ListNames
    <3>3. Unused(c, "t1") = {} => AllInUse(c)
      BY <2>1, <3>1 DEF AllInUse
    <3> QED
      BY <3>2, <3>3
  <2> QED
    BY <2>2, <2>3
<1>5. CASE ~(c.size["t1"] + c.size["b1"] >= Size)
  <2>1. CASE Total(c) >= 2 * Size
    <3>1. Total(c) >= Size
      BY <1>1, <1>2, <2>1 DEF Total
    <3> QED
      BY <1>3, <1>5, <2>1, <3>1 DEF MakeRoom
  <2>2. CASE ~(Total(c) >= 2 * Size) /\ Total(c) >= Size
    <3>1. d = Replace(c)
      BY <1>5, <2>2 DEF MakeRoom
    <3>2. /\ Well(d, {}) /\ Frame(c, d)
          /\ Loses(c, d) \/ (d = c /\ Unused(c, "t1") = {} /\ Unused(c, "t2") = {})
      BY <3>1, Replaced
    <3> QED
      BY <2>2, <3>2 DEF AllInUse
  <2>3. CASE ~(Total(c) >= 2 * Size) /\ ~(Total(c) >= Size)
    <3>1. d = c
      BY <1>5, <2>3 DEF MakeRoom
    <3>2. Total(c) < Size
      BY <1>1, <1>2, <2>3 DEF Total
    <3> QED
      BY <3>1, <3>2 DEF Frame
  <2> QED
    BY <2>1, <2>2, <2>3
<1> QED
  BY <1>4, <1>5

-----------------------------------------------------------------------------
(* cache_insert_new                                                         *)
LEMMA Entered ==
  ASSUME NEW c, Well(c, {}), c.insert \in {"t1", "t2"}, NEW e \in Ids, e \notin c.hash,
         NEW d, d = NewEntry(c, e)
  PROVE  /\ Well(d, {}) /\ d.usage = [c.usage EXCEPT ![e] = 1]
         /\ e \notin ResidentIn(c)
         /\ \/ /\ c.insert = "t1"
               /\ \E x \in ResidentIn(c) :
                    c.usage[x] = 0 /\ ResidentIn(d) = (ResidentIn(c) \ {x}) \cup {e}
            \/ /\ ResidentIn(d) = ResidentIn(c) \cup {e}
               /\ c.insert = "t1" => AllInUse(c) \/ Total(c) < Size
<1> DEFINE c1 == MakeRoom(c)
           c2 == [c1 EXCEPT !.bytes[e] = Header + Bytes[e], !.usage[e] = 1, !.hash = @ \cup {e}]
<1>1. d = InsertMru(c2, c.insert, e)
  BY DEF NewEntry
<1> HIDE DEF c1
<1>2. /\ Well(c1, {}) /\ Frame(c, c1)
      /\ \/ c.insert = "t1" /\ Loses(c, c1)
         \/ /\ ResidentIn(c1) = ResidentIn(c)
            /\ c.insert = "t1" => AllInUse(c) \/ Total(c) < Size
  <2>1. CASE c.insert = "t1"
    BY <2>1, RoomMade DEF c1
  <2>2. CASE c.insert # "t1"
    BY <2>2 DEF MakeRoom, c1, Frame
  <2> QED
    BY <2>1, <2>2
<1>3. Header + Bytes[e] \in Nat
  BY FileCacheAssumption
<1>4. c1 \in Caches /\ e \notin c1.hash
  BY <1>2 DEF Well, Frame
<1>5. /\ c2.list = c1.list /\ c2.size = c1.size /\ c2.where = c1.where
      /\ c2.hash = c1.hash \cup {e} /\ c2.bytes = [c1.bytes EXCEPT ![e] = Header + Bytes[e]]
      /\ c2.usage = [c1.usage EXCEPT ![e] = 1] /\ c2.insert = c1.insert
      /\ c2 \in Caches
  BY <1>3, <1>4 DEF Caches
<1> HIDE DEF c2
<1>6. \A l \in Lists : e \notin In(c1, l)
  BY <1>2, <1>4 DEF Well, Listed
<1>7. KeepsLists(c1, {}, c2, {e})
  <2>1. \A l \in Lists : \A x \in In(c1, l) : c2.where[x] = c1.where[x] /\ c2.bytes[x] = c1.bytes[x]
    <3>1. c1.bytes \in [Ids -> Nat]
      BY <1>4 DEF Caches
    <3> QED
      BY <1>4, <1>5, <1>6, <3>1, InTypes
  <2>2. \A x \in Ids : x \notin ResidentIn(c1) /\ x \notin {e} => c2.usage[x] = 0
    <3>1. c1.usage \in [Ids -> Nat]
      BY <1>4 DEF Caches
    <3> QED
      BY <1>2, <1>5, <3>1 DEF Well, Used
  <2>3. c2.hash = (c1.hash \ {}) \cup {e} /\ {e} \cap (c1.hash \ {}) = {}
    BY <1>4, <1>5
  <2> QED
    BY <1>5, <2>1, <2>2, <2>3 DEF KeepsLists
<1>8. /\ Well(c2, {e}) /\ ResidentIn(c2) = ResidentIn(c1)
      /\ \A l \in Lists : In(c2, l) = In(c1, l)
  BY <1>2, <1>7, SameLists
<1>9. c2.bytes[e] = Length(c.insert, e)
  <2>1. c1.bytes \in [Ids -> Nat]
    BY <1>4 DEF Caches
  <2> QED
    BY <1>5, <2>1 DEF Length
<1>10. c.insert \in Lists /\ e \in {e}
  BY ListNames
<1>11. /\ Well(d, {e} \ {e})
       /\ In(d, c.insert) = In(c2, c.insert) \cup {e}
       /\ \A k \in Lists : k # c.insert => In(d, k) = In(c2, k)
       /\ d.usage = c2.usage
  BY <1>1, <1>8, <1>9, <1>10, Inserted
<1>12. ResidentIn(d) = ResidentIn(c1) \cup {e}
  BY <1>8, <1>11, ListNames DEF ResidentIn
<1>13. Well(d, {}) /\ d.usage = [c.usage EXCEPT ![e] = 1]
  <2>1. {e} \ {e} = {}
    OBVIOUS
  <2> QED
    BY <1>2, <1>5, <1>11, <2>1 DEF Frame
<1>14. e \notin ResidentIn(c)
  BY ListNames DEF Well, Listed, ResidentIn
<1> QED
  BY <1>2, <1>12, <1>13, <1>14 DEF Loses

(* cache_lookup finds data.                                                 *)
LEMMA DataIs ==
  ASSUME NEW c, Well(c, {}), NEW e \in Ids
  PROVE  /\ InData(c, e) <=> e \in ResidentIn(c)
         /\ e \in c.hash => c.where[e] \in Lists /\ e \in In(c, c.where[e])
BY ListNames DEF Well, Listed, InData, ResidentIn

LEMMA Found ==
  ASSUME NEW c, Well(c, {}), NEW e \in Ids, InData(c, e), NEW d, d = Hit(c, e)
  PROVE  /\ Well(d, {}) /\ d.usage = [c.usage EXCEPT ![e] = @ + 1]
         /\ e \in ResidentIn(c) /\ ResidentIn(d) = ResidentIn(c)
<1> DEFINE l == c.where[e]
           c1 == [c EXCEPT !.usage[e] = @ + 1]
           c2 == RemoveFromList(c1, l, e)
<1>1. d = InsertMru(c2, "t2", e)
  BY DEF Hit
<1>2. l \in {"t1", "t2"} /\ l \in Lists /\ e \in In(c, l) /\ e \in ResidentIn(c)
  BY DataIs DEF InData
<1>3. c \in Caches /\ c.usage \in [Ids -> Nat]
  BY DEF Well, Caches
<1>4. /\ c1.list = c.list /\ c1.size = c.size /\ c1.where = c.where /\ c1.hash = c.hash
      /\ c1.bytes = c.bytes /\ c1.usage = [c.usage EXCEPT ![e] = @ + 1]
      /\ c1 \in Caches
  <2>1. [c.usage EXCEPT ![e] = @ + 1] \in [Ids -> Nat]
    BY <1>3
  <2>2. c1 = [c EXCEPT !.usage = [c.usage EXCEPT ![e] = @ + 1]]
    BY <1>3 DEF Caches
  <2> DEFINE u == [c.usage EXCEPT ![e] = @ + 1]
  <2> HIDE DEF u
  <2>3. u \in [Ids -> Nat] /\ c1 = [c EXCEPT !.usage = u]
    BY <2>1, <2>2 DEF u
  <2> HIDE DEF c1
  <2>4. /\ c1.list = c.list /\ c1.size = c.size /\ c1.where = c.where /\ c1.hash = c.hash
        /\ c1.bytes = c.bytes /\ c1.usage = u /\ c1 \in Caches
    BY <1>3, <2>3 DEF Caches
  <2> QED
    BY <2>4 DEF u
<1> HIDE DEF l, c1, c2
<1>5. KeepsLists(c, {}, c1, {})
  <2>1. \A x \in Ids : x \notin ResidentIn(c) /\ x \notin {} => c1.usage[x] = 0
    BY <1>2, <1>3, <1>4 DEF Well, Used
  <2> QED
    BY <1>4, <2>1 DEF KeepsLists
<1>6. Well(c1, {}) /\ ResidentIn(c1) = ResidentIn(c) /\ \A k \in Lists : In(c1, k) = In(c, k)
  BY <1>5, SameLists
<1>7. /\ Well(c2, {} \cup {e})
      /\ In(c2, l) = In(c1, l) \ {e}
      /\ \A k \in Lists : k # l => In(c2, k) = In(c1, k)
      /\ c2.bytes = c1.bytes /\ c2.usage = c1.usage
  BY <1>2, <1>6, RemovedFromList DEF c2
<1>8. c2.bytes[e] = Length("t2", e) /\ "t2" \in Lists /\ e \in {} \cup {e}
  <2>1. c.bytes[e] = Length(l, e)
    BY <1>2 DEF Well, Listed
  <2> QED
    BY <1>2, <1>4, <1>7, <2>1, ListNames DEF Length
<1>9. /\ Well(d, ({} \cup {e}) \ {e})
      /\ In(d, "t2") = In(c2, "t2") \cup {e}
      /\ \A k \in Lists : k # "t2" => In(d, k) = In(c2, k)
      /\ d.usage = c2.usage
  BY <1>1, <1>7, <1>8, Inserted
<1>10. ({} \cup {e}) \ {e} = {}
  OBVIOUS
<1>11. ResidentIn(d) = ResidentIn(c)
  BY <1>2, <1>6, <1>7, <1>9, ListNames DEF ResidentIn
<1> QED
  BY <1>2, <1>4, <1>7, <1>9, <1>10, <1>11

LEMMA TargetFits ==
  ASSUME NEW c, Well(c, {}), NEW e \in Ids, c.where[e] \in {"b1", "b2"},
         e \in In(c, c.where[e])
  PROVE  NewTarget(c, e) \in 0..Size
<1> DEFINE l == c.where[e]
<1>1. /\ c \in Caches /\ c.size \in [Lists -> Nat] /\ c.target \in 0..Size /\ Size \in Nat
      /\ c.bytes \in [Ids -> Nat]
  BY FileCacheAssumption DEF Well, Caches
<1>2. l \in Lists /\ c.size["b1"] \in Nat /\ c.size["b2"] \in Nat
  BY <1>1, ListNames
<1>3. c.size[l] > 0
  <2>1. In(c, l) \in SUBSET Ids /\ In(c, l) \ {e} \in SUBSET Ids
    BY <1>1, <1>2, InTypes
  <2>2. c.bytes[e] = Header
    BY <1>2 DEF Well, Listed, Length
  <2>3. Weight(c.bytes, In(c, l) \ {e}) = c.size[l] - Header
    BY <1>1, <1>2, <2>1, <2>2, WeightRemove DEF Well, Counted
  <2>4. Weight(c.bytes, In(c, l) \ {e}) \in Nat
    BY <1>1, <2>1, WeightFinite
  <2> QED
    BY <1>1, <1>2, <2>3, <2>4, FileCacheAssumption
<1>4. ASSUME NEW m \in Nat, NEW n \in Nat, n > 0
      PROVE  m \div n \in Int
  BY <1>4
<1>5. CASE l = "b1"
  <2>1. c.size["b2"] \div c.size["b1"] \in Int
    BY <1>2, <1>3, <1>4, <1>5
  <2>2. Bigger(c.size["b2"] \div c.size["b1"], 1) \in Nat
    BY <2>1 DEF Bigger
  <2> QED
    BY <1>1, <1>5, <2>2 DEF NewTarget, Smaller
<1>6. CASE l = "b2"
  <2>1. c.size["b1"] \div c.size["b2"] \in Int
    BY <1>2, <1>3, <1>4, <1>6
  <2>2. Bigger(c.size["b1"] \div c.size["b2"], 1) \in Nat
    BY <2>1 DEF Bigger
  <2>3. NewTarget(c, e) = Bigger(c.target - Bigger(c.size["b1"] \div c.size["b2"], 1), 0)
    BY <1>6 DEF NewTarget
  <2> QED
    BY <1>1, <2>2, <2>3 DEF Bigger
<1> QED
  BY <1>5, <1>6

(* The target and the list to insert in may change.                         *)
SameBooks(c, d) ==
  /\ d \in Caches
  /\ d.list = c.list /\ d.size = c.size /\ d.where = c.where /\ d.hash = c.hash
  /\ d.bytes = c.bytes /\ d.usage = c.usage

LEMMA Reset ==
  ASSUME NEW c, NEW X, Well(c, X), NEW d, SameBooks(c, d)
  PROVE  /\ Well(d, X) /\ ResidentIn(d) = ResidentIn(c)
         /\ \A l \in Lists : In(d, l) = In(c, l)
<1>1. c \in Caches /\ X \subseteq Ids /\ Listed(c, X) /\ Used(c, X)
  BY DEF Well
<1>2. d.hash = (c.hash \ X) \cup X /\ X \cap (c.hash \ X) = {}
  BY <1>1 DEF Listed, SameBooks
<1>3. KeepsLists(c, X, d, X)
  BY <1>1, <1>2 DEF KeepsLists, Used, SameBooks
<1> QED
  BY <1>3, SameLists

(* A ghost makes room for its data.                                         *)
LEMMA GhostFound ==
  ASSUME NEW c, Well(c, {}), NEW e \in Ids, e \in c.hash, ~InData(c, e),
         NEW d, d = GhostHit(c, e)
  PROVE  /\ Well(d, {}) /\ d.usage = c.usage /\ d.insert = "t2" /\ e \notin d.hash
         /\ \/ Loses(c, d)
            \/ ResidentIn(d) = ResidentIn(c) /\ (AllInUse(c) \/ Total(c) < Size)
<1> DEFINE l == c.where[e]
           c1 == [c EXCEPT !.target = NewTarget(c, e)]
           c2 == RemoveFromList(c1, l, e)
           c3 == Replace(c2)
           c4 == Remove(c3, e)
<1>1. d = [c4 EXCEPT !.insert = "t2"]
  BY DEF GhostHit
<1>2. l \in {"b1", "b2"} /\ l \in Lists /\ e \in In(c, l) /\ e \notin ResidentIn(c)
  BY DataIs, ListNames DEF InData
<1>3. NewTarget(c, e) \in 0..Size
  BY <1>2, TargetFits
<1>4. c \in Caches /\ c.usage \in [Ids -> Nat] /\ c.insert \in {"none", "t1", "t2"}
  BY DEF Well, Caches
<1>5. SameBooks(c, c1)
  <2>1. c1.target \in 0..Size
    BY <1>3, <1>4 DEF Caches
  <2> QED
    BY <1>3, <1>4, <2>1 DEF Caches, SameBooks
<1> HIDE DEF l, c1, c2, c3, c4
<1>6. /\ Well(c1, {}) /\ \A k \in Lists : In(c1, k) = In(c, k)
      /\ ResidentIn(c1) = ResidentIn(c)
      /\ c1.list = c.list /\ c1.hash = c.hash /\ c1.usage = c.usage
  <2>1. Well(c1, {}) /\ ResidentIn(c1) = ResidentIn(c) /\ \A k \in Lists : In(c1, k) = In(c, k)
    BY <1>5, Reset
  <2> QED
    BY <1>5, <2>1 DEF SameBooks
<1> DEFINE Y == {} \cup {e}
<1>7. /\ Well(c2, Y)
      /\ In(c2, l) = In(c1, l) \ {e}
      /\ \A k \in Lists : k # l => In(c2, k) = In(c1, k) /\ c2.list[k] = c1.list[k]
      /\ c2.hash = c1.hash /\ c2.usage = c1.usage
  <2>1. /\ Well(c1, {}) /\ l \in Lists /\ e \in In(c1, l)
        /\ c2 = RemoveFromList(c1, l, e)
    BY <1>2, <1>6 DEF c2
  <2> QED
    BY ONLY <2>1, RemovedFromList
<1>8. /\ ResidentIn(c2) = ResidentIn(c)
      /\ Unused(c2, "t1") = Unused(c, "t1") /\ Unused(c2, "t2") = Unused(c, "t2")
  BY <1>2, <1>6, <1>7, ListNames DEF ResidentIn, Unused
<1> HIDE DEF Y
<1>9. /\ Well(c3, Y) /\ Frame(c2, c3)
      /\ Loses(c2, c3) \/ (c3 = c2 /\ Unused(c2, "t1") = {} /\ Unused(c2, "t2") = {})
  BY <1>7, Replaced DEF c3
<1>10. e \in Y /\ Y \ {e} = {}
  BY DEF Y
<1>11. /\ Well(c4, Y \ {e}) /\ ResidentIn(c4) = ResidentIn(c3)
       /\ c4.hash = c3.hash \ {e} /\ c4.usage = [c3.usage EXCEPT ![e] = 0]
  BY <1>9, <1>10, Removed DEF c4
<1>12. c4.usage = c.usage
  <2>1. c.usage[e] = 0
    BY <1>2 DEF Well, Used
  <2>2. c3.usage = c.usage
    BY <1>6, <1>7, <1>9 DEF Frame
  <2> QED
    BY <1>4, <1>11, <2>1, <2>2
<1>13. c4 \in Caches /\ Well(c4, {})
  BY <1>10, <1>11 DEF Well
<1>14. SameBooks(c4, d) /\ d.insert = "t2"
  BY <1>1, <1>13 DEF Caches, SameBooks
<1>15. /\ Well(d, {}) /\ ResidentIn(d) = ResidentIn(c4)
       /\ d.hash = c4.hash /\ d.usage = c4.usage /\ d.insert = "t2"
  <2>1. Well(d, {}) /\ ResidentIn(d) = ResidentIn(c4)
    BY <1>13, <1>14, Reset
  <2> QED
    BY <1>14, <2>1 DEF SameBooks
<1>16. Loses(c2, c3) => Loses(c, d)
  BY <1>6, <1>7, <1>8, <1>11, <1>15 DEF Loses
<1>17. ASSUME Unused(c2, "t1") = {}, Unused(c2, "t2") = {}
       PROVE  AllInUse(c) \/ Total(c) < Size
  <2>1. Total(c) \in Nat /\ Size \in Nat
    <3>1. c.size \in [Lists -> Nat]
      BY <1>4 DEF Caches
    <3> QED
      BY <3>1, ListNames, FileCacheAssumption DEF Total
  <2> QED
    BY <1>8, <1>17, <2>1 DEF AllInUse
<1> QED
  BY <1>8, <1>9, <1>11, <1>12, <1>15, <1>16, <1>17

(* Data that were not there take the place of some that nobody uses, or     *)
(* more room: as there is, or as no other can be had.                       *)
Brings(c, e, d) ==
  /\ e \notin ResidentIn(c)
  /\ \/ \E x \in ResidentIn(c) :
          c.usage[x] = 0 /\ ResidentIn(d) = (ResidentIn(c) \ {x}) \cup {e}
     \/ ResidentIn(d) = ResidentIn(c) \cup {e} /\ (AllInUse(c) \/ Total(c) < Size)

LEMMA LookedUp ==
  ASSUME NEW c, Well(c, {}), NEW e \in Ids, NEW d, d = Lookup(c, e)
  PROVE  /\ Well(d, {}) /\ d.usage = [c.usage EXCEPT ![e] = @ + 1]
         /\ InData(c, e) => e \in ResidentIn(c) /\ ResidentIn(d) = ResidentIn(c)
         /\ ~InData(c, e) => Brings(c, e, d)
<1>0. c \in Caches /\ c.usage \in [Ids -> Nat]
  BY DEF Well, Caches
<1>1. CASE InData(c, e)
  BY <1>1, Found DEF Lookup
<1>2. ASSUME ~InData(c, e)
      PROVE  c.usage[e] = 0 /\ e \notin ResidentIn(c)
  BY <1>2, DataIs DEF Well, Used
<1>3. CASE ~InData(c, e) /\ e \in c.hash
  <2> DEFINE c1 == GhostHit(c, e)
  <2>1. d = NewEntry(c1, e)
    BY <1>3 DEF Lookup
  <2> HIDE DEF c1
  <2>2. /\ Well(c1, {}) /\ c1.usage = c.usage /\ c1.insert = "t2" /\ e \notin c1.hash
        /\ \/ Loses(c, c1)
           \/ ResidentIn(c1) = ResidentIn(c) /\ (AllInUse(c) \/ Total(c) < Size)
    BY <1>3, GhostFound DEF c1
  <2>3. /\ Well(d, {}) /\ d.usage = [c1.usage EXCEPT ![e] = 1]
        /\ ResidentIn(d) = ResidentIn(c1) \cup {e}
    BY <2>1, <2>2, Entered
  <2>4. d.usage = [c.usage EXCEPT ![e] = @ + 1]
    BY <1>0, <1>2, <1>3, <2>2, <2>3
  <2>5. Brings(c, e, d)
    BY <1>2, <1>3, <2>2, <2>3 DEF Brings, Loses
  <2> QED
    BY <1>3, <2>3, <2>4, <2>5
<1>4. CASE ~InData(c, e) /\ e \notin c.hash
  <2> DEFINE c1 == Miss(c)
  <2>1. d = NewEntry(c1, e)
    BY <1>4 DEF Lookup
  <2>2. SameBooks(c, c1) /\ c1.insert = "t1"
    BY <1>0 DEF Miss, Caches, SameBooks
  <2> HIDE DEF c1
  <2>3. /\ Well(c1, {}) /\ ResidentIn(c1) = ResidentIn(c)
        /\ c1.list = c.list /\ c1.size = c.size /\ c1.hash = c.hash
        /\ c1.usage = c.usage /\ c1.insert = "t1"
    <3>1. Well(c1, {}) /\ ResidentIn(c1) = ResidentIn(c)
      BY <2>2, Reset
    <3> QED
      BY <2>2, <3>1 DEF SameBooks
  <2>4. (AllInUse(c1) <=> AllInUse(c)) /\ Total(c1) = Total(c)
    BY <2>3 DEF AllInUse, Total, Unused
  <2>5. /\ Well(d, {}) /\ d.usage = [c1.usage EXCEPT ![e] = 1]
        /\ \/ \E x \in ResidentIn(c1) :
                c1.usage[x] = 0 /\ ResidentIn(d) = (ResidentIn(c1) \ {x}) \cup {e}
           \/ /\ ResidentIn(d) = ResidentIn(c1) \cup {e}
              /\ AllInUse(c1) \/ Total(c1) < Size
    BY <1>4, <2>1, <2>3, Entered
  <2>6. d.usage = [c.usage EXCEPT ![e] = @ + 1]
    BY <1>0, <1>2, <1>4, <2>3, <2>5
  <2>7. Brings(c, e, d)
    BY <1>2, <1>4, <2>3, <2>4, <2>5 DEF Brings
  <2> QED
    BY <1>4, <2>5, <2>6, <2>7
<1> QED
  BY <1>1, <1>3, <1>4

-----------------------------------------------------------------------------
(* cache_entry_destroy                                                      *)
LEMMA GivenBack ==
  ASSUME NEW c, Well(c, {}), NEW e \in Ids, c.usage[e] > 0, NEW d, d = EntryDestroy(c, e)
  PROVE  /\ Well(d, {}) /\ ResidentIn(d) = ResidentIn(c)
         /\ d.usage = [c.usage EXCEPT ![e] = @ - 1]
<1>0. c \in Caches /\ c.usage \in [Ids -> Nat]
  BY DEF Well, Caches
<1>1. e \in ResidentIn(c)
  BY <1>0 DEF Well, Used
<1> DEFINE u == [c.usage EXCEPT ![e] = @ - 1]
<1>2. u \in [Ids -> Nat]
  BY <1>0
<1>3. d = [c EXCEPT !.usage = u]
  BY <1>0 DEF EntryDestroy, Caches
<1>4. \A x \in Ids : x # e => u[x] = c.usage[x]
  BY <1>0
<1> HIDE DEF u
<1>5. /\ d \in Caches /\ d.list = c.list /\ d.size = c.size /\ d.hash = c.hash
      /\ d.where = c.where /\ d.bytes = c.bytes /\ d.usage = u
  BY <1>0, <1>2, <1>3 DEF Caches
<1>6. KeepsLists(c, {}, d, {})
  BY <1>1, <1>4, <1>5 DEF KeepsLists, Well, Used
<1> QED
  BY <1>5, <1>6, SameLists DEF u

(* cache_flush                                                              *)
LEMMA Flushed ==
  ASSUME NEW c, Well(c, {}), NEW e \in Ids, e \in ResidentIn(c),
         NEW d, d = Remove(RemoveFromList(c, c.where[e], e), e)
  PROVE  /\ Well(d, {}) /\ ResidentIn(d) = ResidentIn(c) \ {e}
         /\ d.usage = [c.usage EXCEPT ![e] = 0]
<1> DEFINE l == c.where[e]
           c1 == RemoveFromList(c, l, e)
           Y == {} \cup {e}
<1>1. l \in {"t1", "t2"} /\ l \in Lists /\ e \in In(c, l)
  BY ListNames DEF Well, Listed, ResidentIn
<1> HIDE DEF l
<1>2. /\ Well(c1, Y)
      /\ In(c1, l) = In(c, l) \ {e}
      /\ \A k \in Lists : k # l => In(c1, k) = In(c, k)
      /\ c1.usage = c.usage
  BY <1>1, RemovedFromList
<1>3. d = Remove(c1, e)
  BY DEF l
<1> HIDE DEF c1, Y
<1>4. e \in Y /\ Y \ {e} = {}
  BY DEF Y
<1>5. /\ Well(d, Y \ {e}) /\ ResidentIn(d) = ResidentIn(c1)
      /\ d.usage = [c1.usage EXCEPT ![e] = 0]
  BY <1>2, <1>3, <1>4, Removed
<1>6. ResidentIn(c1) = ResidentIn(c) \ {e}
  BY <1>1, <1>2, ListNames, DataWithout
<1> QED
  BY <1>2, <1>4, <1>5, <1>6

(* file_cache_init                                                          *)
LEMMA EmptyWell ==
  /\ Well(Empty, {}) /\ ResidentIn(Empty) = {} /\ Empty.usage = [e \in Ids |-> 0]
<1>1. \A l \in Lists : Empty.list[l] = <<>> /\ Empty.size[l] = 0
  BY DEF Empty
<1>2. \A l \in Lists : In(Empty, l) = {} /\ IsInjective(Empty.list[l])
  BY <1>1 DEF In, Range, IsInjective
<1>3. ResidentIn(Empty) = {}
  BY <1>2, ListNames DEF ResidentIn
<1>4. Empty \in Caches
  <2>1. <<>> \in Seq(Ids) /\ 0 \in 0..Size
    BY FileCacheAssumption
  <2> QED
    BY <2>1 DEF Empty, Caches
<1>5. Listed(Empty, {})
  BY <1>2 DEF Listed, Empty
<1>6. Counted(Empty)
  <2>1. \A b : Weight(b, {}) = 0
    BY FS_EmptySet DEF Weight, Weighed
  <2> QED
    BY <1>1, <1>2, <2>1 DEF Counted
<1>7. Used(Empty, {}) /\ Empty.usage = [e \in Ids |-> 0]
  BY DEF Used, Empty
<1> QED
  BY <1>3, <1>4, <1>5, <1>6, <1>7 DEF Well

-----------------------------------------------------------------------------
LEMMA Quotient ==
  ASSUME NEW m \in Nat, NEW n \in Nat, NEW s \in Nat \ {0}, n * s <= m
  PROVE  n <= m \div s
OBVIOUS

Smallest == Header + Min({Bytes[e] : e \in Ids})

LEMMA SmallestIs ==
  Smallest \in Nat \ {0} /\ \A e \in Ids : Smallest <= Header + Bytes[e]
<1> DEFINE S == {Bytes[e] : e \in Ids}
<1>1. S \subseteq Nat /\ S # {}
  BY FileCacheAssumption
<1>2. PICK m \in S : \A y \in S : m <= y
  BY <1>1, LeastNumber
<1>3. Min(S) \in S /\ \A y \in S : Min(S) <= y
  BY <1>2 DEF Min
<1>4. Smallest = Header + Min(S)
  BY DEF Smallest
<1>5. \A e \in Ids : Bytes[e] \in S
  OBVIOUS
<1>6. Header \in Nat /\ Header # 0
  BY FileCacheAssumption
<1>7. \A e \in Ids : Bytes[e] \in Nat
  BY FileCacheAssumption
<1> HIDE DEF S
<1> DEFINE k == Min(S)
<1>8. k \in Nat /\ \A e \in Ids : k <= Bytes[e]
  BY <1>1, <1>3, <1>5
<1> HIDE DEF k
<1>9. Header + k \in Nat \ {0} /\ \A e \in Ids : Header + k <= Header + Bytes[e]
  BY <1>6, <1>7, <1>8
<1> QED
  BY <1>4, <1>9 DEF k

(* A cache whose lists are not full has no more data than fit.              *)
LEMMA FewFit ==
  ASSUME NEW c, Well(c, {}), Total(c) < Size
  PROVE  Cardinality(ResidentIn(c)) <= (Size - 1) \div Smallest
<1> DEFINE A == In(c, "t1")
           B == In(c, "t2")
<1>1. c \in Caches /\ c.bytes \in [Ids -> Nat] /\ c.size \in [Lists -> Nat]
  BY DEF Well, Caches
<1>2. /\ c.size["t1"] \in Nat /\ c.size["t2"] \in Nat
      /\ c.size["b1"] \in Nat /\ c.size["b2"] \in Nat
  BY <1>1, ListNames
<1>3. A \in SUBSET Ids /\ B \in SUBSET Ids /\ A \cap B = {}
  BY <1>1, ListNames, InTypes, Apart
<1>4. /\ \A e \in A : Smallest <= c.bytes[e]
      /\ \A e \in B : Smallest <= c.bytes[e]
  BY <1>3, ListNames, SmallestIs DEF Well, Listed, Length
<1>5. Smallest \in Nat \ {0} /\ Smallest \in Nat
  BY SmallestIs
<1>6. Weight(c.bytes, A) = c.size["t1"] /\ Weight(c.bytes, B) = c.size["t2"]
  BY ListNames DEF Well, Counted
<1> HIDE DEF A, B
<1>7. /\ Cardinality(A) * Smallest <= c.size["t1"]
      /\ Cardinality(B) * Smallest <= c.size["t2"]
  BY <1>1, <1>3, <1>4, <1>5, <1>6, WeightAtLeast
<1>8. IsFiniteSet(A) /\ IsFiniteSet(B)
  BY <1>3, FS_Subset, FileCacheAssumption
<1>9. Cardinality(A) \in Nat /\ Cardinality(B) \in Nat
  BY <1>8, FS_CardinalityType
<1>10. Cardinality(A \cup B) = Cardinality(A) + Cardinality(B)
  <2>1. Cardinality(A \cup B) = Cardinality(A) + Cardinality(B) - Cardinality(A \cap B)
    BY <1>8, FS_Union
  <2>2. Cardinality(A \cap B) = 0
    BY <1>3, FS_EmptySet
  <2> QED
    BY <1>9, <2>1, <2>2
<1>11. Size \in Nat \ {0}
  BY FileCacheAssumption
<1>12. (Cardinality(A) + Cardinality(B)) * Smallest <= Size - 1
  <2> DEFINE x == Cardinality(A) * Smallest
             y == Cardinality(B) * Smallest
  <2>1. (Cardinality(A) + Cardinality(B)) * Smallest = x + y
    BY <1>5, <1>9
  <2>2. x \in Nat /\ y \in Nat
    BY <1>5, <1>9
  <2>3. x <= c.size["t1"] /\ y <= c.size["t2"]
    BY <1>7
  <2> HIDE DEF x, y
  <2>4. x + y <= Size - 1
    BY <1>2, <1>11, <2>2, <2>3 DEF Total
  <2> QED
    BY <2>1, <2>4
<1>13. Size - 1 \in Nat /\ Cardinality(A) + Cardinality(B) \in Nat
  BY <1>9, <1>11
<1>14. Cardinality(A) + Cardinality(B) <= (Size - 1) \div Smallest
  BY <1>5, <1>12, <1>13, Quotient
<1> QED
  BY <1>10, <1>14 DEF ResidentIn, A, B

-----------------------------------------------------------------------------
(* One more datum, and one fewer or room enough.                            *)
Few(c) == Cardinality(ResidentIn(c)) <= 1 + (Size - 1) \div Smallest

LEMMA BroughtIn ==
  ASSUME NEW c, Well(c, {}), NEW e \in Ids, NEW d, Brings(c, e, d)
  PROVE  /\ e \notin ResidentIn(c) /\ e \in ResidentIn(d)
         /\ ResidentIn(d) \ {e} \subseteq ResidentIn(c)
         /\ \A x \in ResidentIn(c) \ ResidentIn(d) : c.usage[x] = 0
         /\ \A x, y \in ResidentIn(c) \ ResidentIn(d) : x = y
         /\ Few(c) => AllInUse(c) \/ Few(d)
<1> DEFINE R == ResidentIn(c)
           D == ResidentIn(d)
           q == (Size - 1) \div Smallest
<1>1. R \in SUBSET Ids
  BY ListNames, InTypes DEF ResidentIn, Well
<1>2. IsFiniteSet(R) /\ Cardinality(R) \in Nat
  BY <1>1, FS_Subset, FS_CardinalityType, FileCacheAssumption
<1>3. q \in Int
  <2>1. Size - 1 \in Nat
    BY FileCacheAssumption
  <2> QED
    BY <2>1, SmallestIs
<1>4. /\ e \notin R
      /\ \/ \E x \in R : c.usage[x] = 0 /\ D = (R \ {x}) \cup {e}
         \/ D = R \cup {e} /\ (AllInUse(c) \/ Total(c) < Size)
  BY DEF Brings
<1>5. Total(c) < Size => Cardinality(R) <= q
  BY FewFit
<1>6. /\ Few(c) <=> Cardinality(R) <= 1 + q
      /\ Few(d) <=> Cardinality(D) <= 1 + q
  BY DEF Few
<1> HIDE DEF R, D, q
<1>7. CASE \E x \in R : c.usage[x] = 0 /\ D = (R \ {x}) \cup {e}
  <2>1. PICK x \in R : c.usage[x] = 0 /\ D = (R \ {x}) \cup {e}
    BY <1>7
  <2>2. R \ D = {x}
    BY <1>4, <2>1
  <2>3. IsFiniteSet(R \ {x}) /\ Cardinality(R \ {x}) = Cardinality(R) - 1
    BY <1>2, FS_RemoveElement
  <2>4. Cardinality(D) = Cardinality(R \ {x}) + 1
    BY <1>4, <2>1, <2>3, FS_AddElement
  <2>5. Cardinality(D) = Cardinality(R)
    BY <1>2, <2>3, <2>4
  <2>6. /\ e \in D /\ D \ {e} \subseteq R /\ \A y \in R \ D : c.usage[y] = 0
        /\ \A x1, x2 \in R \ D : x1 = x2
    BY <2>1, <2>2
  <2>7. Few(c) => Few(d)
    BY <1>6, <2>5
  <2> QED
    BY <1>4, <2>6, <2>7 DEF R, D
<1>8. CASE D = R \cup {e} /\ (AllInUse(c) \/ Total(c) < Size)
  <2>1. R \ D = {}
    BY <1>8
  <2>2. Cardinality(D) = Cardinality(R) + 1
    BY <1>2, <1>4, <1>8, FS_AddElement
  <2>3. AllInUse(c) \/ Cardinality(D) <= 1 + q
    BY <1>2, <1>3, <1>5, <1>8, <2>2
  <2> QED
    BY <1>4, <1>6, <1>8, <2>1, <2>3 DEF R, D
<1> QED
  BY <1>4, <1>7, <1>8

-----------------------------------------------------------------------------
(* The inductive invariant.                                                 *)
CacheInv ==
  /\ Well(cache, {})
  /\ held \in [Ids -> 0..MaxHeld] /\ wrecked \in BOOLEAN /\ crowded \in BOOLEAN
  /\ ~wrecked => cache.usage = held
  /\ ~crowded => Few(cache)

LEMMA ResidentIs ==
  /\ Resident = ResidentIn(cache) /\ Resident' = ResidentIn(cache')
BY DEF Resident, Members, ResidentIn, In

(* Who holds all that the model lets anybody hold reads nothing.            *)
LEMMA HeldFits ==
  ASSUME held \in [Ids -> 0..MaxHeld], NEW e \in Ids,
         Cardinality({h \in Ids \X (1..MaxHeld) : h[2] <= held[h[1]]}) < MaxHeld
  PROVE  held[e] < MaxHeld
<1> DEFINE S == {h \in Ids \X (1..MaxHeld) : h[2] <= held[h[1]]}
           own == {e} \X (1..MaxHeld)
<1>1. MaxHeld \in Nat /\ IsFiniteSet(Ids)
  BY FileCacheAssumption
<1>2. SUFFICES ASSUME held[e] = MaxHeld
               PROVE  FALSE
  BY <1>1
<1>3. IsFiniteSet(1..MaxHeld) /\ Cardinality(1..MaxHeld) = MaxHeld
  BY <1>1, FS_Interval
<1>4. IsFiniteSet({e}) /\ Cardinality({e}) = 1
  BY FS_Singleton
<1>5. IsFiniteSet(Ids \X (1..MaxHeld))
  BY <1>1, <1>3, FS_Product
<1>6. Cardinality(own) = Cardinality({e}) * Cardinality(1..MaxHeld)
  BY <1>3, <1>4, FS_Product
<1>7. S \subseteq Ids \X (1..MaxHeld)
  OBVIOUS
<1>8. own \subseteq S
  BY <1>1, <1>2
<1>9. Cardinality(S) < MaxHeld
  OBVIOUS
<1> HIDE DEF S, own
<1>10. IsFiniteSet(S)
  BY <1>5, <1>7, FS_Subset
<1>11. Cardinality(own) <= Cardinality(S) /\ Cardinality(S) \in Nat
  BY <1>8, <1>10, FS_Subset, FS_CardinalityType
<1>12. Cardinality(own) = MaxHeld
  BY <1>1, <1>3, <1>4, <1>6
<1> QED
  BY <1>1, <1>9, <1>11, <1>12

-----------------------------------------------------------------------------
(* Each action keeps the invariant and is a step of DataPool.               *)
LEMMA InitKeeps ==
  ASSUME Init
  PROVE  CacheInv /\ Pool!Init
<1>1. cache = Empty /\ held = [e \in Ids |-> 0] /\ wrecked = FALSE /\ crowded = FALSE
  BY DEF Init
<1>2. Few(cache)
  <2>1. Cardinality({}) = 0
    BY FS_EmptySet
  <2>2. (Size - 1) \div Smallest \in Nat
    <3>1. Size - 1 \in Nat
      BY FileCacheAssumption
    <3> QED
      BY <3>1, SmallestIs
  <2> QED
    BY <1>1, <2>1, <2>2, EmptyWell DEF Few
<1>3. held \in [Ids -> 0..MaxHeld]
  BY <1>1, FileCacheAssumption
<1>4. CacheInv
  BY <1>1, <1>2, <1>3, EmptyWell DEF CacheInv
<1> QED
  BY <1>1, <1>4, EmptyWell, ResidentIs DEF Pool!Init

(* What a lookup does to the data there are.                                *)
LEMMA Looked ==
  ASSUME CacheInv, ~wrecked, NEW e \in Ids, NEW d, d = Lookup(cache, e)
  PROVE  /\ Well(d, {}) /\ d.usage = [held EXCEPT ![e] = @ + 1]
         /\ cache.usage = held
         /\ InData(cache, e) =>
              /\ e \in ResidentIn(cache) /\ ResidentIn(d) = ResidentIn(cache)
              /\ Few(cache) => Few(d)
         /\ ~InData(cache, e) =>
              e \notin ResidentIn(cache) /\ (Few(cache) => AllInUse(cache) \/ Few(d))
         /\ e \in ResidentIn(cache) => ResidentIn(cache) \ ResidentIn(d) = {}
         /\ e \in ResidentIn(d) /\ ResidentIn(d) \ {e} \subseteq ResidentIn(cache)
         /\ \A x \in ResidentIn(cache) \ ResidentIn(d) : held[x] = 0
         /\ \A x, y \in ResidentIn(cache) \ ResidentIn(d) : x = y
<1>1. Well(cache, {}) /\ cache.usage = held
  BY DEF CacheInv
<1>2. /\ Well(d, {}) /\ d.usage = [cache.usage EXCEPT ![e] = @ + 1]
      /\ InData(cache, e) => e \in ResidentIn(cache) /\ ResidentIn(d) = ResidentIn(cache)
      /\ ~InData(cache, e) => Brings(cache, e, d)
  BY <1>1, LookedUp
<1>3. CASE InData(cache, e)
  <2>1. ResidentIn(cache) \ ResidentIn(d) = {}
    BY <1>2, <1>3
  <2> QED
    BY <1>1, <1>2, <1>3, <2>1 DEF Few
<1>4. CASE ~InData(cache, e)
  BY <1>1, <1>2, <1>4, BroughtIn
<1> QED
  BY <1>3, <1>4

LEMMA ReadKeeps ==
  ASSUME CacheInv, NEW e \in Ids, Read(e)
  PROVE  CacheInv' /\ Pool!Take(e)
<1>1. /\ ~wrecked
      /\ Cardinality({h \in Ids \X (1..MaxHeld) : h[2] <= held[h[1]]}) < MaxHeld
      /\ cache' = Lookup(cache, e)
      /\ held' = [held EXCEPT ![e] = @ + 1]
      /\ crowded' = (crowded \/ (~InData(cache, e) /\ AllInUse(cache)))
      /\ wrecked' = wrecked
  BY DEF Read
<1>2. /\ held \in [Ids -> 0..MaxHeld] /\ wrecked \in BOOLEAN /\ crowded \in BOOLEAN
      /\ ~crowded => Few(cache)
  BY DEF CacheInv
<1>3. /\ Well(cache', {}) /\ cache'.usage = [held EXCEPT ![e] = @ + 1]
      /\ InData(cache, e) => (Few(cache) => Few(cache'))
      /\ ~InData(cache, e) => (Few(cache) => AllInUse(cache) \/ Few(cache'))
      /\ e \in ResidentIn(cache') /\ ResidentIn(cache') \ {e} \subseteq ResidentIn(cache)
      /\ \A x \in ResidentIn(cache) \ ResidentIn(cache') : held[x] = 0
      /\ e \in ResidentIn(cache) => ResidentIn(cache) \ ResidentIn(cache') = {}
      /\ \A x, y \in ResidentIn(cache) \ ResidentIn(cache') : x = y
  BY <1>1, Looked
<1>4. held' \in [Ids -> 0..MaxHeld]
  <2>1. held[e] < MaxHeld
    BY <1>1, <1>2, HeldFits
  <2> QED
    BY <1>1, <1>2, <2>1, FileCacheAssumption
<1>5. CacheInv'
  <2>1. (~crowded => Few(cache))'
    BY <1>1, <1>2, <1>3 DEF Few
  <2>2. crowded' \in BOOLEAN /\ wrecked' \in BOOLEAN
    BY <1>1, <1>2
  <2> QED
    BY <1>1, <1>3, <1>4, <2>1, <2>2 DEF CacheInv
<1>6. Pool!Take(e)
  BY <1>1, <1>3, ResidentIs DEF Pool!Take, Pool!BringIn
<1> QED
  BY <1>5, <1>6

LEMMA ReadFailsKeeps ==
  ASSUME CacheInv, NEW e \in Ids, ReadFails(e)
  PROVE  CacheInv' /\ Pool!TakeInVain(e)
<1> DEFINE d == Lookup(cache, e)
<1>1. /\ ~wrecked /\ ~InData(cache, e)
      /\ cache' = EntryDestroy(d, e)
      /\ held' = held /\ wrecked' = wrecked
      /\ crowded' = (crowded \/ AllInUse(cache))
  BY DEF ReadFails
<1>2. /\ held \in [Ids -> 0..MaxHeld] /\ wrecked \in BOOLEAN /\ crowded \in BOOLEAN
      /\ ~crowded => Few(cache)
  BY DEF CacheInv
<1>3. /\ Well(d, {}) /\ d.usage = [held EXCEPT ![e] = @ + 1]
      /\ e \notin ResidentIn(cache) /\ (Few(cache) => AllInUse(cache) \/ Few(d))
      /\ e \in ResidentIn(d) /\ ResidentIn(d) \ {e} \subseteq ResidentIn(cache)
      /\ \A x \in ResidentIn(cache) \ ResidentIn(d) : held[x] = 0
      /\ e \in ResidentIn(cache) => ResidentIn(cache) \ ResidentIn(d) = {}
      /\ \A x, y \in ResidentIn(cache) \ ResidentIn(d) : x = y
  BY <1>1, Looked
<1> HIDE DEF d
<1>4. /\ Well(cache', {}) /\ ResidentIn(cache') = ResidentIn(d)
      /\ cache'.usage = [d.usage EXCEPT ![e] = @ - 1]
  <2>1. d.usage[e] > 0
    BY <1>2, <1>3
  <2> QED
    BY <1>1, <1>3, <2>1, GivenBack
<1>5. cache'.usage = held
  BY <1>2, <1>3, <1>4
<1>6. CacheInv'
  <2>1. (~crowded => Few(cache))'
    BY <1>1, <1>2, <1>3, <1>4 DEF Few
  <2> QED
    BY <1>1, <1>2, <1>4, <1>5, <2>1 DEF CacheInv
<1>7. Pool!TakeInVain(e)
  BY <1>1, <1>3, <1>4, ResidentIs DEF Pool!TakeInVain, Pool!BringIn
<1> QED
  BY <1>6, <1>7

LEMMA InflateFailsKeeps ==
  ASSUME CacheInv, NEW e \in Ids, InflateFails(e)
  PROVE  CacheInv' /\ Pool!TakeInVain(e)
<1>1. /\ ~wrecked /\ ~InData(cache, e)
      /\ cache' = Lookup(cache, e)
      /\ held' = held /\ wrecked' = TRUE
      /\ crowded' = (crowded \/ AllInUse(cache))
  BY DEF InflateFails
<1>2. /\ held \in [Ids -> 0..MaxHeld] /\ crowded \in BOOLEAN
      /\ ~crowded => Few(cache)
  BY DEF CacheInv
<1>3. /\ Well(cache', {})
      /\ e \notin ResidentIn(cache) /\ (Few(cache) => AllInUse(cache) \/ Few(cache'))
      /\ e \in ResidentIn(cache') /\ ResidentIn(cache') \ {e} \subseteq ResidentIn(cache)
      /\ \A x \in ResidentIn(cache) \ ResidentIn(cache') : held[x] = 0
      /\ e \in ResidentIn(cache) => ResidentIn(cache) \ ResidentIn(cache') = {}
      /\ \A x, y \in ResidentIn(cache) \ ResidentIn(cache') : x = y
  BY <1>1, Looked
<1>4. CacheInv'
  <2>1. (~crowded => Few(cache))'
    BY <1>1, <1>2, <1>3 DEF Few
  <2> QED
    BY <1>1, <1>2, <1>3, <2>1 DEF CacheInv
<1>5. Pool!TakeInVain(e)
  BY <1>1, <1>3, ResidentIs DEF Pool!TakeInVain, Pool!BringIn
<1> QED
  BY <1>4, <1>5

LEMMA FreeKeeps ==
  ASSUME CacheInv, NEW e \in Ids, Free(e)
  PROVE  CacheInv' /\ Pool!GiveBack(e)
<1>1. /\ ~wrecked /\ held[e] > 0
      /\ cache' = EntryDestroy(cache, e)
      /\ held' = [held EXCEPT ![e] = @ - 1]
      /\ wrecked' = wrecked /\ crowded' = crowded
  BY DEF Free
<1>2. /\ Well(cache, {}) /\ cache.usage = held
      /\ held \in [Ids -> 0..MaxHeld] /\ wrecked \in BOOLEAN /\ crowded \in BOOLEAN
      /\ ~crowded => Few(cache)
  BY <1>1 DEF CacheInv
<1>3. /\ Well(cache', {}) /\ ResidentIn(cache') = ResidentIn(cache)
      /\ cache'.usage = [cache.usage EXCEPT ![e] = @ - 1]
  BY <1>1, <1>2, GivenBack
<1>4. held' \in [Ids -> 0..MaxHeld]
  BY <1>1, <1>2, FileCacheAssumption
<1>5. CacheInv'
  <2>1. (~crowded => Few(cache))'
    BY <1>1, <1>2, <1>3 DEF Few
  <2> QED
    BY <1>1, <1>2, <1>3, <1>4, <2>1 DEF CacheInv
<1>6. Pool!GiveBack(e)
  BY <1>1, <1>3, ResidentIs DEF Pool!GiveBack
<1> QED
  BY <1>5, <1>6

LEMMA FlushDataKeeps ==
  ASSUME CacheInv, NEW e \in Ids, FlushData(e)
  PROVE  CacheInv' /\ Pool!Discard(e)
<1>1. /\ ~wrecked /\ held[e] = 1
      /\ cache' = Remove(RemoveFromList(cache, cache.where[e], e), e)
      /\ held' = [held EXCEPT ![e] = 0]
      /\ wrecked' = wrecked /\ crowded' = crowded
  BY DEF FlushData
<1>2. /\ Well(cache, {}) /\ cache.usage = held
      /\ held \in [Ids -> 0..MaxHeld] /\ wrecked \in BOOLEAN /\ crowded \in BOOLEAN
      /\ ~crowded => Few(cache)
  BY <1>1 DEF CacheInv
<1>3. e \in ResidentIn(cache)
  BY <1>1, <1>2 DEF Well, Used
<1>4. /\ Well(cache', {}) /\ ResidentIn(cache') = ResidentIn(cache) \ {e}
      /\ cache'.usage = [cache.usage EXCEPT ![e] = 0]
  BY <1>1, <1>2, <1>3, Flushed
<1>5. held' \in [Ids -> 0..MaxHeld]
  BY <1>1, <1>2, FileCacheAssumption
<1>6. Few(cache) => Few(cache')
  <2>1. ResidentIn(cache) \in SUBSET Ids
    BY <1>2, ListNames, InTypes DEF ResidentIn, Well
  <2>2. IsFiniteSet(ResidentIn(cache))
    BY <2>1, FS_Subset, FileCacheAssumption
  <2>3. /\ Cardinality(ResidentIn(cache')) = Cardinality(ResidentIn(cache)) - 1
        /\ Cardinality(ResidentIn(cache)) \in Nat
    BY <1>3, <1>4, <2>2, FS_RemoveElement, FS_CardinalityType
  <2>4. (Size - 1) \div Smallest \in Int
    <3>1. Size - 1 \in Nat
      BY FileCacheAssumption
    <3> QED
      BY <3>1, SmallestIs
  <2> DEFINE m == Cardinality(ResidentIn(cache))
             n == Cardinality(ResidentIn(cache'))
             q == (Size - 1) \div Smallest
  <2> HIDE DEF m, n, q
  <2>5. m <= 1 + q => n <= 1 + q
    BY <2>3, <2>4 DEF m, n, q
  <2> QED
    BY <2>5 DEF Few, m, n, q
<1>7. CacheInv'
  <2>1. (~crowded => Few(cache))'
    BY <1>1, <1>2, <1>6 DEF Few
  <2> QED
    BY <1>1, <1>2, <1>4, <1>5, <2>1 DEF CacheInv
<1>8. Pool!Discard(e)
  BY <1>1, <1>4, ResidentIs DEF Pool!Discard
<1> QED
  BY <1>7, <1>8

LEMMA RestartKeeps ==
  ASSUME Restart
  PROVE  CacheInv' /\ Pool!Clear
<1>1. cache' = Empty /\ held' = [e \in Ids |-> 0] /\ wrecked' = FALSE /\ crowded' = FALSE
  BY DEF Restart
<1>2. (~crowded => Few(cache))'
  <2>1. Cardinality({}) = 0
    BY FS_EmptySet
  <2>2. (Size - 1) \div Smallest \in Nat
    <3>1. Size - 1 \in Nat
      BY FileCacheAssumption
    <3> QED
      BY <3>1, SmallestIs
  <2> QED
    BY <1>1, <2>1, <2>2, EmptyWell DEF Few
<1>3. held' \in [Ids -> 0..MaxHeld]
  BY <1>1, FileCacheAssumption
<1>4. CacheInv'
  BY <1>1, <1>2, <1>3, EmptyWell DEF CacheInv
<1> QED
  BY <1>1, <1>4, EmptyWell, ResidentIs DEF Pool!Clear

LEMMA NextKeeps ==
  ASSUME CacheInv, [Next]_vars
  PROVE  CacheInv' /\ [Pool!Next]_(Pool!vars)
<1>1. CASE Restart
  BY <1>1, RestartKeeps DEF Pool!Next
<1>2. ASSUME NEW e \in Ids,
             Read(e) \/ ReadFails(e) \/ InflateFails(e) \/ Free(e) \/ FlushData(e)
      PROVE  CacheInv' /\ Pool!Next
  BY <1>2, ReadKeeps, ReadFailsKeeps, InflateFailsKeeps, FreeKeeps, FlushDataKeeps DEF Pool!Next
<1>3. CASE UNCHANGED vars
  <2>1. cache' = cache /\ held' = held /\ wrecked' = wrecked /\ crowded' = crowded
    BY <1>3 DEF vars
  <2>2. CacheInv'
    BY <2>1 DEF CacheInv, Few
  <2> QED
    BY <2>1, <2>2, ResidentIs DEF Pool!vars
<1> QED
  BY <1>1, <1>2, <1>3 DEF Next

LEMMA CacheInvAlways == Spec => []CacheInv
<1>1. Init => CacheInv
  BY InitKeeps
<1>2. CacheInv /\ [Next]_vars => CacheInv'
  BY NextKeeps
<1> QED
  BY <1>1, <1>2, PTL DEF Spec

-----------------------------------------------------------------------------
(* Every variable of the cache always has its type: no size or use count    *)
(* falls below zero, and the target stays within the cache.                 *)
THEOREM TypeCorrect == Spec => []TypeOK
<1>1. CacheInv => TypeOK
  BY DEF CacheInv, TypeOK, Well
<1> QED
  BY <1>1, CacheInvAlways, PTL

(* Whatever the callers of file_data_read, file_data_free and               *)
(* file_data_remove do in turn, the data they hold stay in the cache whole, *)
(* and are counted as often as they are held, until the heap is damaged.    *)
THEOREM HeldAlwaysStays == Spec => []HeldStays
<1>1. CacheInv => HeldStays
  <2> SUFFICES ASSUME CacheInv, ~wrecked, NEW e \in Ids
               PROVE  /\ cache.usage[e] = held[e]
                      /\ held[e] > 0 => e \in Resident /\ cache.bytes[e] = Header + Bytes[e]
    BY DEF HeldStays
  <2>1. Well(cache, {}) /\ cache.usage = held
    BY DEF CacheInv
  <2>2. held[e] > 0 => e \in ResidentIn(cache)
    BY <2>1 DEF Well, Used
  <2>3. e \in ResidentIn(cache) => cache.bytes[e] = Header + Bytes[e]
    BY <2>1, ListNames DEF Well, Listed, Length, ResidentIn
  <2> QED
    BY <2>1, <2>2, <2>3, ResidentIs
<1> QED
  BY <1>1, CacheInvAlways, PTL

(* The lists, the hash table, the entries and the sizes of cache.c always   *)
(* tell the same.                                                           *)
THEOREM BooksAlwaysAgree == Spec => []Books
<1>1. CacheInv => Books
  <2> SUFFICES ASSUME CacheInv
               PROVE  Books
    OBVIOUS
  <2>1. Listed(cache, {}) /\ Counted(cache)
    BY DEF CacheInv, Well
  <2>2. \A l : Members(l) = In(cache, l)
    BY DEF Members, In
  <2>3. cache.hash = UNION {Members(l) : l \in Lists}
    BY <2>1, <2>2 DEF Listed
  <2>4. ASSUME NEW l \in Lists
        PROVE  /\ IsInjective(cache.list[l])
               /\ \A e \in Members(l) :
                    /\ cache.where[e] = l
                    /\ cache.bytes[e] = IF l \in {"t1", "t2"} THEN Header + Bytes[e] ELSE Header
               /\ cache.size[l] = Cardinality(BytesOf(Members(l)))
    BY <2>1, <2>2 DEF Listed, Counted, Length, BytesOf, Weight, Weighed
  <2> QED
    BY <2>3, <2>4 DEF Books
<1> QED
  BY <1>1, CacheInvAlways, PTL

(* cache_replace and cache_insert never let more data pile up than of the   *)
(* smallest ones fill the cache, but for one that is larger, unless all     *)
(* that could go was in use at some time.                                   *)
THEOREM EntriesAlwaysBounded == Spec => []EntriesBounded
<1>1. CacheInv => EntriesBounded
  BY ResidentIs DEF CacheInv, Few, EntriesBounded, Smallest
<1> QED
  BY <1>1, CacheInvAlways, PTL

(* The cache does what DataPool promises: what callers hold stays, what is  *)
(* found costs nothing, and what is read costs at most one that nobody      *)
(* holds.                                                                   *)
THEOREM CacheImplementsPool == Spec => PoolPromise
<1>1. Init => Pool!Init
  BY InitKeeps
<1>2. CacheInv /\ [Next]_vars => [Pool!Next]_(Pool!vars)
  BY NextKeeps
<1> QED
  BY <1>1, <1>2, CacheInvAlways, PTL DEF Spec, Pool!Spec, PoolPromise
=============================================================================
