------------------------------ MODULE TextProofs -------------------------------
(***************************************************************************)
(* The lines that a stdio connection delivers, however its output is cut   *)
(* into chunks, for any size of the buffer and any number and length of    *)
(* the lines; and what the regenerations of a SKILL.md keep of the user's  *)
(* text, for any texts, sections and number of regenerations at once.      *)
(***************************************************************************)
EXTENDS StdioTransport, SkillFiles, FiniteSetTheorems, TLAPS

(***************************************************************************)
(* Sequences: their parts, and one after the other.                        *)
(***************************************************************************)

LEMMA SameSequence ==
    ASSUME NEW T, NEW s \in Seq(T), NEW t \in Seq(T), Len(s) = Len(t), \A i \in 1..Len(s) : s[i] = t[i]
    PROVE  s = t
  OBVIOUS

LEMMA SuffixOf ==
    ASSUME NEW T, NEW s \in Seq(T), NEW m \in 0..Len(s)
    PROVE  /\ SubSeq(s, m + 1, Len(s)) \in Seq(T)
           /\ Len(SubSeq(s, m + 1, Len(s))) = Len(s) - m
           /\ \A i \in 1..(Len(s) - m) : SubSeq(s, m + 1, Len(s))[i] = s[i + m]
  OBVIOUS

LEMMA PrefixOf ==
    ASSUME NEW T, NEW s \in Seq(T), NEW n \in 0..Len(s)
    PROVE  /\ SubSeq(s, 1, n) \in Seq(T)
           /\ Len(SubSeq(s, 1, n)) = n
           /\ \A i \in 1..n : SubSeq(s, 1, n)[i] = s[i]
  OBVIOUS

LEMMA Joined ==
    ASSUME NEW T, NEW s \in Seq(T), NEW t \in Seq(T)
    PROVE  /\ s \o t \in Seq(T)
           /\ Len(s \o t) = Len(s) + Len(t)
           /\ \A i \in 1..Len(s) : (s \o t)[i] = s[i]
           /\ \A i \in (Len(s) + 1)..(Len(s) + Len(t)) : (s \o t)[i] = t[i - Len(s)]
  OBVIOUS

(* To read a part of c and to cut off m units is to cut them off a \o c.   *)
LEMMA RestOfBoth ==
    ASSUME NEW T, NEW a \in Seq(T), NEW c \in Seq(T), NEW n \in 1..Len(c), NEW m \in 0..(Len(a) + n)
    PROVE  SubSeq(a \o SubSeq(c, 1, n), m + 1, Len(a) + n) \o SubSeq(c, n + 1, Len(c))
           = SubSeq(a \o c, m + 1, Len(a \o c))
<1> DEFINE f == SubSeq(c, 1, n)
           b == a \o f
           k == SubSeq(b, m + 1, Len(a) + n)
           q == SubSeq(c, n + 1, Len(c))
           o == a \o c
           r == SubSeq(o, m + 1, Len(o))
<1>1. Len(a) \in Nat /\ Len(c) \in Nat /\ n \in Nat /\ m \in Nat /\ n <= Len(c) /\ m <= Len(a) + n
  OBVIOUS
<1>2. f \in Seq(T) /\ Len(f) = n /\ \A i \in 1..n : f[i] = c[i]
  OBVIOUS
<1>3. o \in Seq(T) /\ Len(o) = Len(a) + Len(c) /\ (\A i \in 1..Len(a) : o[i] = a[i])
      /\ \A i \in (Len(a) + 1)..(Len(a) + Len(c)) : o[i] = c[i - Len(a)]
  OBVIOUS
<1>4. q \in Seq(T) /\ Len(q) = Len(c) - n /\ \A i \in 1..(Len(c) - n) : q[i] = c[i + n]
  OBVIOUS
<1> HIDE DEF f, q
<1>5. b \in Seq(T) /\ Len(b) = Len(a) + n /\ (\A i \in 1..Len(a) : b[i] = a[i])
      /\ \A i \in (Len(a) + 1)..(Len(a) + n) : b[i] = f[i - Len(a)]
  BY <1>2
<1> HIDE DEF b, o
<1>6. k \in Seq(T) /\ Len(k) = Len(a) + n - m /\ \A i \in 1..(Len(a) + n - m) : k[i] = b[i + m]
  <2>1. m \in 0..Len(b) /\ k = SubSeq(b, m + 1, Len(b))
    BY <1>1, <1>5
  <2>2. /\ SubSeq(b, m + 1, Len(b)) \in Seq(T) /\ Len(SubSeq(b, m + 1, Len(b))) = Len(b) - m
        /\ \A i \in 1..(Len(b) - m) : SubSeq(b, m + 1, Len(b))[i] = b[i + m]
    BY <1>5, <2>1, SuffixOf
  <2> HIDE DEF k
  <2>3. Len(b) - m = Len(a) + n - m
    BY <1>1, <1>5
  <2> QED
    BY <2>1, <2>2, <2>3
<1>7. r \in Seq(T) /\ Len(r) = Len(o) - m /\ \A i \in 1..(Len(o) - m) : r[i] = o[i + m]
  BY <1>1, <1>3
<1> HIDE DEF k, r
<1>8. k \o q \in Seq(T) /\ Len(k \o q) = Len(k) + Len(q) /\ (\A i \in 1..Len(k) : (k \o q)[i] = k[i])
      /\ \A i \in (Len(k) + 1)..(Len(k) + Len(q)) : (k \o q)[i] = q[i - Len(k)]
  BY <1>4, <1>6, Joined
<1>9. Len(k \o q) = Len(r)
  BY <1>1, <1>3, <1>4, <1>6, <1>7, <1>8
<1>10. \A i \in 1..(Len(a) + n) : b[i] = o[i]
  <2> TAKE i \in 1..(Len(a) + n)
  <2>1. CASE i <= Len(a)
    <3>1. i \in 1..Len(a)
      BY <1>1, <2>1
    <3> QED
      BY <1>3, <1>5, <3>1
  <2>2. CASE i > Len(a)
    <3>1. i \in (Len(a) + 1)..(Len(a) + n) /\ i \in (Len(a) + 1)..(Len(a) + Len(c)) /\ i - Len(a) \in 1..n
      BY <1>1, <2>2
    <3> QED
      BY <1>2, <1>3, <1>5, <3>1
  <2> QED
    BY <1>1, <2>1, <2>2
<1>11. ASSUME NEW i \in 1..Len(r) PROVE (k \o q)[i] = r[i]
  <2>1. i \in 1..(Len(o) - m) /\ i \in Nat /\ i >= 1 /\ i <= Len(a) + Len(c) - m
    BY <1>1, <1>3, <1>7
  <2>2. CASE i <= Len(k)
    <3>1. i \in 1..Len(k) /\ i \in 1..(Len(a) + n - m) /\ i + m \in 1..(Len(a) + n)
      BY <1>1, <1>6, <2>1, <2>2
    <3> QED
      BY <1>6, <1>7, <1>8, <1>10, <2>1, <3>1
  <2>3. CASE i > Len(k)
    <3>1. i \in (Len(k) + 1)..(Len(k) + Len(q)) /\ i - Len(k) \in 1..(Len(c) - n)
          /\ i - Len(k) + n = i + m - Len(a) /\ i + m \in (Len(a) + 1)..(Len(a) + Len(c))
      BY <1>1, <1>4, <1>6, <2>1, <2>3
    <3>2. (k \o q)[i] = c[i - Len(k) + n]
      BY <1>4, <1>8, <3>1
    <3>3. r[i] = c[i + m - Len(a)]
      BY <1>3, <1>7, <2>1, <3>1
    <3> QED
      BY <3>1, <3>2, <3>3
  <2>4. i <= Len(k) \/ i > Len(k)
    BY <1>6, <2>1
  <2> QED
    BY <2>2, <2>3, <2>4, Zenon
<1>12. k \o q = r
  BY <1>7, <1>8, <1>9, <1>11, SameSequence
<1> QED
  BY <1>12 DEF b, f, k, o, q, r

(***************************************************************************)
(* Finite sets of naturals: their greatest element, and their order.  The  *)
(* place of an element is the number of the smaller ones, hence no two     *)
(* sequences have the same elements in their order.                        *)
(***************************************************************************)

LEMMA RankOrder ==
    ASSUME NEW S \in SUBSET Nat, IsFiniteSet(S)
    PROVE  /\ \A x \in S : Cardinality(Smaller(S, x)) \in 0..(Cardinality(S) - 1)
           /\ \A x, y \in S : x < y => Cardinality(Smaller(S, x)) < Cardinality(Smaller(S, y))
<1>1. Cardinality(S) \in Nat
  BY FS_CardinalityType
<1>2. ASSUME NEW x \in S PROVE IsFiniteSet(Smaller(S, x)) /\ Cardinality(Smaller(S, x)) \in 0..(Cardinality(S) - 1)
  <2>1. Smaller(S, x) \in SUBSET (S \ {x}) /\ S \ {x} \in SUBSET S
    BY DEF Smaller
  <2>2. IsFiniteSet(S \ {x}) /\ Cardinality(S \ {x}) = Cardinality(S) - 1
    BY FS_RemoveElement
  <2>3. IsFiniteSet(Smaller(S, x)) /\ Cardinality(Smaller(S, x)) <= Cardinality(S \ {x})
    BY <2>1, <2>2, FS_Subset
  <2>4. Cardinality(Smaller(S, x)) \in Nat
    BY <2>3, FS_CardinalityType
  <2> QED
    BY <1>1, <2>2, <2>3, <2>4
<1>3. ASSUME NEW x \in S, NEW y \in S, x < y PROVE Cardinality(Smaller(S, x)) < Cardinality(Smaller(S, y))
  <2>1. Smaller(S, x) \in SUBSET Smaller(S, y)
    <3>1. \A z \in S : z < x => z < y
      <4>1. x \in Nat /\ y \in Nat /\ \A z \in S : z \in Nat
        OBVIOUS
      <4> QED
        BY <1>3, <4>1
    <3> QED
      BY <3>1 DEF Smaller
  <2>2. x \in Smaller(S, y) /\ x \notin Smaller(S, x)
    BY <1>3 DEF Smaller
  <2>3. Cardinality(Smaller(S, x)) <= Cardinality(Smaller(S, y))
        /\ Cardinality(Smaller(S, x)) # Cardinality(Smaller(S, y))
    BY <1>2, <2>1, <2>2, FS_Subset
  <2>4. Cardinality(Smaller(S, x)) \in Int /\ Cardinality(Smaller(S, y)) \in Int
    BY <1>1, <1>2
  <2> QED
    BY <2>3, <2>4
<1> QED
  BY <1>2, <1>3

LEMMA RankUnique ==
    ASSUME NEW S \in SUBSET Nat, IsFiniteSet(S), NEW x \in S, NEW y \in S,
           Cardinality(Smaller(S, x)) = Cardinality(Smaller(S, y))
    PROVE  x = y
<1>1. Cardinality(Smaller(S, x)) \in Int
  BY RankOrder, FS_CardinalityType
<1>2. CASE x < y
  BY <1>1, <1>2, RankOrder
<1>3. CASE y < x
  BY <1>1, <1>3, RankOrder
<1> QED
  BY <1>2, <1>3

(* InOrder(S) has the elements of S in their order.                        *)
LEMMA InOrderIsInOrder ==
    ASSUME NEW S \in SUBSET Nat, IsFiniteSet(S)
    PROVE  /\ Cardinality(S) \in Nat
           /\ InOrder(S) \in [1..Cardinality(S) -> S]
           /\ \A i \in 1..Cardinality(S) : Cardinality(Smaller(S, InOrder(S)[i])) = i - 1
           /\ IsInOrder(InOrder(S), S)
<1> DEFINE n == Cardinality(S)
           rank == [x \in S |-> Cardinality(Smaller(S, x))]
           s == InOrder(S)
<1>1. n \in Nat
  BY FS_CardinalityType
<1>2. rank \in [S -> 0..(n - 1)]
  BY RankOrder
<1>3. rank \in Injection(S, 0..(n - 1))
  <2>1. \A x, y \in S : rank[x] = rank[y] => x = y
    BY RankUnique
  <2> QED
    BY <1>2, <2>1 DEF Injection, IsInjective
<1>4. IsFiniteSet(0..(n - 1)) /\ Cardinality(0..(n - 1)) = n
  <2> HIDE DEF n
  <2>1. 0 \in Int /\ n - 1 \in Int
    BY <1>1
  <2>2. IsFiniteSet(0..(n - 1)) /\ Cardinality(0..(n - 1)) = IF 0 > n - 1 THEN 0 ELSE (n - 1) - 0 + 1
    BY <2>1, FS_Interval
  <2> QED
    BY <1>1, <2>2
<1>5. rank \in Surjection(S, 0..(n - 1))
  BY <1>3, <1>4, FS_Injection
<1>6. ASSUME NEW i \in 1..n PROVE s[i] \in S /\ rank[s[i]] = i - 1
  <2>1. i - 1 \in 0..(n - 1)
    BY <1>1
  <2>2. \E x \in S : rank[x] = i - 1
    BY <1>5, <2>1 DEF Surjection
  <2>3. \E x \in S : Cardinality(Smaller(S, x)) = i - 1
    BY <2>2
  <2>4. s[i] = CHOOSE x \in S : Cardinality(Smaller(S, x)) = i - 1
    BY DEF InOrder
  <2>5. s[i] \in S /\ Cardinality(Smaller(S, s[i])) = i - 1
    BY <2>3, <2>4, Zenon
  <2> QED
    BY <2>5
<1>7. s \in [1..n -> S] /\ DOMAIN s = 1..n
  BY <1>6 DEF InOrder
<1>8. ASSUME NEW i \in 1..n, NEW j \in 1..n, i < j PROVE s[i] < s[j]
  <2>1. s[i] \in Nat /\ s[j] \in Nat /\ rank[s[i]] < rank[s[j]] /\ rank[s[i]] \in Int /\ rank[s[j]] \in Int
    <3>1. s[i] \in S /\ s[j] \in S /\ rank[s[i]] = i - 1 /\ rank[s[j]] = j - 1
      BY <1>6
    <3>2. i \in Int /\ j \in Int
      BY <1>1
    <3> HIDE DEF n, rank, s
    <3>3. s[i] \in Nat /\ s[j] \in Nat
      BY <3>1
    <3>4. i - 1 < j - 1 /\ i - 1 \in Int /\ j - 1 \in Int
      BY <1>8, <3>2
    <3> QED
      BY <3>1, <3>3, <3>4
  <2>2. s[i] # s[j]
    BY <2>1
  <2>3. ~(s[j] < s[i])
    <3>1. SUFFICES ASSUME s[j] < s[i] PROVE FALSE
      OBVIOUS
    <3>2. Cardinality(Smaller(S, s[j])) < Cardinality(Smaller(S, s[i]))
      BY <1>6, <3>1, RankOrder
    <3>3. rank[s[j]] < rank[s[i]]
      BY <1>6, <3>2
    <3> QED
      BY <2>1, <3>3
  <2> QED
    BY <2>1, <2>2, <2>3
<1>9. ASSUME NEW x \in S PROVE \E i \in 1..n : s[i] = x
  <2>1. Cardinality(Smaller(S, x)) \in 0..(n - 1)
    BY RankOrder
  <2> DEFINE i == Cardinality(Smaller(S, x)) + 1
  <2>2. i \in 1..n /\ i - 1 = rank[x]
    BY <1>1, <2>1
  <2>3. s[i] \in S /\ rank[s[i]] = rank[x]
    BY <1>6, <2>2
  <2>4. Cardinality(Smaller(S, s[i])) = Cardinality(Smaller(S, x))
    BY <2>3
  <2>5. s[i] = x
    <3> HIDE DEF s, i
    <3> QED
      BY <2>3, <2>4, RankUnique
  <2> QED
    BY <2>2, <2>5
<1>10. {s[i] : i \in DOMAIN s} = S
  BY <1>6, <1>7, <1>9
<1>11. \A i, j \in DOMAIN s : i < j => s[i] < s[j]
  BY <1>7, <1>8
<1> QED
  BY <1>1, <1>6, <1>7, <1>10, <1>11 DEF IsInOrder

(* Nothing else has the elements of S in their order.                      *)
LEMMA OrderIsUnique ==
    ASSUME NEW s \in Seq(Nat), NEW S, IsInOrder(s, S)
    PROVE  /\ S \in SUBSET Nat /\ IsFiniteSet(S) /\ Cardinality(S) = Len(s)
           /\ s = InOrder(S)
<1> DEFINE n == Len(s)
<1>1. n \in Nat /\ DOMAIN s = 1..n /\ IsFiniteSet(1..n) /\ Cardinality(1..n) = n
  <2>1. n \in Nat /\ DOMAIN s = 1..n
    OBVIOUS
  <2> HIDE DEF n
  <2>2. IsFiniteSet(1..n) /\ Cardinality(1..n) = IF 1 > n THEN 0 ELSE n - 1 + 1
    BY <2>1, FS_Interval
  <2> QED
    BY <2>1, <2>2
<1>2. (\A i \in 1..n : s[i] \in Nat /\ s[i] \in S) /\ (\A x \in S : \E i \in 1..n : s[i] = x) /\ S \in SUBSET Nat
  BY <1>1 DEF IsInOrder
<1>3. \A i, j \in 1..n : i < j => s[i] < s[j]
  BY <1>1 DEF IsInOrder
<1>4. \A i, j \in 1..n : s[i] = s[j] => i = j
  <2> SUFFICES ASSUME NEW i \in 1..n, NEW j \in 1..n, s[i] = s[j] PROVE i = j
    OBVIOUS
  <2>1. ~(i < j) /\ ~(j < i)
    BY <1>2, <1>3
  <2> QED
    BY <1>1, <2>1
<1> HIDE DEF n
<1>5. IsFiniteSet(S) /\ Cardinality(S) = n
  <2>1. s \in [1..n -> S] /\ s \in Surjection(1..n, S) /\ s \in Injection(1..n, S)
    <3>1. s \in [1..n -> S]
      <4>1. s = [i \in 1..n |-> s[i]]
        BY <1>1
      <4> QED
        BY <1>2, <4>1
    <3> QED
      BY <1>2, <1>4, <3>1 DEF Surjection, Injection, IsInjective
  <2> QED
    BY <1>1, <2>1, FS_Surjection
<1>6. ASSUME NEW i \in 1..n PROVE Cardinality(Smaller(S, s[i])) = i - 1
  <2> DEFINE f == [j \in 1..(i - 1) |-> s[j]]
             L == Smaller(S, s[i])
  <2>1. i \in Nat /\ i - 1 \in Nat /\ \A j \in 1..(i - 1) : j \in 1..n /\ j < i
    BY <1>1
  <2>2. \A j \in 1..(i - 1) : s[j] \in L
    BY <1>2, <1>3, <2>1 DEF Smaller
  <2>3. \A x \in L : \E j \in 1..(i - 1) : s[j] = x
    <3> TAKE x \in L
    <3>1. PICK j \in 1..n : s[j] = x
      BY <1>2 DEF Smaller
    <3>2. s[j] < s[i]
      BY <3>1 DEF Smaller
    <3>3. ~(i < j) /\ i # j
      <4>1. s[i] \in Nat /\ s[j] \in Nat /\ (i < j => s[i] < s[j])
        BY <1>2, <1>3
      <4> QED
        BY <3>2, <4>1
    <3>4. j \in 1..(i - 1)
      BY <1>1, <3>3
    <3> QED
      BY <3>1, <3>4
  <2>4. f \in Surjection(1..(i - 1), L)
    BY <2>2, <2>3 DEF Surjection
  <2>5. f \in Injection(1..(i - 1), L)
    BY <1>4, <2>1, <2>2 DEF Injection, IsInjective
  <2>6. IsFiniteSet(1..(i - 1)) /\ Cardinality(1..(i - 1)) = i - 1
    <3>1. PICK k \in Nat : k = i - 1
      BY <2>1
    <3>2. IsFiniteSet(1..k) /\ Cardinality(1..k) = IF 1 > k THEN 0 ELSE k - 1 + 1
      BY FS_Interval
    <3> QED
      BY <3>1, <3>2
  <2> HIDE DEF f, L
  <2>7. Cardinality(L) = Cardinality(1..(i - 1))
    BY <2>4, <2>5, <2>6, FS_Surjection
  <2> QED
    BY <2>6, <2>7 DEF L
<1>7. InOrder(S) \in [1..n -> S] /\ \A i \in 1..n : Cardinality(Smaller(S, InOrder(S)[i])) = i - 1
  BY <1>2, <1>5, InOrderIsInOrder
<1>8. \A i \in 1..n : s[i] = InOrder(S)[i]
  <2> TAKE i \in 1..n
  <2>1. s[i] \in S /\ InOrder(S)[i] \in S /\ Cardinality(Smaller(S, s[i])) = Cardinality(Smaller(S, InOrder(S)[i]))
    BY <1>2, <1>6, <1>7
  <2>2. \A x, y \in S : Cardinality(Smaller(S, x)) = Cardinality(Smaller(S, y)) => x = y
    BY <1>2, <1>5, RankUnique
  <2> QED
    BY <2>1, <2>2
<1>9. s = InOrder(S)
  <2>1. s = [i \in 1..n |-> s[i]] /\ InOrder(S) = [i \in 1..n |-> InOrder(S)[i]]
    BY <1>1, <1>7
  <2> QED
    BY <1>8, <2>1
<1> QED
  BY <1>2, <1>5, <1>9 DEF n

(* The part of a sequence at some places has its elements from there.      *)
LEMMA SelectedType ==
    ASSUME NEW T, NEW s \in Seq(T), NEW P \in SUBSET (DOMAIN s)
    PROVE  /\ P \in SUBSET Nat /\ IsFiniteSet(P) /\ Cardinality(P) \in Nat
           /\ InOrder(P) \in [1..Cardinality(P) -> P]
           /\ Selected(s, P) \in Seq({s[i] : i \in P})
<1>1. DOMAIN s = 1..Len(s) /\ Len(s) \in Nat
  OBVIOUS
<1>2. IsFiniteSet(1..Len(s))
  BY <1>1, FS_Interval
<1>3. P \in SUBSET Nat /\ IsFiniteSet(P)
  BY <1>1, <1>2, FS_Subset
<1>4. Cardinality(P) \in Nat /\ InOrder(P) \in [1..Cardinality(P) -> P]
  BY <1>3, InOrderIsInOrder
<1>5. Selected(s, P) \in [1..Cardinality(P) -> {s[i] : i \in P}]
  BY <1>4 DEF Selected
<1>6. Selected(s, P) \in Seq({s[i] : i \in P})
  BY <1>4, <1>5
<1> QED
  BY <1>3, <1>4, <1>6

(* One element more before the others moves the places by one.             *)
LEMMA SelectedAfterOne ==
    ASSUME NEW T, NEW x \in T, NEW s \in Seq(T), NEW P \in SUBSET (DOMAIN s)
    PROVE  Selected(<<x>> \o s, {i + 1 : i \in P}) = Selected(s, P)
<1> DEFINE n == Cardinality(P)
           Q == {i + 1 : i \in P}
           t == [i \in 1..n |-> InOrder(P)[i] + 1]
           c == <<x>> \o s
<1>1. P \in SUBSET Nat /\ IsFiniteSet(P) /\ n \in Nat /\ InOrder(P) \in [1..n -> P] /\ IsInOrder(InOrder(P), P)
  BY SelectedType, InOrderIsInOrder
<1>2. \A i \in 1..n : InOrder(P)[i] \in P /\ InOrder(P)[i] \in Nat
  BY <1>1
<1>3. t \in Seq(Nat) /\ Len(t) = n /\ DOMAIN t = 1..n /\ \A i \in 1..n : t[i] = InOrder(P)[i] + 1
  BY <1>1, <1>2
<1>4. DOMAIN InOrder(P) = 1..n
  BY <1>1
<1> HIDE DEF t, n
<1>5. {t[i] : i \in DOMAIN t} = Q
  <2>1. \A i \in 1..n : t[i] \in Q
    BY <1>2, <1>3
  <2>2. ASSUME NEW q \in Q PROVE \E i \in 1..n : t[i] = q
    <3>1. PICK p \in P : q = p + 1
      OBVIOUS
    <3>2. PICK i \in 1..n : InOrder(P)[i] = p
      BY <1>1, <1>4 DEF IsInOrder
    <3> QED
      BY <1>3, <3>1, <3>2
  <2> HIDE DEF Q
  <2> QED
    BY <1>3, <2>1, <2>2
<1>6. \A i, j \in DOMAIN t : i < j => t[i] < t[j]
  <2> SUFFICES ASSUME NEW i \in 1..n, NEW j \in 1..n, i < j PROVE t[i] < t[j]
    BY <1>3
  <2>1. InOrder(P)[i] < InOrder(P)[j]
    BY <1>1, <1>4 DEF IsInOrder
  <2> QED
    BY <1>2, <1>3, <2>1
<1> HIDE DEF Q
<1>7. Cardinality(Q) = n /\ t = InOrder(Q)
  <2>1. IsInOrder(t, Q)
    BY <1>5, <1>6 DEF IsInOrder
  <2> QED
    BY <1>3, <2>1, OrderIsUnique
<1>8. \A i \in 1..n : c[InOrder(P)[i] + 1] = s[InOrder(P)[i]]
  <2> TAKE i \in 1..n
  <2>1. PICK p \in P : InOrder(P)[i] = p
    BY <1>2
  <2>2. p \in 1..Len(s)
    OBVIOUS
  <2>3. c[p + 1] = s[p]
    BY <2>2
  <2> QED
    BY <2>1, <2>3
<1>9. Selected(c, Q) = [i \in 1..n |-> c[t[i]]] /\ Selected(s, P) = [i \in 1..n |-> s[InOrder(P)[i]]]
  BY <1>7 DEF Selected, n
<1> HIDE DEF c
<1>10. Selected(c, Q) = Selected(s, P)
  BY <1>3, <1>8, <1>9
<1> QED
  BY <1>10 DEF c, Q

LEMMA HasMax ==
    ASSUME NEW S \in SUBSET Nat, IsFiniteSet(S), S # {}
    PROVE  Max(S) \in S /\ \A x \in S : x <= Max(S)
<1> DEFINE n == Cardinality(S)
           s == InOrder(S)
<1>1. n \in Nat /\ s \in [1..n -> S] /\ IsInOrder(s, S)
  BY InOrderIsInOrder
<1>2. n # 0
  BY FS_EmptySet
<1>3. s[n] \in S /\ n \in 1..n
  BY <1>1, <1>2
<1>4. ASSUME NEW x \in S PROVE s[n] >= x
  <2>1. PICK i \in 1..n : x = s[i]
    BY <1>1 DEF IsInOrder
  <2>2. i < n => s[i] < s[n]
    BY <1>1, <1>3 DEF IsInOrder
  <2> HIDE DEF s, n
  <2>3. x \in Nat /\ s[n] \in Nat
    BY <1>3
  <2> QED
    BY <1>1, <2>1, <2>2, <2>3
<1>5. \E m \in S : \A y \in S : m >= y
  BY <1>3, <1>4
<1>6. Max(S) \in S /\ \A y \in S : Max(S) >= y
  BY <1>5, Zenon DEF Max
<1> QED
  BY <1>6

LEMMA InOrderOfNone == InOrder({}) = <<>>
<1>1. Cardinality({}) = 0
  BY FS_EmptySet
<1>2. InOrder({}) \in Seq({}) /\ Len(InOrder({})) = 0
  BY <1>1, FS_EmptySet, InOrderIsInOrder DEF InOrder
<1> QED
  BY <1>2

(* Two sequences one after the other are in order when all of the first is *)
(* smaller.                                                                *)
LEMMA OneAfterTheOther ==
    ASSUME NEW s \in Seq(Nat), NEW t \in Seq(Nat), NEW A, NEW B,
           IsInOrder(s, A), IsInOrder(t, B), \A x \in A, y \in B : x < y
    PROVE  s \o t \in Seq(Nat) /\ IsInOrder(s \o t, A \cup B)
<1> DEFINE c == s \o t
<1>1. c \in Seq(Nat) /\ Len(c) = Len(s) + Len(t)
  OBVIOUS
<1>2. \A i \in 1..Len(s) : c[i] = s[i] /\ s[i] \in A
  BY DEF IsInOrder
<1>3. \A i \in (Len(s) + 1)..Len(c) : c[i] = t[i - Len(s)] /\ i - Len(s) \in 1..Len(t)
  OBVIOUS
<1>4. \A i \in 1..Len(t) : t[i] \in B /\ c[i + Len(s)] = t[i] /\ i + Len(s) \in 1..Len(c)
  BY DEF IsInOrder
<1>5. \A x \in A : \E i \in 1..Len(s) : x = s[i]
  BY DEF IsInOrder
<1>6. \A x \in B : \E i \in 1..Len(t) : x = t[i]
  BY DEF IsInOrder
<1>7. DOMAIN c = 1..Len(c) /\ Len(s) \in Nat /\ Len(t) \in Nat /\ 1..Len(s) \subseteq 1..Len(c)
  BY <1>1
<1>8. {c[i] : i \in DOMAIN c} = A \cup B
  <2>1. \A i \in 1..Len(c) : c[i] \in A \cup B
    <3> HIDE DEF c
    <3>1. \A i \in 1..Len(c) : i \in 1..Len(s) \/ i \in (Len(s) + 1)..Len(c)
      BY <1>1, <1>7
    <3> QED
      BY <1>2, <1>3, <1>4, <3>1
  <2>2. \A x \in A \cup B : \E i \in 1..Len(c) : c[i] = x
    <3> HIDE DEF c
    <3>1. ASSUME NEW x \in A PROVE \E i \in 1..Len(c) : c[i] = x
      BY <1>2, <1>5, <1>7
    <3>2. ASSUME NEW x \in B PROVE \E i \in 1..Len(c) : c[i] = x
      BY <1>4, <1>6
    <3> QED
      BY <3>1, <3>2
  <2> HIDE DEF c
  <2> QED
    BY <1>7, <2>1, <2>2
<1>9. ASSUME NEW i \in 1..Len(c), NEW j \in 1..Len(c), i < j PROVE c[i] < c[j]
  <2> HIDE DEF c
  <2>1. CASE j <= Len(s)
    <3>1. i \in 1..Len(s) /\ j \in 1..Len(s)
      BY <1>7, <1>9, <2>1
    <3>2. s[i] < s[j]
      BY <1>9, <3>1 DEF IsInOrder
    <3> QED
      BY <1>2, <3>1, <3>2
  <2>2. CASE i <= Len(s) /\ j > Len(s)
    <3>1. i \in 1..Len(s) /\ j \in (Len(s) + 1)..Len(c)
      BY <1>7, <2>2
    <3>2. c[i] \in A /\ c[j] \in B
      BY <1>2, <1>3, <1>4, <3>1
    <3> QED
      BY <3>2
  <2>3. CASE i > Len(s)
    <3>1. i \in (Len(s) + 1)..Len(c) /\ j \in (Len(s) + 1)..Len(c) /\ i - Len(s) < j - Len(s)
      BY <1>7, <1>9, <2>3
    <3>2. i - Len(s) \in 1..Len(t) /\ j - Len(s) \in 1..Len(t)
      BY <1>3, <3>1
    <3>3. t[i - Len(s)] < t[j - Len(s)]
      BY <3>1, <3>2 DEF IsInOrder
    <3> QED
      BY <1>3, <3>1, <3>3
  <2> QED
    BY <1>7, <2>1, <2>2, <2>3
<1> QED
  BY <1>1, <1>7, <1>8, <1>9 DEF IsInOrder

(***************************************************************************)
(* The output of the child that no line was cut out of yet: w was written  *)
(* and u is the place of the next unit.                                    *)
(***************************************************************************)

Positive == Nat \ {0}
Units == [line : Positive, place : Positive, last : BOOLEAN]
Places == [line : Positive, place : Positive]

At(w, u, i) == IF i <= Len(w) THEN w[i] ELSE u

(* What lies between places i and j: the ends of the lines but the last,   *)
(* one of each, and the beginning of that one.                             *)
Stretch(w, u, i, j) ==
    /\ At(w, u, i).line <= At(w, u, j).line
    /\ At(w, u, i).line = At(w, u, j).line <=> \A p \in i..(j - 1) : ~w[p].last
    /\ At(w, u, i).line = At(w, u, j).line => At(w, u, j).place = At(w, u, i).place + (j - i)
    /\ \A k \in At(w, u, i).line..(At(w, u, j).line - 1) : \E p \in i..(j - 1) : w[p].last /\ w[p].line = k
    /\ At(w, u, i).line # At(w, u, j).line =>
          \E p \in (i + 1)..j : At(w, u, p).line = At(w, u, j).line /\ At(w, u, p).place = 1

IsOutput(w, u) == \A i, j \in 1..(Len(w) + 1) : i <= j => Stretch(w, u, i, j)

LEMMA AtType ==
    ASSUME NEW w \in Seq(Units), NEW u \in Places, NEW i \in 1..(Len(w) + 1)
    PROVE  At(w, u, i).line \in Positive /\ At(w, u, i).place \in Positive
<1>1. CASE i <= Len(w)
  <2>1. i \in 1..Len(w)
    BY <1>1
  <2>2. w[i] \in Units
    BY <2>1
  <2> QED
    BY <1>1, <2>2 DEF At, Units
<1>2. CASE ~(i <= Len(w))
  BY <1>2 DEF At, Places
<1> QED
  BY <1>1, <1>2

LEMMA StretchOfOne ==
    ASSUME NEW w, NEW u, NEW i \in Nat, At(w, u, i).line \in Nat, At(w, u, i).place \in Nat
    PROVE  Stretch(w, u, i, i)
<1> DEFINE a == At(w, u, i)
<1>1. i..(i - 1) = {} /\ a.line..(a.line - 1) = {}
  OBVIOUS
<1>2. a.line <= a.line /\ a.place = a.place + (i - i)
  OBVIOUS
<1>3. \A p \in i..(i - 1) : ~w[p].last
  BY <1>1
<1>4. \A k \in a.line..(a.line - 1) : \E p \in i..(i - 1) : w[p].last /\ w[p].line = k
  BY <1>1
<1> QED
  BY <1>2, <1>3, <1>4, Zenon DEF Stretch

LEMMA OutputBegins ==
    ASSUME NEW u \in Places
    PROVE  IsOutput(<<>>, u)
<1>1. Len(<<>>) = 0
  OBVIOUS
<1>2. At(<<>>, u, 1) = u
  BY <1>1 DEF At
<1>3. u.line \in Nat /\ u.place \in Nat
  BY DEF Places, Positive
<1>4. Stretch(<<>>, u, 1, 1)
  BY <1>2, <1>3, StretchOfOne
<1>5. 1..(Len(<<>>) + 1) = {1}
  BY <1>1
<1> QED
  BY <1>4, <1>5 DEF IsOutput

(* One unit more is written.                                               *)
LEMMA OutputGrows ==
    ASSUME NEW w \in Seq(Units), NEW u \in Places, IsOutput(w, u), NEW last \in BOOLEAN,
           NEW v, v = IF last THEN [line |-> u.line + 1, place |-> 1] ELSE [u EXCEPT !.place = @ + 1]
    PROVE  LET x == Append(w, [line |-> u.line, place |-> u.place, last |-> last])
           IN  /\ x \in Seq(Units) /\ v \in Places /\ IsOutput(x, v)
               /\ At(x, v, 1).line = At(w, u, 1).line /\ At(x, v, 1).place = At(w, u, 1).place
<1> DEFINE e == [line |-> u.line, place |-> u.place, last |-> last]
           x == Append(w, e)
           m == Len(w) + 1
<1>1. u.line \in Positive /\ u.place \in Positive /\ e \in Units
  BY DEF Places, Units
<1>2. v.line = IF last THEN u.line + 1 ELSE u.line
  BY DEF Places
<1>3. v.place = IF last THEN 1 ELSE u.place + 1
  BY DEF Places
<1>4. v \in Places
  BY <1>1 DEF Places, Positive
<1>5. x \in Seq(Units) /\ Len(x) = m /\ m \in Nat /\ Len(w) \in Nat
  BY <1>1
<1>6. x[m] = e /\ \A p \in 1..Len(w) : x[p] = w[p]
  BY <1>1
<1> HIDE DEF x
<1>7. \A i \in 1..m : At(x, v, i).line = At(w, u, i).line /\ At(x, v, i).place = At(w, u, i).place
  <2> TAKE i \in 1..m
  <2>1. At(x, v, i) = x[i]
    BY <1>5 DEF At
  <2>2. CASE i = m
    <3>1. At(w, u, i) = u
      BY <1>5, <2>2 DEF At
    <3> QED
      BY <1>6, <2>1, <2>2, <3>1
  <2>3. CASE i # m
    <3>1. i \in 1..Len(w)
      BY <1>5, <2>3
    <3>2. At(w, u, i) = w[i]
      BY <3>1 DEF At
    <3> QED
      BY <1>6, <2>1, <3>1, <3>2
  <2> QED
    BY <2>2, <2>3
<1>n. PICK n \in Nat : n = m + 1
  BY <1>5
<1>8. At(x, v, n) = v /\ n - 1 = m
  BY <1>5, <1>n DEF At
<1>9. At(w, u, m) = u
  BY <1>5 DEF At
<1>10. \A i \in 1..m : At(w, u, i).line \in Positive /\ At(w, u, i).place \in Positive
  BY AtType
<1> HIDE DEF m
<1>11. ASSUME NEW i \in 1..m, NEW j \in 1..m, i <= j PROVE Stretch(x, v, i, j)
  <2>1. Stretch(w, u, i, j)
    BY <1>11 DEF IsOutput, m
  <2>2. \A p \in i..(j - 1) : p \in 1..Len(w) /\ x[p] = w[p]
    BY <1>5, <1>6 DEF m
  <2>3. \A p \in (i + 1)..j : p \in 1..m
    BY <1>5
  <2>4. At(x, v, i).line <= At(x, v, j).line
    BY <1>7, <2>1 DEF Stretch
  <2>5. At(x, v, i).line = At(x, v, j).line <=> \A p \in i..(j - 1) : ~x[p].last
    BY <1>7, <2>1, <2>2 DEF Stretch
  <2>6. At(x, v, i).line = At(x, v, j).line => At(x, v, j).place = At(x, v, i).place + (j - i)
    BY <1>7, <2>1 DEF Stretch
  <2>7. \A k \in At(x, v, i).line..(At(x, v, j).line - 1) : \E p \in i..(j - 1) : x[p].last /\ x[p].line = k
    <3>1. \A k \in At(w, u, i).line..(At(w, u, j).line - 1) : \E p \in i..(j - 1) : w[p].last /\ w[p].line = k
      BY <2>1 DEF Stretch
    <3>2. \A k \in At(w, u, i).line..(At(w, u, j).line - 1) : \E p \in i..(j - 1) : x[p].last /\ x[p].line = k
      BY <2>2, <3>1
    <3> QED
      BY <1>7, <3>2
  <2>8. At(x, v, i).line # At(x, v, j).line =>
          \E p \in (i + 1)..j : At(x, v, p).line = At(x, v, j).line /\ At(x, v, p).place = 1
    BY <1>7, <2>1, <2>3 DEF Stretch
  <2> QED
    BY <2>4, <2>5, <2>6, <2>7, <2>8 DEF Stretch
<1>12. ASSUME NEW i \in 1..m PROVE Stretch(x, v, i, n)
  <2>1. Stretch(w, u, i, m)
    BY <1>5, <1>12 DEF IsOutput, m
  <2> DEFINE a == At(w, u, i)
  <2>2. n = m + 1 /\ a.line \in Nat /\ a.place \in Nat /\ u.line \in Nat /\ u.place \in Nat /\ i \in Nat /\ m \in Nat /\ i <= m
    BY <1>1, <1>5, <1>10, <1>n DEF Positive
  <2>3. At(x, v, i).line = a.line /\ At(x, v, i).place = a.place
    BY <1>7
  <2>4. a.line <= u.line
    BY <1>9, <2>1 DEF Stretch
  <2>5. \A p \in i..m : p \in i..(m - 1) \/ p = m
    BY <2>2
  <2>6. \A p \in i..(m - 1) : p \in i..m /\ x[p] = w[p]
    BY <1>5, <1>6, <2>2 DEF m
  <2>7. m \in i..m /\ x[m].last = last /\ x[m].line = u.line
    BY <1>6, <2>2
  <2>8. a.line = u.line <=> \A p \in i..(m - 1) : ~x[p].last
    BY <1>9, <2>1, <2>6 DEF Stretch
  <2>9. \A k \in a.line..(u.line - 1) : \E p \in i..(m - 1) : x[p].last /\ x[p].line = k
    BY <1>9, <2>1, <2>6 DEF Stretch
  <2> HIDE DEF a
  <2>10. a.line <= v.line
    BY <1>2, <2>2, <2>4
  <2>11. a.line = v.line <=> \A p \in i..m : ~x[p].last
    <3>1. CASE last
      <4>1. a.line # v.line
        BY <1>2, <2>2, <2>4, <3>1
      <4>2. \E p \in i..m : x[p].last
        BY <2>7, <3>1
      <4> QED
        BY <4>1, <4>2
    <3>2. CASE ~last
      BY <1>2, <2>5, <2>6, <2>7, <2>8, <3>2
    <3> QED
      BY <3>1, <3>2
  <2>12. a.line = v.line => v.place = a.place + (n - i)
    <3>1. a.line = u.line => u.place = a.place + (m - i)
      BY <1>9, <2>1 DEF Stretch, a
    <3>2. CASE last
      BY <1>2, <2>2, <2>4, <3>2
    <3>3. CASE ~last
      <4>1. v.line = u.line /\ v.place = u.place + 1
        BY <1>2, <1>3, <3>3
      <4>2. a.line = u.line => v.place = a.place + (m - i) + 1
        BY <3>1, <4>1
      <4>3. \A p \in Nat : p + (m - i) + 1 = p + (n - i)
        <5>1. n = m + 1 /\ m \in Nat /\ i \in Nat
          BY <2>2
        <5> QED
          BY <5>1
      <4> QED
        BY <2>2, <4>1, <4>2, <4>3
    <3> QED
      BY <3>2, <3>3
  <2>13. \A k \in a.line..(v.line - 1) : \E p \in i..m : x[p].last /\ x[p].line = k
    <3> TAKE k \in a.line..(v.line - 1)
    <3>1. CASE k \in a.line..(u.line - 1)
      BY <2>6, <2>9, <3>1
    <3>2. CASE k \notin a.line..(u.line - 1)
      <4>1. last /\ k = u.line
        BY <1>2, <2>2, <2>4, <3>2
      <4> QED
        BY <2>7, <4>1
    <3> QED
      BY <3>1, <3>2
  <2>14. a.line # v.line => \E p \in (i + 1)..n : At(x, v, p).line = v.line /\ At(x, v, p).place = 1
    <3>1. CASE last
      <4>1. n \in (i + 1)..n
        BY <2>2
      <4> QED
        BY <1>3, <1>8, <3>1, <4>1
    <3>2. CASE ~last
      <4>1. a.line # u.line => \E p \in (i + 1)..m : At(w, u, p).line = u.line /\ At(w, u, p).place = 1
        BY <1>9, <2>1 DEF Stretch, a
      <4>2. \A p \in (i + 1)..m : p \in 1..m /\ p \in (i + 1)..n
        BY <2>2
      <4> QED
        BY <1>2, <1>7, <3>2, <4>1, <4>2
    <3> QED
      BY <3>1, <3>2
  <2> QED
    BY <1>8, <2>3, <2>10, <2>11, <2>12, <2>13, <2>14 DEF Stretch
<1>13. Stretch(x, v, n, n)
  <2>1. v.line \in Nat /\ v.place \in Nat /\ n \in Nat
    BY <1>4 DEF Places, Positive
  <2> QED
    BY <1>8, <2>1, StretchOfOne
<1>14. \A i \in 1..(Len(x) + 1) : i \in 1..m \/ i = n
  BY <1>5, <1>n
<1>15. IsOutput(x, v)
  <2> SUFFICES ASSUME NEW i \in 1..(Len(x) + 1), NEW j \in 1..(Len(x) + 1), i <= j
               PROVE  Stretch(x, v, i, j)
    BY DEF IsOutput
  <2>1. i = n => j = n
    BY <1>5, <1>n, <1>14
  <2> QED
    BY <1>11, <1>12, <1>13, <1>14, <2>1
<1>16. 1 \in 1..m
  BY <1>5 DEF m
<1> QED
  BY <1>4, <1>5, <1>7, <1>15, <1>16 DEF x

(* What was read is cut off.                                               *)
LEMMA OutputIsCut ==
    ASSUME NEW w \in Seq(Units), NEW u \in Places, IsOutput(w, u), NEW d \in 0..Len(w)
    PROVE  LET x == SubSeq(w, d + 1, Len(w))
           IN  x \in Seq(Units) /\ IsOutput(x, u) /\ At(x, u, 1) = At(w, u, d + 1)
<1> DEFINE x == SubSeq(w, d + 1, Len(w))
<1>1. x \in Seq(Units) /\ Len(x) = Len(w) - d /\ \A p \in 1..Len(x) : x[p] = w[p + d]
  OBVIOUS
<1>2. d \in Nat /\ Len(w) \in Nat /\ d <= Len(w)
  OBVIOUS
<1> HIDE DEF x
<1>3. \A i \in 1..(Len(x) + 1) : At(x, u, i) = At(w, u, i + d) /\ i + d \in 1..(Len(w) + 1)
  <2> TAKE i \in 1..(Len(x) + 1)
  <2>1. i \in Nat /\ i + d \in 1..(Len(w) + 1) /\ (i <= Len(x) <=> i + d <= Len(w))
    BY <1>1, <1>2
  <2>2. i <= Len(x) => x[i] = w[i + d]
    BY <1>1, <1>2
  <2> QED
    BY <2>1, <2>2 DEF At
<1>4. ASSUME NEW i \in 1..(Len(x) + 1), NEW j \in 1..(Len(x) + 1), i <= j PROVE Stretch(x, u, i, j)
  <2> DEFINE a == At(w, u, i + d)
             b == At(w, u, j + d)
  <2>1. Stretch(w, u, i + d, j + d)
    BY <1>1, <1>2, <1>3, <1>4 DEF IsOutput
  <2>2. At(x, u, i) = a /\ At(x, u, j) = b /\ i \in Nat /\ j \in Nat /\ i >= 1 /\ j <= Len(x) + 1 /\ Len(x) \in Nat
    BY <1>1, <1>2, <1>3
  <2>3. \A p \in i..(j - 1) : p + d \in (i + d)..(j + d - 1) /\ x[p] = w[p + d]
    BY <1>1, <1>2, <2>2
  <2>4. \A p \in (i + d)..(j + d - 1) : p - d \in i..(j - 1) /\ x[p - d] = w[p]
    <3> TAKE p \in (i + d)..(j + d - 1)
    <3>1. p - d \in i..(j - 1) /\ (p - d) + d = p
      BY <1>2, <2>2
    <3> QED
      BY <2>3, <3>1
  <2>5. \A p \in (i + d + 1)..(j + d) : p - d \in (i + 1)..j /\ At(x, u, p - d) = At(w, u, p)
    <3> TAKE p \in (i + d + 1)..(j + d)
    <3>1. p - d \in (i + 1)..j /\ p - d \in 1..(Len(x) + 1) /\ (p - d) + d = p
      BY <1>2, <2>2
    <3> QED
      BY <1>3, <3>1
  <2> HIDE DEF a, b
  <2>6. a.line <= b.line
    BY <2>1 DEF Stretch, a, b
  <2>7. a.line = b.line <=> \A p \in i..(j - 1) : ~x[p].last
    <3>1. a.line = b.line <=> \A p \in (i + d)..(j + d - 1) : ~w[p].last
      BY <2>1 DEF Stretch, a, b
    <3> QED
      BY <2>3, <2>4, <3>1
  <2>8. a.line = b.line => b.place = a.place + (j - i)
    <3>1. a.line = b.line => b.place = a.place + (j + d - (i + d))
      BY <2>1 DEF Stretch, a, b
    <3>2. j + d - (i + d) = j - i
      BY <1>2, <2>2
    <3> QED
      BY <3>1, <3>2
  <2>9. \A k \in a.line..(b.line - 1) : \E p \in i..(j - 1) : x[p].last /\ x[p].line = k
    <3> TAKE k \in a.line..(b.line - 1)
    <3>1. PICK p \in (i + d)..(j + d - 1) : w[p].last /\ w[p].line = k
      BY <2>1 DEF Stretch, a, b
    <3> QED
      BY <2>4, <3>1
  <2>10. a.line # b.line => \E p \in (i + 1)..j : At(x, u, p).line = b.line /\ At(x, u, p).place = 1
    <3> HAVE a.line # b.line
    <3>1. PICK p \in (i + d + 1)..(j + d) : At(w, u, p).line = b.line /\ At(w, u, p).place = 1
      BY <2>1 DEF Stretch, a, b
    <3> QED
      BY <2>5, <3>1
  <2> QED
    BY <2>2, <2>6, <2>7, <2>8, <2>9, <2>10 DEF Stretch
<1>5. IsOutput(x, u)
  BY <1>4 DEF IsOutput
<1>6. At(x, u, 1) = At(w, u, d + 1)
  <2>1. 1 \in 1..(Len(x) + 1) /\ 1 + d = d + 1
    BY <1>1, <1>2
  <2> QED
    BY <1>3, <2>1
<1> QED
  BY <1>1, <1>5, <1>6 DEF x

(***************************************************************************)
(* What a chunk cuts off the output.                                       *)
(***************************************************************************)

(* Without a newline the line under way goes on.                           *)
LEMMA NoNewline ==
    ASSUME NEW w \in Seq(Units), NEW u \in Places, IsOutput(w, u), NEW n \in 1..Len(w),
           Newlines(SubSeq(w, 1, n)) = {}
    PROVE  /\ At(w, u, n + 1).line = At(w, u, 1).line
           /\ At(w, u, n + 1).place = At(w, u, 1).place + n
           /\ w[n].line = At(w, u, 1).line
<1>1. SubSeq(w, 1, n) \in Seq(Units) /\ Len(SubSeq(w, 1, n)) = n /\ \A p \in 1..n : SubSeq(w, 1, n)[p] = w[p]
  OBVIOUS
<1>2. \A p \in 1..n : ~w[p].last
  <2> DEFINE b == SubSeq(w, 1, n)
  <2>1. DOMAIN b = 1..n
    BY <1>1
  <2>2. \A p \in DOMAIN b : ~b[p].last
    BY DEF Newlines
  <2> QED
    BY <1>1, <2>1, <2>2
<1>3. n \in Nat /\ 1 <= n /\ n + 1 \in 1..(Len(w) + 1) /\ n \in 1..(Len(w) + 1) /\ 1 \in 1..(Len(w) + 1) /\ n + 1 - 1 = n
  OBVIOUS
<1>4. Stretch(w, u, 1, n + 1) /\ Stretch(w, u, 1, n)
  BY <1>3 DEF IsOutput
<1>5. At(w, u, n) = w[n]
  BY DEF At
<1>6. At(w, u, n + 1).line = At(w, u, 1).line
  BY <1>2, <1>3, <1>4 DEF Stretch
<1>7. \A p \in 1..(n - 1) : ~w[p].last
  BY <1>2, <1>3
<1>8. At(w, u, n).line = At(w, u, 1).line
  BY <1>4, <1>7 DEF Stretch
<1>9. At(w, u, n + 1).place = At(w, u, 1).place + (n + 1 - 1)
  BY <1>4, <1>6 DEF Stretch
<1> QED
  BY <1>3, <1>5, <1>6, <1>8, <1>9

(* The lines that end among the first m units when unit m is a newline.    *)
Ended(w, u, m) == At(w, u, 1).line..w[m].line

LEMMA AfterNewline ==
    ASSUME NEW w \in Seq(Units), NEW u \in Places, IsOutput(w, u), NEW m \in 1..Len(w), w[m].last
    PROVE  At(w, u, m + 1).line = w[m].line + 1 /\ At(w, u, m + 1).place = 1
<1>1. m \in 1..(Len(w) + 1) /\ m + 1 \in 1..(Len(w) + 1) /\ m..(m + 1 - 1) = {m} /\ (m + 1)..(m + 1) = {m + 1} /\ m <= m + 1
  OBVIOUS
<1>2. Stretch(w, u, m, m + 1)
  BY <1>1 DEF IsOutput
<1>3. At(w, u, m) = w[m]
  BY DEF At
<1>4. w[m].line \in Nat /\ At(w, u, m + 1).line \in Nat
  BY <1>1, <1>3, AtType DEF Positive
<1>5. w[m].line # At(w, u, m + 1).line /\ w[m].line <= At(w, u, m + 1).line
  BY <1>1, <1>2, <1>3 DEF Stretch
<1>6. At(w, u, m + 1).line - 1 \in w[m].line..(At(w, u, m + 1).line - 1)
  BY <1>4, <1>5
<1>7. w[m].line = At(w, u, m + 1).line - 1
  BY <1>1, <1>2, <1>3, <1>6 DEF Stretch
<1>8. At(w, u, m + 1).place = 1
  BY <1>1, <1>2, <1>3, <1>5 DEF Stretch
<1> QED
  BY <1>4, <1>7, <1>8

LEMMA LinesEnded ==
    ASSUME NEW w \in Seq(Units), NEW u \in Places, IsOutput(w, u), NEW m \in 1..Len(w), w[m].last
    PROVE  /\ \A i \in 1..m : w[i].last => w[i].line \in Ended(w, u, m)
           /\ \A k \in Ended(w, u, m) : \E i \in 1..m : w[i].last /\ w[i].line = k
<1>1. m \in 1..(Len(w) + 1) /\ m + 1 \in 1..(Len(w) + 1) /\ 1 \in 1..(Len(w) + 1) /\ 1 <= m + 1 /\ m + 1 - 1 = m
  OBVIOUS
<1>2. \A i \in 1..m : i \in 1..(Len(w) + 1) /\ 1 <= i /\ i <= m /\ At(w, u, i) = w[i] /\ w[i].line \in Nat
  <2> TAKE i \in 1..m
  <2>1. i \in 1..(Len(w) + 1) /\ 1 <= i /\ i <= m /\ At(w, u, i) = w[i]
    BY DEF At
  <2> QED
    BY <2>1, AtType DEF Positive
<1>3. At(w, u, 1).line \in Nat /\ w[m].line \in Nat
  BY <1>1, <1>2, AtType DEF Positive
<1>4. ASSUME NEW i \in 1..m, w[i].last PROVE w[i].line \in Ended(w, u, m)
  <2>1. Stretch(w, u, 1, i) /\ Stretch(w, u, i, m)
    BY <1>1, <1>2 DEF IsOutput
  <2>2. At(w, u, 1).line <= w[i].line /\ w[i].line <= At(w, u, m).line
    BY <1>2, <2>1 DEF Stretch
  <2>3. At(w, u, m) = w[m]
    BY DEF At
  <2> QED
    BY <1>2, <1>3, <2>2, <2>3 DEF Ended
<1>5. ASSUME NEW k \in Ended(w, u, m) PROVE \E i \in 1..m : w[i].last /\ w[i].line = k
  <2>1. Stretch(w, u, 1, m + 1)
    BY <1>1 DEF IsOutput
  <2>2. At(w, u, m + 1).line - 1 = w[m].line
    BY <1>3, AfterNewline
  <2>3. \A l \in At(w, u, 1).line..(At(w, u, m + 1).line - 1) : \E p \in 1..(m + 1 - 1) : w[p].last /\ w[p].line = l
    BY <2>1 DEF Stretch
  <2> QED
    BY <1>1, <2>2, <2>3 DEF Ended
<1> QED
  BY <1>4, <1>5

(* Those of which the beginning is there too: all but one under way.       *)
LEMMA LinesWhole ==
    ASSUME NEW w \in Seq(Units), NEW u \in Places, IsOutput(w, u), NEW i \in 1..Len(w)
    PROVE  (\E j \in 1..i : w[j].line = w[i].line /\ w[j].place = 1)
           <=> (w[i].line = At(w, u, 1).line => At(w, u, 1).place = 1)
<1> DEFINE start == At(w, u, 1)
<1>1. \A j \in 1..i : j \in 1..Len(w) /\ j \in 1..(Len(w) + 1) /\ 1 <= j /\ At(w, u, j) = w[j] /\ w[j].line \in Nat /\ w[j].place \in Nat
  <2> TAKE j \in 1..i
  <2>1. j \in 1..(Len(w) + 1) /\ j \in 1..Len(w) /\ 1 <= j /\ At(w, u, j) = w[j]
    BY DEF At
  <2> QED
    BY <2>1, AtType DEF Positive
<1>2. i \in 1..i /\ 1 \in 1..i /\ \A p \in 2..i : p \in 1..i
  OBVIOUS
<1>3. start = w[1] /\ start.place \in Positive
  BY <1>1, <1>2, AtType
<1>4. \A j \in 1..i : Stretch(w, u, 1, j)
  BY <1>1, <1>2 DEF IsOutput
<1>5. CASE w[i].line # start.line
  <2>1. \E p \in (1 + 1)..i : At(w, u, p).line = At(w, u, i).line /\ At(w, u, p).place = 1
    BY <1>1, <1>2, <1>4, <1>5 DEF Stretch
  <2> QED
    BY <1>1, <1>2, <1>5, <2>1
<1>6. CASE w[i].line = start.line /\ start.place = 1
  BY <1>2, <1>3, <1>6
<1>7. CASE w[i].line = start.line /\ start.place # 1
  <2>1. ASSUME NEW j \in 1..i, w[j].line = start.line PROVE w[j].place # 1
    <3>1. w[j].place = start.place + (j - 1)
      BY <1>1, <1>4, <2>1 DEF Stretch
    <3>2. start.place \in Nat /\ start.place > 1 /\ j \in Nat /\ j >= 1
      BY <1>3, <1>7 DEF Positive
    <3> HIDE DEF start
    <3> QED
      BY <3>1, <3>2
  <2> QED
    BY <1>7, <2>1
<1> QED
  BY <1>5, <1>6, <1>7

(***************************************************************************)
(* The inductive invariant.                                                *)
(***************************************************************************)

(* What was read and not cut into lines, and what was not read.            *)
Output == stdoutBuffer \o pipe
Start == At(Output, nextUnit, 1)

TransportTypes ==
    /\ nextUnit \in Places
    /\ pipe \in Seq(Units) /\ stdoutBuffer \in Seq(Units)
    /\ delivered \in Seq(Nat)

(* The lines before the one under way were delivered or spoiled, and that  *)
(* one is spoiled when its beginning is gone.                              *)
Accounted ==
    /\ spoiled \in SUBSET (1..Start.line)
    /\ Start.line \in spoiled <=> Start.place # 1
    /\ IsInOrder(delivered, (1..(Start.line - 1)) \ spoiled)

TransportInv ==
    /\ TransportTypes
    /\ nextUnit.line <= MaxLines + 1
    /\ IsOutput(Output, nextUnit)
    /\ Newlines(stdoutBuffer) = {}
    /\ Accounted

LEMMA StartType ==
    ASSUME TransportTypes
    PROVE  Output \in Seq(Units) /\ Start.line \in Positive /\ Start.place \in Positive
<1>1. Output \in Seq(Units) /\ Len(Output) \in Nat
  BY DEF Output, TransportTypes
<1>2. 1 \in 1..(Len(Output) + 1)
  BY <1>1
<1> QED
  BY <1>1, <1>2, AtType DEF Start, TransportTypes

LEMMA TransportInitInv == TransportInit => TransportInv
<1> SUFFICES ASSUME TransportInit PROVE TransportInv
  OBVIOUS
<1>1. Output = <<>> /\ Len(<<>>) = 0
  BY DEF TransportInit, Output
<1>2. TransportTypes
  BY DEF TransportInit, TransportTypes, Places, Positive
<1>3. nextUnit.line = 1 /\ nextUnit.place = 1
  BY DEF TransportInit
<1>4. Start = nextUnit
  BY <1>1 DEF Start, At
<1>5. IsOutput(Output, nextUnit)
  BY <1>1, <1>2, OutputBegins DEF TransportTypes
<1>6. Newlines(stdoutBuffer) = {}
  <2>1. DOMAIN stdoutBuffer = {}
    BY DEF TransportInit
  <2> QED
    BY <2>1 DEF Newlines
<1>7. Accounted
  <2>1. spoiled = {} /\ delivered = <<>>
    BY DEF TransportInit
  <2>2. 1..(Start.line - 1) = {}
    BY <1>3, <1>4
  <2>3. DOMAIN delivered = {}
    BY <2>1
  <2>4. IsInOrder(delivered, {})
    BY <2>3 DEF IsInOrder
  <2> QED
    BY <1>3, <1>4, <2>1, <2>2, <2>4 DEF Accounted
<1> QED
  BY <1>2, <1>3, <1>5, <1>6, <1>7, TransportAssumption DEF TransportInv

(* What it means for the reader.                                           *)
LEMMA InvIsIntact ==
    ASSUME TransportInv
    PROVE  FramesIntact
<1> DEFINE l == Len(stdoutBuffer)
           here == At(Output, nextUnit, l + 1)
<1>1. Output \in Seq(Units) /\ Start.line \in Positive /\ TransportTypes
  BY StartType DEF TransportInv
<1>2. l \in Nat /\ Len(Output) = l + Len(pipe) /\ Len(pipe) \in Nat
  BY DEF TransportInv, TransportTypes, Output
<1>3. here.line = IF pipe = <<>> THEN nextUnit.line ELSE pipe[1].line
  <2>1. CASE pipe = <<>>
    <3>1. Len(pipe) = 0
      BY <2>1
    <3> QED
      BY <1>2, <2>1, <3>1 DEF At
  <2>2. CASE pipe # <<>>
    <3>1. Len(pipe) >= 1
      BY <1>2, <2>2 DEF TransportInv, TransportTypes
    <3>2. Output[l + 1] = pipe[1]
      BY <3>1 DEF Output, TransportInv, TransportTypes
    <3> QED
      BY <1>2, <2>2, <3>1, <3>2 DEF At
  <2> QED
    BY <2>1, <2>2
<1>4. here.line = Start.line
  <2>1. CASE l = 0
    BY <2>1 DEF Start
  <2>2. CASE l # 0
    <3>1. l \in 1..Len(Output)
      BY <1>2, <2>2
    <3>2. SubSeq(Output, 1, l) = stdoutBuffer
      BY <1>2 DEF Output, TransportInv, TransportTypes
    <3>3. Newlines(SubSeq(Output, 1, l)) = {}
      BY <3>2 DEF TransportInv
    <3> QED
      BY <1>1, <3>1, <3>3, NoNewline DEF Start, TransportInv, TransportTypes
  <2> QED
    BY <2>1, <2>2
<1>5. Start.line <= MaxLines + 1
  <2>1. 1 \in 1..(Len(Output) + 1) /\ Len(Output) + 1 \in 1..(Len(Output) + 1) /\ 1 <= Len(Output) + 1
    BY <1>2
  <2>2. Stretch(Output, nextUnit, 1, Len(Output) + 1)
    BY <2>1 DEF IsOutput, TransportInv
  <2>3. At(Output, nextUnit, Len(Output) + 1) = nextUnit
    BY <1>2 DEF At
  <2>4. Start.line <= nextUnit.line
    BY <2>2, <2>3 DEF Stretch, Start
  <2>5. nextUnit.line \in Nat
    BY <1>1 DEF TransportTypes, Places, Positive
  <2> QED
    BY <1>1, <2>4, <2>5, TransportAssumption DEF TransportInv, Positive
<1>6. LinesRead = {k \in 1..MaxLines : k < Start.line}
  BY <1>3, <1>4 DEF LinesRead
<1>7. {k \in 1..MaxLines : k < Start.line} = 1..(Start.line - 1)
  <2>1. Start.line \in Nat /\ MaxLines \in Nat
    BY <1>1, TransportAssumption DEF Positive
  <2>2. \A k : k \in 1..MaxLines /\ k < Start.line <=> k \in 1..(Start.line - 1)
    BY <1>5, <2>1
  <2> QED
    BY <2>2
<1> QED
  BY <1>6, <1>7 DEF FramesIntact, TransportInv, Accounted

(***************************************************************************)
(* The steps.                                                              *)
(***************************************************************************)

LEMMA WriteStep ==
    ASSUME TransportInv, NEW last \in BOOLEAN, WriteUnit(last)
    PROVE  TransportInv'
<1> DEFINE e == [line |-> nextUnit.line, place |-> nextUnit.place, last |-> last]
<1>1. /\ pipe' = Append(pipe, e) /\ nextUnit.line <= MaxLines
      /\ nextUnit' = IF last THEN [line |-> nextUnit.line + 1, place |-> 1] ELSE [nextUnit EXCEPT !.place = @ + 1]
      /\ stdoutBuffer' = stdoutBuffer /\ delivered' = delivered /\ spoiled' = spoiled
  BY DEF WriteUnit
<1>2. Output \in Seq(Units) /\ nextUnit \in Places /\ e \in Units /\ pipe \in Seq(Units) /\ stdoutBuffer \in Seq(Units)
  BY StartType DEF TransportInv, TransportTypes, Places, Units
<1>3. Output' = Append(Output, e)
  <2>1. stdoutBuffer \o Append(pipe, e) = Append(stdoutBuffer \o pipe, e)
    BY <1>2
  <2> QED
    BY <1>1, <2>1 DEF Output
<1> HIDE DEF e
<1>4. /\ Output' \in Seq(Units) /\ nextUnit' \in Places /\ IsOutput(Output, nextUnit)'
      /\ Start'.line = Start.line /\ Start'.place = Start.place
  BY <1>1, <1>2, <1>3, OutputGrows DEF TransportInv, Start, e
<1>5. TransportTypes'
  BY <1>1, <1>2, <1>4 DEF TransportInv, TransportTypes
<1>6. nextUnit'.line <= MaxLines + 1
  <2>1. nextUnit'.line = nextUnit.line \/ nextUnit'.line = nextUnit.line + 1
    BY <1>1, <1>2 DEF Places
  <2>2. nextUnit.line \in Nat
    BY <1>2 DEF Places, Positive
  <2> QED
    BY <1>1, <2>1, <2>2, TransportAssumption
<1>7. Newlines(stdoutBuffer)' = {}
  BY <1>1 DEF TransportInv
<1>8. Accounted'
  BY <1>1, <1>4 DEF TransportInv, Accounted
<1> QED
  BY <1>4, <1>5, <1>6, <1>7, <1>8 DEF TransportInv

LEMMA NoMessages ==
    ASSUME NEW b, Newlines(b) = {}
    PROVE  Messages(b) = <<>>
<1>1. {i \in Newlines(b) : \E j \in 1..i : b[j].line = b[i].line /\ b[j].place = 1} = {}
  OBVIOUS
<1>2. {b[i].line : i \in {}} = {}
  OBVIOUS
<1> QED
  BY <1>1, <1>2, InOrderOfNone DEF Messages

LEMMA NothingAfter ==
    ASSUME NEW b, Newlines(b) = {}
    PROVE  AfterLastNewline(b) = b
  BY DEF AfterLastNewline

(* The rest after the last newline.                                        *)
LEMMA LastNewline ==
    ASSUME NEW b \in Seq(Units), Newlines(b) # {}
    PROVE  \E m \in 1..Len(b) :
              /\ b[m].last
              /\ \A i \in Newlines(b) : i \in 1..m
              /\ AfterLastNewline(b) = SubSeq(b, m + 1, Len(b))
              /\ Newlines(SubSeq(b, m + 1, Len(b))) = {}
<1> DEFINE m == Max(Newlines(b))
<1>1. Newlines(b) \in SUBSET (1..Len(b)) /\ Len(b) \in Nat
  BY DEF Newlines
<1>2. IsFiniteSet(1..Len(b))
  BY <1>1, FS_Interval
<1>3. IsFiniteSet(Newlines(b)) /\ Newlines(b) \in SUBSET Nat
  BY <1>1, <1>2, FS_Subset
<1>4. m \in Newlines(b) /\ \A i \in Newlines(b) : i <= m
  BY <1>3, HasMax
<1>5. AfterLastNewline(b) = SubSeq(b, m + 1, Len(b))
  BY DEF AfterLastNewline
<1> HIDE DEF m
<1>6. m \in 1..Len(b) /\ b[m].last /\ \A i \in Newlines(b) : i \in 1..m
  BY <1>1, <1>4 DEF Newlines
<1>7. Newlines(SubSeq(b, m + 1, Len(b))) = {}
  <2> DEFINE r == SubSeq(b, m + 1, Len(b))
  <2>1. Len(r) = Len(b) - m /\ DOMAIN r = 1..Len(r) /\ \A i \in 1..Len(r) : r[i] = b[i + m] /\ i + m \in 1..Len(b) /\ i + m > m
    BY <1>1, <1>6
  <2>2. ASSUME NEW i \in DOMAIN r, r[i].last PROVE FALSE
    <3>1. i + m \in Newlines(b) /\ i + m > m
      <4> HIDE DEF r
      <4>1. i \in 1..Len(r)
        BY <2>1
      <4>2. b[i + m].last /\ i + m \in 1..Len(b) /\ i + m > m
        BY <2>1, <2>2, <4>1
      <4>3. DOMAIN b = 1..Len(b)
        OBVIOUS
      <4> QED
        BY <4>2, <4>3 DEF Newlines
    <3>2. i + m <= m /\ i + m \in Nat /\ m \in Nat
      BY <1>1, <1>4, <3>1
    <3> QED
      BY <3>1, <3>2
  <2> QED
    BY <2>2 DEF Newlines
<1> QED
  BY <1>5, <1>6, <1>7

(* The messages of a chunk: the lines that end in it, but one under way of *)
(* which the beginning is gone.                                            *)
LEMMA MessagesOf ==
    ASSUME NEW w \in Seq(Units), NEW u \in Places, IsOutput(w, u), NEW n \in 1..Len(w), NEW m \in 1..n,
           w[m].last, \A i \in Newlines(SubSeq(w, 1, n)) : i \in 1..m
    PROVE  /\ Messages(SubSeq(w, 1, n)) = InOrder({k \in Ended(w, u, m) : k = At(w, u, 1).line => At(w, u, 1).place = 1})
           /\ {SubSeq(w, 1, n)[i].line : i \in Newlines(SubSeq(w, 1, n))} = Ended(w, u, m)
<1> DEFINE b == SubSeq(w, 1, n)
           start == At(w, u, 1)
           whole == {i \in Newlines(b) : \E j \in 1..i : b[j].line = b[i].line /\ b[j].place = 1}
           sound == {k \in Ended(w, u, m) : k = start.line => start.place = 1}
<1>1. DOMAIN b = 1..n /\ \A p \in 1..n : b[p] = w[p] /\ p \in 1..Len(w)
  OBVIOUS
<1>2. m \in 1..Len(w) /\ \A i \in 1..m : i \in 1..n
  OBVIOUS
<1>3. Newlines(b) = {i \in 1..m : w[i].last}
  <2>1. \A i : i \in Newlines(b) <=> i \in 1..n /\ w[i].last
    BY <1>1 DEF Newlines
  <2> QED
    BY <1>2, <2>1
<1> HIDE DEF b
<1>4. \A i \in 1..m : w[i].last => w[i].line \in Ended(w, u, m)
  BY <1>2, LinesEnded
<1>5. \A k \in Ended(w, u, m) : \E i \in 1..m : w[i].last /\ w[i].line = k
  BY <1>2, LinesEnded
<1>6. ASSUME NEW i \in 1..m
      PROVE  (\E j \in 1..i : b[j].line = b[i].line /\ b[j].place = 1) <=> (w[i].line = start.line => start.place = 1)
  <2>1. i \in 1..Len(w) /\ b[i] = w[i] /\ \A j \in 1..i : b[j] = w[j]
    BY <1>1, <1>2
  <2> QED
    BY <2>1, LinesWhole
<1>7. {b[i].line : i \in Newlines(b)} = Ended(w, u, m)
  <2>1. \A i \in Newlines(b) : b[i].line \in Ended(w, u, m)
    BY <1>1, <1>2, <1>3, <1>4
  <2>2. \A k \in Ended(w, u, m) : \E i \in Newlines(b) : b[i].line = k
    BY <1>1, <1>2, <1>3, <1>5
  <2> QED
    BY <2>1, <2>2
<1>8. {b[i].line : i \in whole} = sound
  <2>1. \A i \in whole : b[i].line \in sound
    BY <1>1, <1>2, <1>3, <1>4, <1>6
  <2>2. \A k \in sound : \E i \in whole : b[i].line = k
    <3> TAKE k \in sound
    <3>1. PICK i \in 1..m : w[i].last /\ w[i].line = k
      BY <1>5
    <3>2. i \in whole /\ b[i].line = k
      BY <1>1, <1>2, <1>3, <1>6, <3>1
    <3> QED
      BY <3>2
  <2> QED
    BY <2>1, <2>2
<1>9. Messages(b) = InOrder(sound)
  BY <1>8 DEF Messages
<1> QED
  BY <1>7, <1>9 DEF b

(* The lines ended by a chunk are delivered, or an overflow costs them.    *)
LEMMA EndedAreAccounted ==
    ASSUME NEW s \in Positive, NEW e \in Positive, s <= e, NEW place, NEW old \in SUBSET (1..s),
           s \in old <=> place # 1, NEW d \in Seq(Nat), IsInOrder(d, (1..(s - 1)) \ old)
    PROVE  /\ LET t == d \o InOrder({k \in s..e : k = s => place = 1})
              IN  t \in Seq(Nat) /\ IsInOrder(t, (1..e) \ old)
           /\ IsInOrder(d, (1..e) \ (old \cup (s..e)))
           /\ old \in SUBSET (1..(e + 1)) /\ (old \cup (s..e)) \in SUBSET (1..(e + 1))
           /\ e + 1 \notin old /\ e + 1 \notin old \cup (s..e)
<1> DEFINE new == {k \in s..e : k = s => place = 1}
<1>1. s \in Nat /\ e \in Nat /\ s >= 1
  BY DEF Positive
<1>2. IsFiniteSet(s..e) /\ new \in SUBSET (s..e) /\ s..e \in SUBSET Nat
  BY <1>1, FS_Interval
<1>3. IsFiniteSet(new) /\ new \in SUBSET Nat
  BY <1>2, FS_Subset
<1>4. InOrder(new) \in [1..Cardinality(new) -> new] /\ Cardinality(new) \in Nat /\ IsInOrder(InOrder(new), new)
  BY <1>3, InOrderIsInOrder
<1>5. InOrder(new) \in Seq(Nat)
  <2> HIDE DEF new
  <2>1. InOrder(new) \in [1..Cardinality(new) -> Nat]
    BY <1>3, <1>4
  <2> QED
    BY <1>4, <2>1
<1>6. \A x \in (1..(s - 1)) \ old, y \in new : x < y
  BY <1>1
<1>7. ((1..(s - 1)) \ old) \cup new = (1..e) \ old
  BY <1>1
<1>8. (1..e) \ (old \cup (s..e)) = (1..(s - 1)) \ old
  BY <1>1
<1>9. old \in SUBSET (1..(e + 1)) /\ (old \cup (s..e)) \in SUBSET (1..(e + 1))
  BY <1>1
<1>10. e + 1 \notin old /\ e + 1 \notin old \cup (s..e)
  BY <1>1
<1> HIDE DEF new
<1>11. d \o InOrder(new) \in Seq(Nat) /\ IsInOrder(d \o InOrder(new), (1..e) \ old)
  BY <1>4, <1>5, <1>6, <1>7, OneAfterTheOther
<1> QED
  BY <1>8, <1>9, <1>10, <1>11 DEF new

(* The output after a chunk, of which the first d units are gone.          *)
LEMMA CutStep ==
    ASSUME TransportInv, nextUnit' = nextUnit, NEW d \in 0..Len(Output),
           Output' = SubSeq(Output, d + 1, Len(Output))
    PROVE  /\ IsOutput(Output, nextUnit)'
           /\ Start' = At(Output, nextUnit, d + 1)
  BY StartType, OutputIsCut DEF TransportInv, TransportTypes, Start

LEMMA ReadStep ==
    ASSUME TransportInv, NEW n \in 1..Len(pipe), ReadChunk(n)
    PROVE  TransportInv'
<1> DEFINE b == stdoutBuffer \o SubSeq(pipe, 1, n)
           z == Len(stdoutBuffer) + n
           over == Len(b) > MaxBuffer
<1>1. /\ pipe' = SubSeq(pipe, n + 1, Len(pipe))
      /\ delivered' = delivered \o Messages(Kept(b))
      /\ stdoutBuffer' = AfterLastNewline(Kept(b))
      /\ spoiled' = spoiled \cup
            (IF ~over THEN {} ELSE IF Newlines(b) = {} THEN {Last(b).line} ELSE {b[i].line : i \in Newlines(b)})
      /\ nextUnit' = nextUnit
  BY DEF ReadChunk
<1>2. /\ stdoutBuffer \in Seq(Units) /\ pipe \in Seq(Units) /\ nextUnit \in Places /\ delivered \in Seq(Nat)
      /\ Output \in Seq(Units) /\ Start.line \in Positive /\ Start.place \in Positive
  BY StartType DEF TransportInv, TransportTypes
<1>3. /\ b \in Seq(Units) /\ Len(b) = z /\ z \in 1..Len(Output) /\ b = SubSeq(Output, 1, z)
      /\ pipe' \in Seq(Units)
  <2>1. Len(stdoutBuffer) \in Nat /\ Len(pipe) \in Nat /\ Len(Output) = Len(stdoutBuffer) + Len(pipe)
    BY <1>2 DEF Output
  <2>2. z \in 1..Len(Output)
    BY <2>1
  <2>3. b \in Seq(Units) /\ Len(b) = z
    BY <1>2, <2>1
  <2>4. b = SubSeq(Output, 1, z)
    <3>1. \A i \in 1..z : b[i] = Output[i]
      BY <1>2, <2>1 DEF Output
    <3>2. SubSeq(Output, 1, z) \in Seq(Units) /\ Len(SubSeq(Output, 1, z)) = z /\ \A i \in 1..z : SubSeq(Output, 1, z)[i] = Output[i]
      BY <1>2, <2>2
    <3> HIDE DEF b, z
    <3> QED
      BY <2>3, <3>1, <3>2
  <2> QED
    BY <1>1, <1>2, <2>2, <2>3, <2>4
<1>4. \A m \in 0..z : SubSeq(b, m + 1, z) \o pipe' = SubSeq(Output, m + 1, Len(Output))
  BY <1>1, <1>2, RestOfBoth DEF Output
<1>a. /\ b \in Seq(Units) /\ Len(b) = z /\ z \in Nat /\ z >= 1
      /\ SubSeq(b, 0 + 1, z) = b /\ SubSeq(b, z + 1, z) = <<>>
  BY <1>3
<1>b. ~over => Kept(b) = b
  BY <1>a, TransportAssumption DEF Kept
<1>c. over => Kept(b) = IF Newlines(b) = {} THEN <<>> ELSE AfterLastNewline(b)
  BY <1>a, TransportAssumption DEF Kept
<1> HIDE DEF b, z, over
<1>5. CASE Newlines(b) = {} /\ ~over
  <2>1. Kept(b) = b /\ spoiled' = spoiled
    BY <1>1, <1>5, <1>b
  <2>2. stdoutBuffer' = b /\ delivered' = delivered
    <3>1. AfterLastNewline(b) = b /\ Messages(b) = <<>>
      BY <1>5, NothingAfter, NoMessages
    <3> QED
      BY <1>1, <1>2, <2>1, <3>1
  <2>3. Output' = Output
    <3>1. SubSeq(Output, 0 + 1, Len(Output)) = Output /\ 0 \in 0..z
      BY <1>2, <1>a
    <3>2. SubSeq(b, 0 + 1, z) \o pipe' = SubSeq(Output, 0 + 1, Len(Output))
      BY <1>4, <3>1
    <3> QED
      BY <1>a, <2>2, <3>1, <3>2 DEF Output
  <2>4. Start' = Start
    BY <1>1, <2>3 DEF Start
  <2>5. TransportTypes'
    BY <1>1, <1>2, <1>3, <2>2 DEF TransportTypes
  <2> QED
    BY <1>1, <1>5, <2>1, <2>2, <2>3, <2>4, <2>5 DEF TransportInv, Accounted
<1>6. CASE Newlines(b) = {} /\ over
  <2>1. Kept(b) = <<>>
    BY <1>6, <1>c
  <2>2. Newlines(<<>>) = {}
    BY DEF Newlines
  <2>3. stdoutBuffer' = <<>> /\ delivered' = delivered /\ spoiled' = spoiled \cup {Last(b).line}
    <3>1. AfterLastNewline(<<>>) = <<>> /\ Messages(<<>>) = <<>>
      BY <2>2, NothingAfter, NoMessages
    <3> QED
      BY <1>1, <1>2, <1>6, <2>1, <3>1
  <2>4. Output' = SubSeq(Output, z + 1, Len(Output))
    <3>1. z \in 0..z
      BY <1>a
    <3>2. SubSeq(b, z + 1, z) \o pipe' = SubSeq(Output, z + 1, Len(Output))
      BY <1>4, <3>1
    <3> QED
      BY <1>a, <2>3, <3>2 DEF Output
  <2>5. z \in 0..Len(Output)
    BY <1>3
  <2>6. IsOutput(Output, nextUnit)' /\ Start' = At(Output, nextUnit, z + 1)
    BY <1>1, <2>4, <2>5, CutStep
  <2>7. Start'.line = Start.line /\ Start'.place = Start.place + z /\ Output[z].line = Start.line
    <3>1. Newlines(SubSeq(Output, 1, z)) = {}
      BY <1>3, <1>6
    <3> QED
      BY <1>2, <1>3, <2>6, <3>1, NoNewline DEF Start, TransportInv
  <2>8. Last(b).line = Start.line
    <3>1. b[z] = Output[z]
      BY <1>2, <1>3
    <3> QED
      BY <1>3, <2>7, <3>1 DEF Last
  <2>9. Start'.place # 1
    BY <1>2, <1>3, <2>7 DEF Positive
  <2>10. TransportTypes'
    <3>1. <<>> \in Seq(Units)
      OBVIOUS
    <3> QED
      BY <1>1, <1>2, <1>3, <2>3, <3>1 DEF TransportTypes
  <2>11. Accounted'
    <3>0. Start.line \in Nat /\ Start.line >= 1 /\ spoiled' = spoiled \cup {Start.line} /\ spoiled \in SUBSET (1..Start.line)
      BY <1>2, <2>3, <2>8 DEF TransportInv, Accounted, Positive
    <3>1. spoiled' \in SUBSET (1..Start.line) /\ Start.line \in spoiled'
      <4>1. Start.line \in 1..Start.line
        BY <3>0
      <4>2. spoiled \cup {Start.line} \in SUBSET (1..Start.line)
        BY <3>0, <4>1, Zenon
      <4> QED
        BY <3>0, <4>2
    <3>2. (1..(Start.line - 1)) \ spoiled' = (1..(Start.line - 1)) \ spoiled
      BY <3>0
    <3> QED
      BY <2>3, <2>7, <2>9, <3>1, <3>2 DEF TransportInv, Accounted
  <2> QED
    BY <1>1, <2>2, <2>3, <2>6, <2>10, <2>11 DEF TransportInv
<1>7. CASE Newlines(b) # {}
  <2>1. PICK m \in 1..Len(b) :
              /\ b[m].last
              /\ \A i \in Newlines(b) : i \in 1..m
              /\ AfterLastNewline(b) = SubSeq(b, m + 1, Len(b))
              /\ Newlines(SubSeq(b, m + 1, Len(b))) = {}
    BY <1>3, <1>7, LastNewline
  <2> DEFINE rest == SubSeq(b, m + 1, z)
             ended == Ended(Output, nextUnit, m)
  <2>2. m \in 1..z /\ m \in 0..z /\ m \in 1..Len(Output) /\ m \in 0..Len(Output) /\ b[m] = Output[m]
    BY <1>2, <1>3
  <2>3. AfterLastNewline(b) = rest /\ Newlines(rest) = {} /\ rest \in Seq(Units) /\ Output[m].last
    <3>1. m \in 0..Len(b)
      BY <1>a, <2>2
    <3>2. SubSeq(b, m + 1, Len(b)) \in Seq(Units)
      BY <1>a, <3>1, SuffixOf
    <3> QED
      BY <1>a, <2>1, <2>2, <3>2
  <2>4. stdoutBuffer' = rest
    <3>1. AfterLastNewline(rest) = rest
      BY <2>3, NothingAfter
    <3> HIDE DEF rest
    <3> QED
      BY <1>1, <1>7, <1>b, <1>c, <2>3, <3>1
  <2> HIDE DEF rest
  <2>5. Output' = SubSeq(Output, m + 1, Len(Output))
    BY <1>4, <2>2, <2>4 DEF Output, rest
  <2>6. IsOutput(Output, nextUnit)' /\ Start' = At(Output, nextUnit, m + 1)
    BY <1>1, <2>2, <2>5, CutStep
  <2>7. Start'.line = Output[m].line + 1 /\ Start'.place = 1
    BY <1>2, <2>2, <2>3, <2>6, AfterNewline DEF TransportInv
  <2>8. /\ Messages(b) = InOrder({k \in ended : k = Start.line => Start.place = 1})
        /\ {b[i].line : i \in Newlines(b)} = ended
    <3>1. IsOutput(Output, nextUnit) /\ (\A i \in Newlines(SubSeq(Output, 1, z)) : i \in 1..m) /\ b = SubSeq(Output, 1, z)
      BY <1>3, <2>1 DEF TransportInv
    <3>2. z \in 1..Len(Output) /\ m \in 1..z
      BY <1>3, <2>2
    <3>3. /\ Messages(SubSeq(Output, 1, z))
               = InOrder({k \in Ended(Output, nextUnit, m) :
                            k = At(Output, nextUnit, 1).line => At(Output, nextUnit, 1).place = 1})
          /\ {SubSeq(Output, 1, z)[i].line : i \in Newlines(SubSeq(Output, 1, z))} = Ended(Output, nextUnit, m)
      BY <1>2, <2>3, <3>1, <3>2, MessagesOf
    <3> QED
      BY <3>1, <3>3 DEF Start
  <2>9. ended = Start.line..Output[m].line /\ Start.line <= Output[m].line /\ Output[m].line \in Positive
    <3>1. Stretch(Output, nextUnit, 1, m)
      BY <1>2, <2>2 DEF IsOutput, TransportInv
    <3>2. At(Output, nextUnit, m) = Output[m]
      BY <2>2 DEF At
    <3>3. Output[m] \in Units
      BY <1>2, <2>2
    <3> QED
      BY <3>1, <3>2, <3>3 DEF Ended, Start, Stretch, Units
  <2>10. /\ LET t == delivered \o InOrder({k \in ended : k = Start.line => Start.place = 1})
            IN  t \in Seq(Nat) /\ IsInOrder(t, (1..Output[m].line) \ spoiled)
         /\ IsInOrder(delivered, (1..Output[m].line) \ (spoiled \cup ended))
         /\ spoiled \in SUBSET (1..Start'.line) /\ (spoiled \cup ended) \in SUBSET (1..Start'.line)
         /\ Start'.line \notin spoiled /\ Start'.line \notin spoiled \cup ended
    <3> DEFINE e == Output[m].line
    <3>1. spoiled \in SUBSET (1..Start.line) /\ (Start.line \in spoiled <=> Start.place # 1)
          /\ IsInOrder(delivered, (1..(Start.line - 1)) \ spoiled)
      BY DEF TransportInv, Accounted
    <3>2. ended = Start.line..e /\ Start.line <= e /\ e \in Positive /\ Start'.line = e + 1
      BY <2>7, <2>9
    <3> HIDE DEF e, ended
    <3>3. /\ LET t == delivered \o InOrder({k \in Start.line..e : k = Start.line => Start.place = 1})
             IN  t \in Seq(Nat) /\ IsInOrder(t, (1..e) \ spoiled)
          /\ IsInOrder(delivered, (1..e) \ (spoiled \cup (Start.line..e)))
          /\ spoiled \in SUBSET (1..(e + 1)) /\ (spoiled \cup (Start.line..e)) \in SUBSET (1..(e + 1))
          /\ e + 1 \notin spoiled /\ e + 1 \notin spoiled \cup (Start.line..e)
      BY <1>2, <3>1, <3>2, EndedAreAccounted
    <3> QED
      BY <3>2, <3>3 DEF e
  <2>11. Start'.line - 1 = Output[m].line
    BY <2>7, <2>9 DEF Positive
  <2>12. delivered' \in Seq(Nat) /\ Accounted'
    <3>1. CASE ~over
      <4>1. Kept(b) = b /\ spoiled' = spoiled
        BY <1>1, <1>b, <3>1
      <4>2. delivered' = delivered \o InOrder({k \in ended : k = Start.line => Start.place = 1})
        BY <1>1, <2>8, <4>1
      <4> QED
        BY <2>7, <2>10, <2>11, <4>1, <4>2 DEF Accounted
    <3>2. CASE over
      <4>1. Kept(b) = rest /\ spoiled' = spoiled \cup ended
        BY <1>1, <1>7, <1>c, <2>3, <2>8, <3>2
      <4>2. delivered' = delivered
        <5>1. Messages(rest) = <<>>
          BY <2>3, NoMessages
        <5> QED
          BY <1>1, <1>2, <4>1, <5>1
      <4> QED
        BY <1>2, <2>7, <2>10, <2>11, <4>1, <4>2 DEF Accounted
    <3> QED
      BY <3>1, <3>2
  <2>13. TransportTypes'
    BY <1>1, <1>2, <1>3, <2>3, <2>4, <2>12 DEF TransportTypes
  <2> QED
    BY <1>1, <2>3, <2>4, <2>6, <2>12, <2>13 DEF TransportInv
<1> QED
  BY <1>5, <1>6, <1>7

LEMMA OtherStep ==
    ASSUME TransportInv, UNCHANGED <<nextUnit, pipe, stdoutBuffer, delivered, spoiled>>
    PROVE  TransportInv'
  BY DEF TransportInv, TransportTypes, Accounted, Start, Output

LEMMA TransportSpecInv == TransportSpec => []TransportInv
<1>1. TransportInv /\ [TransportNext]_transportVars => TransportInv'
  <2> SUFFICES ASSUME TransportInv, [TransportNext]_transportVars PROVE TransportInv'
    OBVIOUS
  <2>1. ASSUME NEW last \in BOOLEAN, WriteUnit(last) PROVE TransportInv'
    BY <2>1, WriteStep
  <2>2. ASSUME NEW n \in 1..Len(pipe), ReadChunk(n) PROVE TransportInv'
    BY <2>2, ReadStep
  <2>3. CASE StopReading \/ ChildExits \/ MonitorExit \/ Close \/ CloseStep
    BY <2>3, OtherStep DEF StopReading, ChildExits, MonitorExit, Close, CloseStep, CloseAnswered, SendTerm, SendKill
  <2>4. CASE UNCHANGED transportVars
    BY <2>4, OtherStep DEF transportVars
  <2> QED
    BY <2>1, <2>2, <2>3, <2>4 DEF TransportNext
<1> QED
  BY <1>1, TransportInitInv, PTL DEF TransportSpec

(* However the output of the child is cut into chunks, and whenever the    *)
(* buffer overflows, the lines that were read and that no overflow has     *)
(* cost are delivered once and in order (transport.ts 178-211).            *)
THEOREM LinesDelivered == TransportSpec => []FramesIntact
  BY TransportSpecInv, InvIsIntact, PTL

(***************************************************************************)
(* Skill files.  The markers of a file, once each, and what is around them *)
(* and between them.                                                       *)
(***************************************************************************)

Kinds == {"front", "start", "end", "generated", "manual", "text"}
Parts == [kind : Kinds, text : Texts \cup Sections \cup {Placeholder}, keys : SUBSET Texts]

NoMarkers(f) == f \in Seq(Parts) /\ \A i \in 1..Len(f) : f[i] # START /\ f[i] # END

MarkersAt(f, p, q) ==
    /\ f \in Seq(Parts)
    /\ p \in 1..Len(f) /\ q \in 1..Len(f) /\ p < q
    /\ \A i \in 1..Len(f) : (f[i] = START <=> i = p) /\ (f[i] = END <=> i = q)

IsMarked(f) == \E p, q \in Nat : MarkersAt(f, p, q)

(* The block from marker to marker.                                        *)
IsBlock(m) == MarkersAt(m, 1, Len(m))

LEMMA Markers ==
    /\ START \in Parts /\ END \in Parts /\ START # END
    /\ START.kind = "start" /\ END.kind = "end"
    /\ \A x \in Parts : x.kind \notin {"start", "end"} => x # START /\ x # END
    /\ <<START>> \in Seq(Parts) /\ <<END>> \in Seq(Parts)
<1>1. START = [kind |-> "start", text |-> Placeholder, keys |-> {}]
  BY DEF START, Part
<1>2. END = [kind |-> "end", text |-> Placeholder, keys |-> {}]
  BY DEF END, Part
<1>3. START \in Parts /\ END \in Parts
  <2>1. "start" \in Kinds /\ "end" \in Kinds
    BY DEF Kinds
  <2>2. Placeholder \in Texts \cup Sections \cup {Placeholder} /\ {} \in SUBSET Texts
    OBVIOUS
  <2>3. [kind |-> "start", text |-> Placeholder, keys |-> {}] \in Parts
    BY <2>1, <2>2, Zenon DEF Parts
  <2>4. [kind |-> "end", text |-> Placeholder, keys |-> {}] \in Parts
    BY <2>1, <2>2, Zenon DEF Parts
  <2> QED
    BY <1>1, <1>2, <2>3, <2>4
<1>4. START.kind = "start" /\ END.kind = "end"
  BY <1>1, <1>2
<1> QED
  BY <1>3, <1>4

LEMMA MarkedOutside ==
    ASSUME NEW f, NEW p, NEW q, MarkersAt(f, p, q)
    PROVE  /\ f # NoFile /\ Has(f, START) /\ Has(f, END)
           /\ First(f, START) = p /\ First(f, END) = q
           /\ Outside(f) = SubSeq(f, 1, p - 1) \o SubSeq(f, q + 1, Len(f))
           /\ {i \in DOMAIN f : f[i] = START} = {p}
<1>1. f \in Seq(Parts) /\ DOMAIN f = 1..Len(f) /\ p \in 1..Len(f) /\ q \in 1..Len(f) /\ p \in Nat /\ q \in Nat
  BY DEF MarkersAt
<1>2. f # NoFile
  BY <1>1, SkillAssumption DEF Parts, Kinds
<1>3. {i \in DOMAIN f : f[i] = START} = {p} /\ {i \in DOMAIN f : f[i] = END} = {q}
  BY <1>1 DEF MarkersAt
<1>4. Has(f, START) /\ Has(f, END)
  BY <1>1 DEF MarkersAt, Has, ToSet
<1>5. \A x \in Nat : Min({x}) = x
  BY DEF Min
<1>6. First(f, START) = p /\ First(f, END) = q
  BY <1>1, <1>3, <1>5 DEF First
<1> QED
  BY <1>2, <1>3, <1>4, <1>6 DEF Outside

LEMMA UnmarkedOutside ==
    ASSUME NEW f, NoMarkers(f)
    PROVE  /\ f # NoFile /\ ~Has(f, START) /\ ~Has(f, END)
           /\ Outside(f) = f
           /\ {i \in DOMAIN f : f[i] = START} = {}
<1>1. f \in Seq(Parts) /\ DOMAIN f = 1..Len(f)
  BY DEF NoMarkers
<1>2. f # NoFile
  BY <1>1, SkillAssumption DEF Parts, Kinds
<1>3. ~Has(f, START) /\ ~Has(f, END) /\ {i \in DOMAIN f : f[i] = START} = {}
  BY <1>1 DEF NoMarkers, Has, ToSet
<1> QED
  BY <1>2, <1>3 DEF Outside

(* A file put together of what comes before a block, the block, and what   *)
(* comes after it.                                                         *)
LEMMA Assembled ==
    ASSUME NEW h, NoMarkers(h), NEW m, IsBlock(m), NEW t, NoMarkers(t)
    PROVE  /\ MarkersAt(h \o m \o t, Len(h) + 1, Len(h) + Len(m))
           /\ Outside(h \o m \o t) = h \o t
<1> DEFINE hm == h \o m
           f == hm \o t
           p == Len(h) + 1
           q == Len(h) + Len(m)
<1>1. h \in Seq(Parts) /\ m \in Seq(Parts) /\ t \in Seq(Parts) /\ Len(h) \in Nat /\ Len(m) \in Nat /\ Len(t) \in Nat /\ 1 < Len(m)
  BY DEF NoMarkers, IsBlock, MarkersAt
<1>2. /\ hm \in Seq(Parts) /\ Len(hm) = q /\ \A i \in 1..Len(h) : hm[i] = h[i]
      /\ \A i \in (Len(h) + 1)..q : hm[i] = m[i - Len(h)]
  BY <1>1, Joined
<1> HIDE DEF hm
<1>3. /\ f \in Seq(Parts) /\ Len(f) = q + Len(t) /\ \A i \in 1..q : f[i] = hm[i]
      /\ \A i \in (q + 1)..(q + Len(t)) : f[i] = t[i - q]
  <2>1. /\ hm \o t \in Seq(Parts) /\ Len(hm \o t) = Len(hm) + Len(t)
        /\ \A i \in 1..Len(hm) : (hm \o t)[i] = hm[i]
        /\ \A i \in (Len(hm) + 1)..(Len(hm) + Len(t)) : (hm \o t)[i] = t[i - Len(hm)]
    <3>1. hm \in Seq(Parts) /\ t \in Seq(Parts)
      BY <1>1, <1>2
    <3> QED
      BY <3>1, Joined
  <2> HIDE DEF q
  <2> QED
    BY <1>2, <2>1
<1> HIDE DEF f
<1>4. \A i \in 1..Len(h) : f[i] = h[i]
  BY <1>1, <1>2, <1>3
<1>5. \A i \in (Len(h) + 1)..q : f[i] = m[i - Len(h)] /\ i - Len(h) \in 1..Len(m)
  BY <1>1, <1>2, <1>3
<1>6. p \in 1..Len(f) /\ q \in 1..Len(f) /\ p < q /\ q \in Nat /\ p \in Nat
  BY <1>1, <1>3
<1>7. ASSUME NEW i \in 1..Len(f) PROVE (f[i] = START <=> i = p) /\ (f[i] = END <=> i = q)
  <2>1. CASE i \in 1..Len(h)
    <3>1. f[i] # START /\ f[i] # END
      BY <1>4, <2>1 DEF NoMarkers
    <3>2. i # p /\ i # q
      BY <1>1, <2>1
    <3> QED
      BY <3>1, <3>2
  <2>2. CASE i \in (Len(h) + 1)..q
    <3>1. f[i] = m[i - Len(h)] /\ i - Len(h) \in 1..Len(m)
      BY <1>5, <2>2
    <3>2. (f[i] = START <=> i - Len(h) = 1) /\ (f[i] = END <=> i - Len(h) = Len(m))
      BY <3>1 DEF IsBlock, MarkersAt
    <3>3. (i - Len(h) = 1 <=> i = p) /\ (i - Len(h) = Len(m) <=> i = q)
      BY <1>1, <2>2
    <3> QED
      BY <3>2, <3>3
  <2>3. CASE i \in (q + 1)..(q + Len(t))
    <3>1. i - q \in 1..Len(t) /\ i # p /\ i # q
      BY <1>1, <1>6, <2>3
    <3>2. f[i] # START /\ f[i] # END
      BY <1>3, <2>3, <3>1 DEF NoMarkers
    <3> QED
      BY <3>1, <3>2
  <2>4. i \in 1..Len(h) \/ i \in (Len(h) + 1)..q \/ i \in (q + 1)..(q + Len(t))
    BY <1>1, <1>3
  <2> QED
    BY <2>1, <2>2, <2>3, <2>4
<1>8. MarkersAt(f, p, q)
  BY <1>3, <1>6, <1>7 DEF MarkersAt
<1>9. SubSeq(f, 1, p - 1) = h
  <2>1. p - 1 = Len(h) /\ Len(h) \in 0..Len(f)
    BY <1>1, <1>6
  <2>2. SubSeq(f, 1, Len(h)) \in Seq(Parts) /\ Len(SubSeq(f, 1, Len(h))) = Len(h) /\ \A i \in 1..Len(h) : SubSeq(f, 1, Len(h))[i] = f[i]
    BY <1>3, <2>1, PrefixOf
  <2>3. SubSeq(f, 1, Len(h)) = h
    BY <1>1, <1>4, <2>2, SameSequence
  <2> QED
    BY <2>1, <2>3
<1>10. SubSeq(f, q + 1, Len(f)) = t
  <2>1. q \in 0..Len(f) /\ Len(f) - q = Len(t)
    BY <1>1, <1>3, <1>6
  <2> DEFINE u == SubSeq(f, q + 1, Len(f))
  <2>2. u \in Seq(Parts) /\ Len(u) = Len(f) - q /\ \A i \in 1..(Len(f) - q) : u[i] = f[i + q]
    BY <1>3, <2>1, SuffixOf
  <2> HIDE DEF u
  <2>3. \A i \in 1..Len(t) : u[i] = t[i]
    <3> TAKE i \in 1..Len(t)
    <3>1. i + q \in (q + 1)..(q + Len(t)) /\ (i + q) - q = i
      BY <1>1, <1>6
    <3> QED
      BY <1>3, <2>1, <2>2, <3>1
  <2>4. u = t
    BY <1>1, <2>1, <2>2, <2>3, SameSequence
  <2> QED
    BY <2>4 DEF u
<1>11. Outside(f) = h \o t
  BY <1>8, <1>9, <1>10, MarkedOutside
<1> QED
  BY <1>8, <1>11 DEF f, hm

LEMMA Nothing == NoMarkers(<<>>)
<1>1. <<>> \in Seq(Parts) /\ Len(<<>>) = 0
  OBVIOUS
<1>2. 1..0 = {}
  OBVIOUS
<1> QED
  BY <1>1, <1>2 DEF NoMarkers

(* The parts of a file with markers.                                       *)
LEMMA TakenApart ==
    ASSUME NEW f, NEW p, NEW q, MarkersAt(f, p, q)
    PROVE  /\ NoMarkers(SubSeq(f, 1, p - 1))
           /\ NoMarkers(SubSeq(f, q + 1, Len(f)))
           /\ IsBlock(SubSeq(f, p, q))
<1>1. f \in Seq(Parts) /\ Len(f) \in Nat /\ p \in 1..Len(f) /\ q \in 1..Len(f) /\ p < q /\ p \in Nat /\ q \in Nat
  BY DEF MarkersAt
<1>2. \A i \in 1..Len(f) : (f[i] = START <=> i = p) /\ (f[i] = END <=> i = q)
  BY DEF MarkersAt
<1>3. NoMarkers(SubSeq(f, 1, p - 1))
  <2> DEFINE h == SubSeq(f, 1, p - 1)
  <2>1. p - 1 \in 0..Len(f)
    BY <1>1
  <2>2. h \in Seq(Parts) /\ Len(h) = p - 1 /\ \A i \in 1..(p - 1) : h[i] = f[i]
    BY <1>1, <2>1, PrefixOf
  <2> HIDE DEF h
  <2>3. \A i \in 1..(p - 1) : i \in 1..Len(f) /\ i # p /\ i # q
    BY <1>1
  <2>4. NoMarkers(h)
    BY <1>2, <2>2, <2>3 DEF NoMarkers
  <2> QED
    BY <2>4 DEF h
<1>4. NoMarkers(SubSeq(f, q + 1, Len(f)))
  <2> DEFINE t == SubSeq(f, q + 1, Len(f))
  <2>1. q \in 0..Len(f)
    BY <1>1
  <2>2. t \in Seq(Parts) /\ Len(t) = Len(f) - q /\ \A i \in 1..(Len(f) - q) : t[i] = f[i + q]
    BY <1>1, <2>1, SuffixOf
  <2> HIDE DEF t
  <2>3. \A i \in 1..(Len(f) - q) : i + q \in 1..Len(f) /\ i + q # p /\ i + q # q
    BY <1>1
  <2>4. NoMarkers(t)
    BY <1>2, <2>2, <2>3 DEF NoMarkers
  <2> QED
    BY <2>4 DEF t
<1>5. IsBlock(SubSeq(f, p, q))
  <2> DEFINE m == SubSeq(f, p, q)
             n == q - p + 1
  <2>1. m \in Seq(Parts) /\ Len(m) = n /\ \A i \in 1..n : m[i] = f[i + p - 1]
    BY <1>1
  <2> HIDE DEF m
  <2>2. n \in Nat /\ 1 < n /\ 1 \in 1..n /\ n \in 1..n
    BY <1>1
  <2>3. \A i \in 1..n : i + p - 1 \in 1..Len(f) /\ (i + p - 1 = p <=> i = 1) /\ (i + p - 1 = q <=> i = n)
    BY <1>1
  <2> HIDE DEF n
  <2>4. \A i \in 1..n : (m[i] = START <=> i = 1) /\ (m[i] = END <=> i = n)
    BY <1>2, <2>1, <2>3
  <2>5. IsBlock(m)
    BY <2>1, <2>2, <2>4 DEF IsBlock, MarkersAt
  <2> QED
    BY <2>5 DEF m
<1> QED
  BY <1>3, <1>4, <1>5

(* What a regeneration generates: the user's text is not part of it.       *)
IsContent(f) ==
    /\ \E q \in Nat : MarkersAt(f, 2, q)
    /\ f[1] = FrontMatter({})

LEMMA FrontPart ==
    /\ FrontMatter({}) \in Parts
    /\ FrontMatter({}).kind = "front" /\ FrontMatter({}).keys = {}
    /\ NoMarkers(<<FrontMatter({})>>)
<1> DEFINE x == FrontMatter({})
<1>1. x = [kind |-> "front", text |-> Placeholder, keys |-> {}]
  BY DEF FrontMatter, Part
<1>2. x \in Parts
  <2>1. "front" \in Kinds
    BY DEF Kinds
  <2>2. Placeholder \in Texts \cup Sections \cup {Placeholder} /\ {} \in SUBSET Texts
    OBVIOUS
  <2>3. [kind |-> "front", text |-> Placeholder, keys |-> {}] \in Parts
    BY <2>1, <2>2, Zenon DEF Parts
  <2> QED
    BY <1>1, <2>3
<1>3. x.kind = "front" /\ x.keys = {}
  BY <1>1
<1> HIDE DEF x
<1>4. x # START /\ x # END
  BY <1>2, <1>3, Markers
<1>5. <<x>> \in Seq(Parts) /\ Len(<<x>>) = 1 /\ <<x>>[1] = x
  BY <1>2
<1>6. NoMarkers(<<x>>)
  BY <1>4, <1>5 DEF NoMarkers
<1> QED
  BY <1>2, <1>3, <1>6 DEF x

(* The generated frontmatter before a text is not text of the user.        *)
LEMMA TextAfterFront ==
    ASSUME NEW s \in Seq(Parts)
    PROVE  TextOf(<<FrontMatter({})>> \o s) = TextOf(s)
<1> DEFINE x == FrontMatter({})
           c == <<x>> \o s
           K == {"manual", "text"}
           P == {i \in DOMAIN s : s[i].kind \in K}
           Q == {i \in DOMAIN c : c[i].kind \in K}
<1>1. x \in Parts /\ x.kind = "front" /\ x.keys = {}
  BY FrontPart
<1> HIDE DEF x
<1>2. Len(s) \in Nat /\ DOMAIN s = 1..Len(s)
  OBVIOUS
<1>3. DOMAIN c = 1..(Len(s) + 1) /\ c[1] = x /\ \A i \in 1..Len(s) : c[i + 1] = s[i]
  BY <1>1
<1> HIDE DEF c
<1>4. \A j \in 1..(Len(s) + 1) : j = 1 \/ (j - 1 \in 1..Len(s) /\ (j - 1) + 1 = j)
  BY <1>2
<1>5. \A i \in 1..Len(s) : i + 1 \in 1..(Len(s) + 1)
  BY <1>2
<1>6. Q = {i + 1 : i \in P}
  <2>1. ASSUME NEW j \in Q PROVE \E i \in P : j = i + 1
    <3>1. j \in 1..(Len(s) + 1) /\ c[j].kind \in K
      BY <1>3
    <3>2. j # 1
      BY <1>1, <1>3, <3>1
    <3>3. j - 1 \in 1..Len(s) /\ (j - 1) + 1 = j
      BY <1>4, <3>1, <3>2
    <3>4. c[j] = s[j - 1]
      BY <1>3, <3>3
    <3>5. j - 1 \in P
      BY <1>2, <3>1, <3>3, <3>4
    <3> QED
      BY <3>3, <3>5
  <2>2. ASSUME NEW i \in P PROVE i + 1 \in Q
    <3>1. i \in 1..Len(s) /\ s[i].kind \in K
      BY <1>2
    <3> QED
      BY <1>3, <1>5, <3>1
  <2> HIDE DEF P, Q
  <2> QED
    BY <2>1, <2>2
<1>7. P \in SUBSET (DOMAIN s)
  OBVIOUS
<1>8. Selected(c, Q) = Selected(s, P)
  <2> HIDE DEF P, Q
  <2> QED
    BY <1>1, <1>6, <1>7, SelectedAfterOne DEF c
<1>9. UNION {c[i].keys : i \in DOMAIN c} = UNION {s[i].keys : i \in DOMAIN s}
  <2>1. ASSUME NEW k, NEW j \in DOMAIN c, k \in c[j].keys PROVE \E i \in DOMAIN s : k \in s[i].keys
    <3>1. j # 1
      BY <1>1, <1>3, <2>1
    <3>2. j - 1 \in 1..Len(s) /\ (j - 1) + 1 = j
      BY <1>3, <1>4, <3>1
    <3>3. c[j] = s[j - 1]
      BY <1>3, <3>2
    <3> QED
      BY <1>2, <2>1, <3>2, <3>3
  <2>2. ASSUME NEW k, NEW i \in DOMAIN s, k \in s[i].keys PROVE \E j \in DOMAIN c : k \in c[j].keys
    BY <1>2, <1>3, <1>5, <2>2
  <2> QED
    BY <2>1, <2>2
<1> QED
  BY <1>8, <1>9 DEF TextOf, c, x

LEMMA JoinedUnmarked ==
    ASSUME NEW a, NoMarkers(a), NEW b, NoMarkers(b)
    PROVE  NoMarkers(a \o b)
<1>1. a \in Seq(Parts) /\ b \in Seq(Parts) /\ Len(a) \in Nat /\ Len(b) \in Nat
  BY DEF NoMarkers
<1> DEFINE c == a \o b
<1>2. /\ c \in Seq(Parts) /\ Len(c) = Len(a) + Len(b) /\ \A i \in 1..Len(a) : c[i] = a[i]
      /\ \A i \in (Len(a) + 1)..(Len(a) + Len(b)) : c[i] = b[i - Len(a)]
  BY <1>1, Joined
<1> HIDE DEF c
<1>3. \A i \in 1..Len(c) : i \in 1..Len(a) \/ (i \in (Len(a) + 1)..(Len(a) + Len(b)) /\ i - Len(a) \in 1..Len(b))
  BY <1>1, <1>2
<1>4. NoMarkers(c)
  BY <1>2, <1>3 DEF NoMarkers
<1> QED
  BY <1>4 DEF c

(* A merge leaves one block, and what the user wrote outside of it.        *)
LEMMA MergeKeeps ==
    ASSUME NEW e, NoMarkers(e) \/ IsMarked(e), NEW f, IsContent(f)
    PROVE  IsMarked(MergeContent(e, f)) /\ UserText(MergeContent(e, f)) = UserText(e)
<1> DEFINE auto == SubSeq(f, First(f, START), First(f, END))
           g == MergeContent(e, f)
<1>1. PICK q \in Nat : MarkersAt(f, 2, q)
  BY DEF IsContent
<1>2. IsBlock(auto)
  BY <1>1, MarkedOutside, TakenApart
<1> HIDE DEF auto
<1>3. auto \in Seq(Parts) /\ Len(auto) \in Nat
  BY <1>2 DEF IsBlock, MarkersAt
<1>4. CASE NoMarkers(e)
  <2>1. g = e \o auto
    BY <1>4, UnmarkedOutside DEF MergeContent, auto
  <2>2. e \o auto \o <<>> = e \o auto /\ e \o <<>> = e /\ Len(e) \in Nat
    BY <1>3, <1>4 DEF NoMarkers
  <2>3. MarkersAt(e \o auto \o <<>>, Len(e) + 1, Len(e) + Len(auto)) /\ Outside(e \o auto \o <<>>) = e \o <<>>
    BY <1>2, <1>4, Nothing, Assembled
  <2>4. Len(e) + 1 \in Nat /\ Len(e) + Len(auto) \in Nat
    BY <1>3, <2>2
  <2> HIDE DEF g
  <2>5. IsMarked(g)
    BY <2>1, <2>2, <2>3, <2>4 DEF IsMarked
  <2>6. Outside(g) = e
    BY <2>1, <2>2, <2>3
  <2>7. Outside(e) = e
    BY <1>4, UnmarkedOutside
  <2> QED
    BY <2>5, <2>6, <2>7 DEF UserText, g
<1>5. CASE IsMarked(e)
  <2>1. PICK p \in Nat, r \in Nat : MarkersAt(e, p, r)
    BY <1>5 DEF IsMarked
  <2> DEFINE head == SubSeq(e, 1, p - 1)
             t == SubSeq(e, r + 1, Len(e))
             mf == MergeFront(head, f)
  <2>2. Has(e, START) /\ Has(e, END) /\ First(e, START) = p /\ First(e, END) = r /\ Outside(e) = head \o t
    BY <2>1, MarkedOutside
  <2>3. NoMarkers(head) /\ NoMarkers(t)
    BY <2>1, TakenApart
  <2>4. g = mf \o auto \o t
    BY <2>2 DEF MergeContent, auto
  <2> HIDE DEF head, t
  <2>5. mf = head \/ mf = <<FrontMatter({})>> \o head
    BY DEF MergeFront, IsContent
  <2> HIDE DEF mf, g
  <2>6. NoMarkers(mf)
    BY <2>3, <2>5, FrontPart, JoinedUnmarked
  <2>7. MarkersAt(g, Len(mf) + 1, Len(mf) + Len(auto)) /\ Outside(g) = mf \o t
    BY <1>2, <2>3, <2>4, <2>6, Assembled
  <2>8. Len(mf) \in Nat /\ Len(mf) + 1 \in Nat /\ Len(mf) + Len(auto) \in Nat
    BY <1>3, <2>6 DEF NoMarkers
  <2>9. IsMarked(g)
    BY <2>7, <2>8 DEF IsMarked
  <2>10. TextOf(mf \o t) = TextOf(head \o t)
    <3>1. head \o t \in Seq(Parts) /\ head \in Seq(Parts) /\ t \in Seq(Parts) /\ <<FrontMatter({})>> \in Seq(Parts)
      BY <2>3, JoinedUnmarked, FrontPart DEF NoMarkers
    <3>2. TextOf(<<FrontMatter({})>> \o (head \o t)) = TextOf(head \o t)
      BY <3>1, TextAfterFront
    <3>3. (<<FrontMatter({})>> \o head) \o t = <<FrontMatter({})>> \o (head \o t)
      BY <3>1
    <3> QED
      BY <2>5, <3>2, <3>3
  <2> QED
    BY <2>2, <2>7, <2>9, <2>10 DEF UserText, g
<1> QED
  BY <1>4, <1>5

(* The sections of a file are put into the template after its block, or    *)
(* into the block.                                                         *)
ManualParts == {x \in Parts : x.kind = "manual"}

LEMMA TemplateParts ==
    /\ Template \in Seq(Parts) /\ Len(Template) = 5
    /\ Template[1] = FrontMatter({}) /\ Template[2] = START /\ Template[4] = END
    /\ Template[5] = Manual(Placeholder)
    /\ \A i \in {1, 3, 5} : Template[i] # START /\ Template[i] # END
    /\ START # END
<1>1. /\ Part("generated", Placeholder) = [kind |-> "generated", text |-> Placeholder, keys |-> {}]
      /\ Manual(Placeholder) = [kind |-> "manual", text |-> Placeholder, keys |-> {}]
  BY DEF Part, Manual
<1>2. "generated" \in Kinds /\ "manual" \in Kinds /\ Placeholder \in Texts \cup Sections \cup {Placeholder} /\ {} \in SUBSET Texts
  BY DEF Kinds
<1>3. [kind |-> "generated", text |-> Placeholder, keys |-> {}] \in Parts
  BY <1>2, Zenon DEF Parts
<1>4. [kind |-> "manual", text |-> Placeholder, keys |-> {}] \in Parts
  BY <1>2, Zenon DEF Parts
<1>5. Part("generated", Placeholder) \in Parts /\ Part("generated", Placeholder).kind = "generated"
  BY <1>1, <1>3
<1>6. Manual(Placeholder) \in Parts /\ Manual(Placeholder).kind = "manual"
  BY <1>1, <1>4
<1>7. FrontMatter({}) \in Parts /\ FrontMatter({}).kind = "front"
  BY FrontPart
<1>8. START \in Parts /\ END \in Parts /\ START # END
  BY Markers
<1>9. /\ Template \in Seq(Parts) /\ Len(Template) = 5
      /\ Template[1] = FrontMatter({}) /\ Template[2] = START /\ Template[3] = Part("generated", Placeholder)
      /\ Template[4] = END /\ Template[5] = Manual(Placeholder)
  BY <1>5, <1>6, <1>7, <1>8 DEF Template
<1>10. \A x \in {FrontMatter({}), Part("generated", Placeholder), Manual(Placeholder)} : x # START /\ x # END
  BY <1>5, <1>6, <1>7, Markers
<1> QED
  BY <1>8, <1>9, <1>10

LEMMA InjectIsContent ==
    ASSUME NEW sections \in Seq(ManualParts)
    PROVE  IsContent(InjectManualSections(Template, sections))
<1>1. MarkersAt(Template, 2, 4)
  <2>1. \A i \in 1..5 : i = 1 \/ i = 2 \/ i = 3 \/ i = 4 \/ i = 5
    OBVIOUS
  <2> QED
    BY <2>1, TemplateParts DEF MarkersAt
<1>2. CASE sections = <<>>
  <2>1. InjectManualSections(Template, sections) = Template
    BY <1>2 DEF InjectManualSections
  <2> QED
    BY <1>1, <2>1, TemplateParts DEF IsContent
<1>3. CASE sections # <<>>
  <2> DEFINE a == SubSeq(Template, 1, 3)
             b == Tail(sections)
             c == <<END>>
             d == <<Head(sections)>>
             n == Len(b)
             f == a \o b \o c \o d
  <2>1. /\ Head(sections) \in Parts /\ Head(sections).kind = "manual"
        /\ b \in Seq(ManualParts) /\ n \in Nat /\ \A i \in 1..n : b[i] \in ManualParts
    BY <1>3 DEF ManualParts
  <2>2. /\ d \in Seq(Parts) /\ Len(d) = 1 /\ d[1] = Head(sections)
        /\ c \in Seq(Parts) /\ Len(c) = 1 /\ c[1] = END
        /\ b \in Seq(Parts)
    BY <2>1, Markers DEF ManualParts
  <2>3. /\ a \in Seq(Parts) /\ Len(a) = 3
        /\ a[1] = FrontMatter({}) /\ a[2] = START /\ a[3] # START /\ a[1] # START /\ a[1] # END /\ a[2] # END /\ a[3] # END
    <3>1. 3 \in 0..Len(Template)
      BY TemplateParts
    <3>2. a \in Seq(Parts) /\ Len(a) = 3 /\ \A i \in 1..3 : a[i] = Template[i]
      BY <3>1, TemplateParts, PrefixOf
    <3> HIDE DEF a
    <3>3. a[1] = Template[1] /\ a[2] = Template[2] /\ a[3] = Template[3]
      BY <3>2
    <3> QED
      BY <3>2, <3>3, TemplateParts
  <2>4. InjectManualSections(Template, sections) = f
    <3>1. First(Template, END) = 4
      BY <1>1, MarkedOutside
    <3>2. [i \in 1..(Len(Template) - 4) |->
              IF Template[4 + i] = Manual(Placeholder) THEN Head(sections) ELSE Template[4 + i]] = d
      <4>1. Len(Template) - 4 = 1 /\ 1..1 = {1} /\ Template[4 + 1] = Manual(Placeholder)
        BY TemplateParts
      <4>2. d = [i \in {1} |-> Head(sections)]
        BY <2>1, <4>1
      <4> QED
        BY <4>1, <4>2
    <3>3. 4 - 1 = 3
      OBVIOUS
    <3> QED
      BY <1>3, <3>1, <3>2, <3>3 DEF InjectManualSections
  <2> HIDE DEF a, b, c, d, n
  <2>5. /\ f \in Seq(Parts) /\ Len(f) = n + 5
        /\ f[1] = a[1] /\ f[2] = a[2] /\ f[3] = a[3]
        /\ (\A i \in 4..(n + 3) : f[i] = b[i - 3])
        /\ f[n + 4] = END /\ f[n + 5] = Head(sections)
    <3> DEFINE ab == a \o b
               abc == ab \o c
    <3>1. /\ ab \in Seq(Parts) /\ Len(ab) = 3 + n /\ (\A i \in 1..3 : ab[i] = a[i])
          /\ \A i \in 4..(n + 3) : ab[i] = b[i - 3]
      <4>1. /\ ab \in Seq(Parts) /\ Len(ab) = Len(a) + Len(b) /\ (\A i \in 1..Len(a) : ab[i] = a[i])
            /\ \A i \in (Len(a) + 1)..(Len(a) + Len(b)) : ab[i] = b[i - Len(a)]
        BY <2>2, <2>3, Joined
      <4>2. 3 + 1 = 4 /\ 3 + n = n + 3
        BY <2>1
      <4> HIDE DEF ab
      <4> QED
        BY <2>3, <4>1, <4>2 DEF n
    <3> HIDE DEF ab
    <3>2. /\ abc \in Seq(Parts) /\ Len(abc) = n + 4 /\ (\A i \in 1..(n + 3) : abc[i] = ab[i])
          /\ abc[n + 4] = END
      <4>1. /\ abc \in Seq(Parts) /\ Len(abc) = Len(ab) + Len(c) /\ (\A i \in 1..Len(ab) : abc[i] = ab[i])
            /\ \A i \in (Len(ab) + 1)..(Len(ab) + Len(c)) : abc[i] = c[i - Len(ab)]
        BY <2>2, <3>1, Joined
      <4>2. Len(ab) = n + 3 /\ n + 4 \in (n + 3 + 1)..(n + 3 + 1) /\ n + 4 - (n + 3) = 1 /\ n + 3 + 1 = n + 4
        BY <2>1, <3>1
      <4> HIDE DEF abc
      <4> QED
        BY <2>2, <4>1, <4>2
    <3> HIDE DEF abc
    <3>3. /\ f \in Seq(Parts) /\ Len(f) = n + 5 /\ (\A i \in 1..(n + 4) : f[i] = abc[i])
          /\ f[n + 5] = Head(sections)
      <4>0. f = abc \o d
        BY DEF abc, ab
      <4> HIDE DEF f
      <4>1. /\ f \in Seq(Parts) /\ Len(f) = Len(abc) + Len(d) /\ (\A i \in 1..Len(abc) : f[i] = abc[i])
            /\ \A i \in (Len(abc) + 1)..(Len(abc) + Len(d)) : f[i] = d[i - Len(abc)]
        BY <2>2, <3>2, <4>0, Joined
      <4>2. n + 5 \in (n + 4 + 1)..(n + 4 + 1) /\ n + 5 - (n + 4) = 1 /\ n + 4 + 1 = n + 5
        BY <2>1
      <4> QED
        BY <2>2, <3>2, <4>1, <4>2
    <3> HIDE DEF f
    <3>4. n + 4 \in 1..(n + 4) /\ \A i \in 4..(n + 3) : i \in 1..(n + 3) /\ i \in 1..(n + 4)
      BY <2>1
    <3>5. \A i \in 1..3 : i \in 1..(n + 3) /\ i \in 1..(n + 4)
      BY <2>1
    <3>6. 1 \in 1..3 /\ 2 \in 1..3 /\ 3 \in 1..3
      OBVIOUS
    <3>7. \A i \in 1..3 : f[i] = a[i]
      BY <3>1, <3>2, <3>3, <3>5
    <3>8. \A i \in 4..(n + 3) : f[i] = b[i - 3]
      BY <3>1, <3>2, <3>3, <3>4
    <3>9. f[n + 4] = END
      BY <3>2, <3>3, <3>4
    <3> QED
      BY <3>3, <3>6, <3>7, <3>8, <3>9
  <2> HIDE DEF f
  <2>6. Head(sections) # START /\ Head(sections) # END /\ \A i \in 1..n : b[i] # START /\ b[i] # END
    BY <2>1, Markers DEF ManualParts
  <2>7. \A i \in 4..(n + 3) : f[i] # START /\ f[i] # END
    <3>1. \A i \in 4..(n + 3) : i - 3 \in 1..n
      BY <2>1
    <3> QED
      BY <2>5, <2>6, <3>1
  <2>8. \A i \in 1..(n + 5) : i = 1 \/ i = 2 \/ i = 3 \/ i \in 4..(n + 3) \/ i = n + 4 \/ i = n + 5
    BY <2>1
  <2>9. \A i \in 4..(n + 3) : i # 2 /\ i # n + 4
    BY <2>1
  <2>10. 2 # n + 4 /\ 1 # n + 4 /\ 3 # n + 4 /\ n + 5 # 2 /\ n + 5 # n + 4 /\ 2 < n + 4 /\ 2 \in 1..(n + 5) /\ n + 4 \in 1..(n + 5) /\ n + 4 \in Nat
    BY <2>1
  <2>11. \A i \in 1..(n + 5) : (f[i] = START <=> i = 2) /\ (f[i] = END <=> i = n + 4)
    BY <2>3, <2>5, <2>6, <2>7, <2>8, <2>9, <2>10, TemplateParts
  <2>12. MarkersAt(f, 2, n + 4)
    BY <2>5, <2>10, <2>11 DEF MarkersAt
  <2> QED
    BY <2>3, <2>4, <2>5, <2>10, <2>12 DEF IsContent
<1> QED
  BY <1>2, <1>3

(* What the user may do to a file: the markers stay as they are.           *)
IsSkillFile(f) == NoMarkers(f) \/ IsMarked(f)

LEMMA InsertKeeps ==
    ASSUME NEW f, IsSkillFile(f), NEW k \in 2..(Len(f) + 1), NEW x \in Parts, x # START, x # END
    PROVE  IsSkillFile(InsertAt(f, k, x))
<1> DEFINE h == SubSeq(f, 1, k - 1)
           t == SubSeq(f, k, Len(f))
           n == Len(f)
           g == InsertAt(f, k, x)
<1>1. f \in Seq(Parts) /\ n \in Nat /\ k \in Nat /\ k - 1 \in 0..n
  BY DEF IsSkillFile, NoMarkers, IsMarked, MarkersAt
<1>2. /\ g \in Seq(Parts) /\ Len(g) = n + 1 /\ (\A i \in 1..(k - 1) : g[i] = f[i])
      /\ g[k] = x /\ \A i \in (k + 1)..(n + 1) : g[i] = f[i - 1]
  <2>1. h \in Seq(Parts) /\ Len(h) = k - 1 /\ \A i \in 1..(k - 1) : h[i] = f[i]
    BY <1>1, PrefixOf
  <2>2. t \in Seq(Parts) /\ Len(t) = n - (k - 1) /\ \A i \in 1..(n - (k - 1)) : t[i] = f[i + (k - 1)]
    <3>1. t = SubSeq(f, (k - 1) + 1, Len(f))
      BY <1>1
    <3> HIDE DEF t
    <3> QED
      BY <1>1, <3>1, SuffixOf
  <2>3. <<x>> \in Seq(Parts) /\ Len(<<x>>) = 1 /\ <<x>>[1] = x
    OBVIOUS
  <2> DEFINE y == <<x>>
             hx == h \o y
  <2>4. g = hx \o t
    BY DEF InsertAt
  <2> HIDE DEF h, t, y, g
  <2>5. /\ hx \in Seq(Parts) /\ Len(hx) = k /\ (\A i \in 1..(k - 1) : hx[i] = h[i]) /\ hx[k] = x
    <3>1. /\ hx \in Seq(Parts) /\ Len(hx) = Len(h) + Len(y) /\ (\A i \in 1..Len(h) : hx[i] = h[i])
          /\ \A i \in (Len(h) + 1)..(Len(h) + Len(y)) : hx[i] = y[i - Len(h)]
      BY <2>1, <2>3, Joined DEF y
    <3>2. k \in (k - 1 + 1)..(k - 1 + 1) /\ k - (k - 1) = 1 /\ k - 1 + 1 = k
      BY <1>1
    <3> HIDE DEF hx
    <3> QED
      BY <2>1, <2>3, <3>1, <3>2 DEF y
  <2> HIDE DEF hx
  <2>6. /\ g \in Seq(Parts) /\ Len(g) = Len(hx) + Len(t) /\ (\A i \in 1..Len(hx) : g[i] = hx[i])
        /\ \A i \in (Len(hx) + 1)..(Len(hx) + Len(t)) : g[i] = t[i - Len(hx)]
    <3>1. hx \in Seq(Parts) /\ t \in Seq(Parts)
      BY <2>2, <2>5
    <3>2. /\ hx \o t \in Seq(Parts) /\ Len(hx \o t) = Len(hx) + Len(t) /\ (\A i \in 1..Len(hx) : (hx \o t)[i] = hx[i])
          /\ \A i \in (Len(hx) + 1)..(Len(hx) + Len(t)) : (hx \o t)[i] = t[i - Len(hx)]
      BY <3>1, Joined
    <3> QED
      BY <2>4, <3>2
  <2>7. Len(hx) + Len(t) = n + 1
    BY <1>1, <2>2, <2>5
  <2>8. \A i \in 1..(k - 1) : i \in 1..k
    BY <1>1
  <2>9. k \in 1..k
    BY <1>1
  <2>10. \A i \in (k + 1)..(n + 1) : i - k \in 1..(n - (k - 1)) /\ (i - k) + (k - 1) = i - 1
    BY <1>1
  <2>11. \A i \in 1..(k - 1) : g[i] = f[i]
    BY <2>1, <2>5, <2>6, <2>8
  <2>12. g[k] = x
    BY <2>5, <2>6, <2>9
  <2>13. \A i \in (k + 1)..(n + 1) : g[i] = f[i - 1]
    <3> TAKE i \in (k + 1)..(n + 1)
    <3>1. g[i] = t[i - k]
      BY <2>5, <2>6, <2>7
    <3> QED
      BY <2>2, <2>10, <3>1
  <2> QED
    BY <2>6, <2>7, <2>11, <2>12, <2>13
<1> HIDE DEF g
<1>3. \A i \in 1..(n + 1) : \/ (i \in 1..(k - 1) /\ i \in 1..n /\ i < k)
                           \/ i = k
                           \/ (i \in (k + 1)..(n + 1) /\ i - 1 \in 1..n /\ i > k /\ i - 1 >= k)
  BY <1>1
<1>4. CASE NoMarkers(f)
  <2>1. \A i \in 1..n : f[i] # START /\ f[i] # END
    BY <1>4 DEF NoMarkers
  <2>2. \A i \in 1..(n + 1) : g[i] # START /\ g[i] # END
    BY <1>2, <1>3, <2>1
  <2> QED
    BY <1>2, <2>2 DEF IsSkillFile, NoMarkers, g
<1>5. CASE IsMarked(f)
  <2>1. PICK p \in Nat, q \in Nat : MarkersAt(f, p, q)
    BY <1>5 DEF IsMarked
  <2>2. p \in 1..n /\ q \in 1..n /\ p < q /\ \A i \in 1..n : (f[i] = START <=> i = p) /\ (f[i] = END <=> i = q)
    BY <2>1 DEF MarkersAt
  <2> DEFINE a == IF p < k THEN p ELSE p + 1
             b == IF q < k THEN q ELSE q + 1
  <2>3. a \in 1..(n + 1) /\ b \in 1..(n + 1) /\ a < b /\ a # k /\ b # k /\ a \in Nat /\ b \in Nat
    BY <1>1, <2>2
  <2>4. ASSUME NEW i \in 1..(n + 1) PROVE (g[i] = START <=> i = a) /\ (g[i] = END <=> i = b)
    <3>1. CASE i \in 1..(k - 1) /\ i \in 1..n /\ i < k
      <4>1. (i = a <=> i = p) /\ (i = b <=> i = q)
        BY <1>1, <2>2, <3>1
      <4> QED
        BY <1>2, <2>2, <3>1, <4>1
    <3>2. CASE i = k
      <4>1. g[i] # START /\ g[i] # END
        BY <1>2, <3>2
      <4> QED
        BY <2>3, <3>2, <4>1
    <3>3. CASE i \in (k + 1)..(n + 1) /\ i - 1 \in 1..n /\ i > k /\ i - 1 >= k
      <4>1. (i = a <=> i - 1 = p) /\ (i = b <=> i - 1 = q)
        BY <1>1, <2>2, <3>3
      <4> QED
        BY <1>2, <2>2, <3>3, <4>1
    <3> QED
      BY <1>3, <3>1, <3>2, <3>3
  <2> HIDE DEF a, b
  <2>5. MarkersAt(g, a, b)
    BY <1>2, <2>3, <2>4 DEF MarkersAt
  <2> QED
    BY <2>3, <2>5 DEF IsSkillFile, IsMarked, g
<1> QED
  BY <1>4, <1>5 DEF IsSkillFile

LEMMA RemoveKeeps ==
    ASSUME NEW f, IsSkillFile(f), NEW k \in 2..Len(f), f[k] # START, f[k] # END
    PROVE  IsSkillFile(RemoveAt(f, k))
<1> DEFINE h == SubSeq(f, 1, k - 1)
           t == SubSeq(f, k + 1, Len(f))
           n == Len(f)
           g == RemoveAt(f, k)
<1>1. f \in Seq(Parts) /\ n \in Nat /\ k \in Nat /\ k - 1 \in 0..n /\ k \in 0..n /\ k \in 1..n
  BY DEF IsSkillFile, NoMarkers, IsMarked, MarkersAt
<1>2. /\ g \in Seq(Parts) /\ Len(g) = n - 1 /\ (\A i \in 1..(k - 1) : g[i] = f[i])
      /\ \A i \in k..(n - 1) : g[i] = f[i + 1]
  <2>1. h \in Seq(Parts) /\ Len(h) = k - 1 /\ \A i \in 1..(k - 1) : h[i] = f[i]
    BY <1>1, PrefixOf
  <2>2. t \in Seq(Parts) /\ Len(t) = n - k /\ \A i \in 1..(n - k) : t[i] = f[i + k]
    BY <1>1, SuffixOf
  <2>3. g = h \o t
    BY DEF RemoveAt
  <2> HIDE DEF h, t, g
  <2>4. /\ g \in Seq(Parts) /\ Len(g) = Len(h) + Len(t) /\ (\A i \in 1..Len(h) : g[i] = h[i])
        /\ \A i \in (Len(h) + 1)..(Len(h) + Len(t)) : g[i] = t[i - Len(h)]
    BY <2>1, <2>2, <2>3, Joined
  <2>5. Len(h) + Len(t) = n - 1 /\ Len(h) + 1 = k
    BY <1>1, <2>1, <2>2
  <2>6. \A i \in k..(n - 1) : i - (k - 1) \in 1..(n - k) /\ i - (k - 1) + k = i + 1
    BY <1>1
  <2>7. \A i \in 1..(k - 1) : g[i] = f[i]
    BY <2>1, <2>4
  <2>8. \A i \in k..(n - 1) : g[i] = f[i + 1]
    <3> TAKE i \in k..(n - 1)
    <3>1. g[i] = t[i - (k - 1)]
      BY <2>1, <2>4, <2>5
    <3> QED
      BY <2>2, <2>6, <3>1
  <2> QED
    BY <2>4, <2>5, <2>7, <2>8
<1> HIDE DEF g
<1>3. \A i \in 1..(n - 1) : \/ (i \in 1..(k - 1) /\ i \in 1..n /\ i < k)
                           \/ (i \in k..(n - 1) /\ i + 1 \in 1..n /\ i + 1 > k)
  BY <1>1
<1>4. CASE NoMarkers(f)
  <2>1. \A i \in 1..n : f[i] # START /\ f[i] # END
    BY <1>4 DEF NoMarkers
  <2>2. \A i \in 1..(n - 1) : g[i] # START /\ g[i] # END
    BY <1>2, <1>3, <2>1
  <2> QED
    BY <1>2, <2>2 DEF IsSkillFile, NoMarkers, g
<1>5. CASE IsMarked(f)
  <2>1. PICK p \in Nat, q \in Nat : MarkersAt(f, p, q)
    BY <1>5 DEF IsMarked
  <2>2. p \in 1..n /\ q \in 1..n /\ p < q /\ \A i \in 1..n : (f[i] = START <=> i = p) /\ (f[i] = END <=> i = q)
    BY <2>1 DEF MarkersAt
  <2>3. p # k /\ q # k
    BY <1>1, <2>2
  <2> DEFINE a == IF p < k THEN p ELSE p - 1
             b == IF q < k THEN q ELSE q - 1
  <2>4. a \in 1..(n - 1) /\ b \in 1..(n - 1) /\ a < b /\ a \in Nat /\ b \in Nat
    BY <1>1, <2>2, <2>3
  <2>5. ASSUME NEW i \in 1..(n - 1) PROVE (g[i] = START <=> i = a) /\ (g[i] = END <=> i = b)
    <3>1. CASE i \in 1..(k - 1) /\ i \in 1..n /\ i < k
      <4>1. (i = a <=> i = p) /\ (i = b <=> i = q)
        BY <1>1, <2>2, <2>3, <3>1
      <4> QED
        BY <1>2, <2>2, <3>1, <4>1
    <3>2. CASE i \in k..(n - 1) /\ i + 1 \in 1..n /\ i + 1 > k
      <4>1. (i = a <=> i + 1 = p) /\ (i = b <=> i + 1 = q)
        BY <1>1, <2>2, <2>3, <3>2
      <4> QED
        BY <1>2, <2>2, <3>2, <4>1
    <3> QED
      BY <1>3, <3>1, <3>2
  <2> HIDE DEF a, b
  <2>6. MarkersAt(g, a, b)
    BY <1>2, <2>4, <2>5 DEF MarkersAt
  <2> QED
    BY <2>4, <2>6 DEF IsSkillFile, IsMarked, g
<1> QED
  BY <1>4, <1>5 DEF IsSkillFile

LEMMA FrontKeeps ==
    ASSUME NEW f, IsSkillFile(f), NEW t \in Texts, f[1].kind = "front"
    PROVE  IsSkillFile([f EXCEPT ![1].keys = @ \cup {t}])
<1> DEFINE g == [f EXCEPT ![1].keys = @ \cup {t}]
           x == [f[1] EXCEPT !.keys = @ \cup {t}]
<1>1. f \in Seq(Parts)
  BY DEF IsSkillFile, NoMarkers, IsMarked, MarkersAt
<1>2. CASE f = <<>>
  <2>1. g = f
    BY <1>2
  <2> QED
    BY <2>1
<1>3. CASE f # <<>>
  <2>1. 1 \in 1..Len(f) /\ f[1] \in Parts
    BY <1>1, <1>3
  <2>2. x \in Parts /\ x.kind = "front"
    <3>1. PICK y \in Parts : y = f[1]
      BY <2>1
    <3>2. PICK k \in Kinds, w \in Texts \cup Sections \cup {Placeholder}, ks \in SUBSET Texts :
             y = [kind |-> k, text |-> w, keys |-> ks]
      BY <3>1, Zenon DEF Parts
    <3>3. x = [y EXCEPT !.keys = @ \cup {t}]
      BY <3>1
    <3> HIDE DEF x
    <3>4. x = [kind |-> k, text |-> w, keys |-> ks \cup {t}] /\ k = "front"
      BY <3>1, <3>2, <3>3
    <3>5. ks \cup {t} \in SUBSET Texts
      OBVIOUS
    <3>6. [kind |-> k, text |-> w, keys |-> ks \cup {t}] \in Parts
      BY <3>5, Zenon DEF Parts
    <3> QED
      BY <3>4, <3>6
  <2>3. f[1] # START /\ f[1] # END /\ x # START /\ x # END
    BY <2>1, <2>2, Markers
  <2> HIDE DEF x
  <2>4. g \in Seq(Parts) /\ Len(g) = Len(f) /\ \A i \in 1..Len(f) : g[i] = IF i = 1 THEN x ELSE f[i]
    <3>1. g = [f EXCEPT ![1] = x]
      BY DEF x
    <3> HIDE DEF g
    <3> QED
      BY <1>1, <2>1, <2>2, <3>1
  <2> HIDE DEF g
  <2>5. \A i \in 1..Len(f) : (g[i] = START <=> f[i] = START) /\ (g[i] = END <=> f[i] = END)
    BY <2>3, <2>4
  <2>6. NoMarkers(f) => NoMarkers(g)
    BY <2>4, <2>5 DEF NoMarkers
  <2>7. ASSUME NEW p, NEW q, MarkersAt(f, p, q) PROVE MarkersAt(g, p, q)
    BY <2>4, <2>5, <2>7 DEF MarkersAt
  <2> QED
    BY <2>6, <2>7 DEF IsSkillFile, IsMarked, g
<1> QED
  BY <1>2, <1>3

(***************************************************************************)
(* The inductive invariant of the skill files.                             *)
(***************************************************************************)

(* What a regeneration is about to write over a file that nobody has       *)
(* changed keeps what is in it.                                            *)
WritesUserText(g) == g.mode # "force" => UserText(g.content) = saved

(* A regeneration has three fields, and one of the three modes.            *)
IsRegen(g) ==
    /\ DOMAIN g = {"pc", "mode", "content"}
    /\ g.mode \in {"skip", "force", "merge"}

(* One regeneration: the content it has read is the template with the      *)
(* user's sections, the content it is to write has one generated block,    *)
(* and keeps the user's text unless somebody else has replaced it since.   *)
RegenInv(r) ==
    /\ IsRegen(regen[r])
    /\ regen[r].pc = "generated" => IsContent(regen[r].content)
    /\ regen[r].pc = "planned" => IsMarked(regen[r].content)
    /\ regen[r].pc = "planned" /\ skillFile # NoFile /\ r \notin edited => WritesUserText(regen[r])

FileInv == skillFile # NoFile => IsSkillFile(skillFile) /\ UserText(skillFile) = saved

SkillInv ==
    /\ FileInv
    /\ DOMAIN regen = Regens
    /\ \A r \in Regens : RegenInv(r)

LEMMA ContentIsMarked ==
    ASSUME NEW f, IsContent(f)
    PROVE  IsMarked(f)
  BY DEF IsContent, IsMarked

LEMMA TemplateIsContent == IsContent(Template)
<1>1. <<>> \in Seq(ManualParts)
  OBVIOUS
<1>2. InjectManualSections(Template, <<>>) = Template
  BY DEF InjectManualSections
<1> QED
  BY <1>1, <1>2, InjectIsContent

LEMMA SectionsType ==
    ASSUME skillFile # NoFile => IsSkillFile(skillFile)
    PROVE  ManualSections(skillFile) \in Seq(ManualParts)
<1>1. CASE skillFile = NoFile
  BY <1>1 DEF ManualSections
<1>2. CASE skillFile # NoFile
  <2> DEFINE P == {i \in DOMAIN skillFile : skillFile[i].kind = "manual"}
  <2>1. skillFile \in Seq(Parts)
    BY <1>2 DEF IsSkillFile, NoMarkers, IsMarked, MarkersAt
  <2>2. P \in SUBSET (DOMAIN skillFile) /\ \A i \in P : skillFile[i] \in ManualParts
    BY <2>1 DEF ManualParts
  <2>3. ManualSections(skillFile) = Selected(skillFile, P)
    BY <1>2 DEF ManualSections
  <2> HIDE DEF P
  <2>4. ManualSections(skillFile) \in Seq({skillFile[i] : i \in P})
    BY <2>1, <2>2, <2>3, SelectedType
  <2>5. {skillFile[i] : i \in P} \subseteq ManualParts
    BY <2>2
  <2> QED
    BY <2>4, <2>5
<1> QED
  BY <1>1, <1>2

LEMMA SkillInitInv == SkillInit => SkillInv
<1> SUFFICES ASSUME SkillInit PROVE SkillInv
  OBVIOUS
<1>1. skillFile # NoFile => IsSkillFile(skillFile)
  <2>1. CASE skillFile = Template
    BY <2>1, TemplateIsContent, ContentIsMarked DEF IsSkillFile
  <2>2. ASSUME NEW t \in Texts, skillFile = <<Part("text", t)>> PROVE IsSkillFile(skillFile)
    <3> DEFINE x == Part("text", t)
    <3>1. x = [kind |-> "text", text |-> t, keys |-> {}]
      BY DEF Part
    <3>2. "text" \in Kinds /\ t \in Texts \cup Sections \cup {Placeholder} /\ {} \in SUBSET Texts
      BY DEF Kinds
    <3>3. [kind |-> "text", text |-> t, keys |-> {}] \in Parts
      BY <3>2, Zenon DEF Parts
    <3>4. x \in Parts /\ x.kind = "text"
      BY <3>1, <3>3
    <3> HIDE DEF x
    <3>5. x # START /\ x # END
      BY <3>4, Markers
    <3>6. <<x>> \in Seq(Parts) /\ Len(<<x>>) = 1 /\ \A i \in 1..1 : <<x>>[i] = x
      BY <3>4
    <3>7. NoMarkers(<<x>>)
      BY <3>5, <3>6 DEF NoMarkers
    <3> QED
      BY <2>2, <3>7 DEF IsSkillFile, x
  <2> QED
    BY <2>1, <2>2 DEF SkillInit
<1>2. regen = [r \in Regens |-> IdleRegen] /\ saved = UserText(skillFile)
  BY DEF SkillInit
<1>3. IsRegen(IdleRegen) /\ IdleRegen.pc = "idle"
  BY DEF IdleRegen, IsRegen
<1> QED
  BY <1>1, <1>2, <1>3 DEF SkillInv, FileInv, RegenInv

LEMMA SaveStep ==
    ASSUME SkillInv, NEW f, IsSkillFile(f), Save(f)
    PROVE  SkillInv'
<1>1. skillFile' = f /\ saved' = UserText(f) /\ edited' = {r \in Regens : regen[r].pc # "idle"} /\ regen' = regen
  BY DEF Save
<1>2. ASSUME NEW r \in Regens PROVE RegenInv(r)'
  BY <1>1 DEF SkillInv, RegenInv
<1> QED
  BY <1>1, <1>2 DEF SkillInv, FileInv

LEMMA EditStep ==
    ASSUME SkillInv, UserEdits
    PROVE  SkillInv'
<1>1. skillFile # NoFile /\ IsSkillFile(skillFile)
  BY DEF UserEdits, SkillInv, FileInv
<1>2. ASSUME NEW i \in 2..(Len(skillFile) + 1),
             NEW x \in {Manual(s) : s \in Sections} \cup {Part("text", t) : t \in Texts},
             Save(InsertAt(skillFile, i, x))
      PROVE  SkillInv'
  <2>1. x \in Parts /\ x.kind \notin {"start", "end"}
    <3>1. "manual" \in Kinds /\ "text" \in Kinds /\ {} \in SUBSET Texts
      BY DEF Kinds
    <3>2. CASE x \in {Manual(s) : s \in Sections}
      <4>1. PICK s \in Sections : x = Manual(s)
        BY <3>2
      <4>2. x = [kind |-> "manual", text |-> s, keys |-> {}]
        BY <4>1 DEF Manual, Part
      <4>3. s \in Texts \cup Sections \cup {Placeholder}
        OBVIOUS
      <4>4. [kind |-> "manual", text |-> s, keys |-> {}] \in Parts
        BY <3>1, <4>3, Zenon DEF Parts
      <4> QED
        BY <4>2, <4>4
    <3>3. CASE x \in {Part("text", t) : t \in Texts}
      <4>1. PICK s \in Texts : x = Part("text", s)
        BY <3>3
      <4>2. x = [kind |-> "text", text |-> s, keys |-> {}]
        BY <4>1 DEF Part
      <4>3. s \in Texts \cup Sections \cup {Placeholder}
        OBVIOUS
      <4>4. [kind |-> "text", text |-> s, keys |-> {}] \in Parts
        BY <3>1, <4>3, Zenon DEF Parts
      <4> QED
        BY <4>2, <4>4
    <3> QED
      BY <3>2, <3>3
  <2>2. IsSkillFile(InsertAt(skillFile, i, x))
    BY <1>1, <2>1, Markers, InsertKeeps
  <2> QED
    BY <1>2, <2>2, SaveStep
<1>3. ASSUME NEW t \in Texts, skillFile[1].kind = "front", Save([skillFile EXCEPT ![1].keys = @ \cup {t}])
      PROVE  SkillInv'
  BY <1>1, <1>3, FrontKeeps, SaveStep
<1>4. ASSUME NEW i \in 2..Len(skillFile), skillFile[i].kind \notin {"start", "end"}, Save(RemoveAt(skillFile, i))
      PROVE  SkillInv'
  <2>1. skillFile[i] # START /\ skillFile[i] # END
    BY <1>4, Markers
  <2> QED
    BY <1>1, <1>4, <2>1, RemoveKeeps, SaveStep
<1> QED
  BY <1>2, <1>3, <1>4 DEF UserEdits

LEMMA GenerateStep ==
    ASSUME SkillInv, NEW r \in Regens, NEW mode \in {"skip", "force", "merge"}, Generate(r, mode)
    PROVE  SkillInv'
<1> DEFINE c == InjectManualSections(Template, ManualSections(skillFile))
<1>1. /\ regen' = [regen EXCEPT ![r] = [pc |-> "generated", mode |-> mode, content |-> c]]
      /\ edited' = edited \ {r} /\ skillFile' = skillFile /\ saved' = saved
  BY DEF Generate
<1>2. IsContent(c)
  BY SectionsType, InjectIsContent DEF SkillInv, FileInv
<1> HIDE DEF c
<1>3. DOMAIN regen = Regens
  BY DEF SkillInv
<1>4. regen'[r] = [pc |-> "generated", mode |-> mode, content |-> c] /\ DOMAIN regen' = Regens
  BY <1>1, <1>3
<1>5. RegenInv(r)'
  BY <1>2, <1>4 DEF RegenInv, IsRegen
<1>6. ASSUME NEW q \in Regens \ {r} PROVE RegenInv(q)'
  <2>1. regen'[q] = regen[q] /\ (q \in edited' <=> q \in edited)
    BY <1>1, <1>3
  <2> QED
    BY <1>1, <2>1 DEF SkillInv, RegenInv, WritesUserText
<1> QED
  BY <1>1, <1>4, <1>5, <1>6 DEF SkillInv, FileInv

LEMMA PlanStep ==
    ASSUME SkillInv, NEW r \in Regens, PlanWrite(r)
    PROVE  SkillInv'
<1>1. PICK g : g = regen[r]
  OBVIOUS
<1> DEFINE c == IF skillFile # NoFile /\ g.mode = "merge" THEN MergeContent(skillFile, g.content) ELSE g.content
<1>2. /\ g.pc = "generated"
      /\ regen' = [regen EXCEPT ![r] = IF skillFile # NoFile /\ g.mode = "skip" THEN IdleRegen
                                       ELSE [g EXCEPT !.pc = "planned", !.content = c]]
      /\ edited' = edited \ {r} /\ skillFile' = skillFile /\ saved' = saved
  BY <1>1 DEF PlanWrite
<1>3. DOMAIN regen = Regens /\ IsContent(g.content) /\ IsRegen(g)
  BY <1>1, <1>2 DEF SkillInv, RegenInv
<1>4. DOMAIN regen' = Regens
  BY <1>2, <1>3
<1>5. ASSUME NEW q \in Regens \ {r} PROVE RegenInv(q)'
  <2>1. regen'[q] = regen[q] /\ (q \in edited' <=> q \in edited)
    BY <1>2, <1>3
  <2> QED
    BY <1>2, <2>1 DEF SkillInv, RegenInv, WritesUserText
<1>6. CASE skillFile # NoFile /\ g.mode = "skip"
  <2>1. regen'[r] = IdleRegen
    BY <1>2, <1>3, <1>6
  <2>2. RegenInv(r)'
    BY <2>1 DEF RegenInv, IsRegen, IdleRegen
  <2> QED
    BY <1>2, <1>4, <1>5, <2>2 DEF SkillInv, FileInv
<1>7. CASE ~(skillFile # NoFile /\ g.mode = "skip")
  <2>1. IsMarked(c)
    BY <1>3, MergeKeeps, ContentIsMarked DEF SkillInv, FileInv, IsSkillFile
  <2>2. skillFile # NoFile /\ g.mode # "force" => UserText(c) = saved
    <3>1. SUFFICES ASSUME skillFile # NoFile, g.mode # "force" PROVE UserText(c) = saved
      OBVIOUS
    <3>2. c = MergeContent(skillFile, g.content)
      BY <1>3, <1>7, <3>1 DEF IsRegen
    <3>3. UserText(skillFile) = saved /\ (NoMarkers(skillFile) \/ IsMarked(skillFile))
      BY <3>1 DEF SkillInv, FileInv, IsSkillFile
    <3> HIDE DEF c
    <3>4. UserText(c) = UserText(skillFile)
      BY <1>3, <3>2, <3>3, MergeKeeps
    <3> QED
      BY <3>3, <3>4
  <2> HIDE DEF c
  <2> DEFINE h == [g EXCEPT !.pc = "planned", !.content = c]
  <2>3. DOMAIN h = {"pc", "mode", "content"} /\ h.pc = "planned" /\ h.mode = g.mode /\ h.content = c
    BY <1>3 DEF IsRegen
  <2> HIDE DEF h
  <2>4. regen'[r] = h
    BY <1>2, <1>3, <1>7 DEF h
  <2>5. RegenInv(r)'
    BY <1>2, <1>3, <2>1, <2>2, <2>3, <2>4 DEF RegenInv, IsRegen, WritesUserText
  <2> QED
    BY <1>2, <1>4, <1>5, <2>5 DEF SkillInv, FileInv
<1> QED
  BY <1>6, <1>7

LEMMA ExecuteStep ==
    ASSUME SkillInv, NEW r \in Regens, NEW ok \in BOOLEAN, ExecuteWrite(r, ok)
    PROVE  SkillInv'
<1>1. PICK g : g = regen[r]
  OBVIOUS
<1> DEFINE replaces == ok /\ (skillFile = NoFile \/ g.mode = "force" \/ r \in edited)
<1>2. /\ g.pc = "planned"
      /\ skillFile' = IF ok THEN g.content ELSE skillFile
      /\ saved' = IF replaces THEN UserText(g.content) ELSE saved
      /\ edited' = (edited \ {r}) \cup {q \in Regens \ {r} : replaces /\ regen[q].pc # "idle"}
      /\ regen' = [regen EXCEPT ![r] = IdleRegen]
  BY <1>1 DEF ExecuteWrite
<1>3. DOMAIN regen = Regens /\ IsMarked(g.content)
  BY <1>1, <1>2 DEF SkillInv, RegenInv
<1>4. DOMAIN regen' = Regens /\ regen'[r] = IdleRegen
  BY <1>2, <1>3
<1>5. RegenInv(r)'
  BY <1>4 DEF RegenInv, IsRegen, IdleRegen
<1>6. IsSkillFile(g.content) /\ g.content # NoFile
  BY <1>3, MarkedOutside DEF IsSkillFile, IsMarked
<1>7. CASE replaces
  <2>1. skillFile' = g.content /\ saved' = UserText(g.content)
    BY <1>2, <1>7
  <2>2. ASSUME NEW q \in Regens \ {r} PROVE RegenInv(q)'
    <3>1. regen'[q] = regen[q] /\ (regen[q].pc # "idle" => q \in edited')
      BY <1>2, <1>3, <1>7
    <3> QED
      BY <3>1 DEF SkillInv, RegenInv
  <2>3. FileInv'
    BY <1>6, <2>1 DEF FileInv
  <2> QED
    BY <1>4, <1>5, <2>2, <2>3 DEF SkillInv
<1>8. CASE ~replaces
  <2>1. ok => skillFile # NoFile /\ UserText(g.content) = saved
    BY <1>1, <1>2, <1>8 DEF SkillInv, RegenInv, WritesUserText
  <2>2. saved' = saved
    BY <1>2, <1>8
  <2>3. FileInv'
    BY <1>2, <1>6, <2>1, <2>2 DEF SkillInv, FileInv
  <2>4. ASSUME NEW q \in Regens \ {r} PROVE RegenInv(q)'
    <3>1. regen'[q] = regen[q] /\ (q \in edited' <=> q \in edited)
      BY <1>2, <1>3, <1>8
    <3>2. skillFile' # NoFile => skillFile # NoFile
      BY <1>2, <2>1
    <3> QED
      BY <2>2, <3>1, <3>2 DEF SkillInv, RegenInv, WritesUserText
  <2> QED
    BY <1>4, <1>5, <2>3, <2>4 DEF SkillInv
<1> QED
  BY <1>7, <1>8

LEMMA SkillSpecInv == SkillSpec => []SkillInv
<1>1. ASSUME SkillInv, [SkillNext]_skillVars PROVE SkillInv'
  <2>1. CASE UNCHANGED skillVars
    BY <1>1, <2>1 DEF skillVars, SkillInv, FileInv, RegenInv, WritesUserText
  <2>2. CASE UserEdits
    BY <1>1, <2>2, EditStep
  <2>3. ASSUME NEW r \in Regens, NEW mode \in {"skip", "force", "merge"}, GenerateSkill(r, mode) PROVE SkillInv'
    BY <1>1, <2>3, GenerateStep DEF GenerateSkill
  <2>4. ASSUME NEW r \in Regens, AutoRegenerate(r) PROVE SkillInv'
    BY <1>1, <2>4, GenerateStep DEF AutoRegenerate
  <2>5. ASSUME NEW r \in Regens, PlanWrite(r) PROVE SkillInv'
    BY <1>1, <2>5, PlanStep
  <2>6. ASSUME NEW r \in Regens, NEW ok \in BOOLEAN, ExecuteWrite(r, ok) PROVE SkillInv'
    BY <1>1, <2>6, ExecuteStep
  <2> QED
    BY <1>1, <2>1, <2>2, <2>3, <2>4, <2>5, <2>6 DEF SkillNext
<1> QED
  BY <1>1, SkillInitInv, PTL DEF SkillSpec

(* However often daemon and command regenerate SKILL.md, and however their *)
(* reads and writes interleave, the text that the user wrote outside the   *)
(* markers, its order and the user's keys in the frontmatter are what they *)
(* were when the user last saved, and the file has at most one generated   *)
(* block: for any texts, sections and number of regenerations at once      *)
(* (file-manager.ts 85-176 and 218-228, preserve.ts 91-157).               *)
THEOREM UserTextSurvives == SkillSpec => []UserTextKept
<1>1. SkillInv => UserTextKept
  <2> SUFFICES ASSUME SkillInv, skillFile # NoFile
               PROVE  /\ UserText(skillFile) = saved
                      /\ Cardinality({i \in DOMAIN skillFile : skillFile[i] = START}) <= 1
    BY DEF UserTextKept
  <2>1. IsSkillFile(skillFile) /\ UserText(skillFile) = saved
    BY DEF SkillInv, FileInv
  <2> DEFINE S == {i \in DOMAIN skillFile : skillFile[i] = START}
  <2>2. S = {} \/ \E p : S = {p}
    BY <2>1, MarkedOutside, UnmarkedOutside DEF IsSkillFile, IsMarked
  <2> HIDE DEF S
  <2>3. Cardinality(S) <= 1
    BY <2>2, FS_EmptySet, FS_Singleton
  <2> QED
    BY <2>1, <2>3 DEF S
<1> QED
  BY <1>1, SkillSpecInv, PTL

===============================================================================
