-------------------------- MODULE XosKernelProofs ---------------------------
(***************************************************************************)
(* What holds of the XOS kernel for any number of tasks and semaphores.    *)
(***************************************************************************)
EXTENDS XosKernelLate, SequenceTheorems, FiniteSetTheorems,
        WellFoundedInduction, TLAPS
-----------------------------------------------------------------------------
(* What the list operations of XosList return and preserve, for every list *)
(* and every key.                                                          *)

\* A nonempty set of naturals has a least element (the first entry with a
\* greater key is well defined).
LEMMA MinIsLeast ==
  ASSUME NEW S \in SUBSET Nat, S # {}
  PROVE  Min(S) \in S /\ \A y \in S : Min(S) <= y
<1> DEFINE Below(x) == {y \in S : y < x}
           F == {Below(x) : x \in S}
<1>0. \A y \in S : y \in Nat
  OBVIOUS
<1>1. \A x \in S : Below(x) \in FiniteSubsetsOf(Nat)
  <2> SUFFICES ASSUME NEW x \in S
               PROVE  Below(x) \in FiniteSubsetsOf(Nat)
    OBVIOUS
  <2>1. IsFiniteSet(0..x)
    BY FS_Interval
  <2>2. IsFiniteSet(Below(x))
    <3>1. \A z \in Below(x) : z \in 0..x
      BY <1>0
    <3> QED BY <2>1, <3>1, FS_Subset
  <2> QED BY <2>2 DEF FiniteSubsetsOf
<1>2. F \subseteq FiniteSubsetsOf(Nat) /\ F # {}
  BY <1>1
<1>3. \E A \in F : \A B \in F : ~(<<B, A>> \in StrictSubsetOrdering(Nat))
  <2> HIDE DEF F
  <2> QED BY <1>2, FS_StrictSubsetOrderingWellFounded, WFMin
<1>4. PICK x \in S : \A B \in F : ~(<<B, Below(x)>> \in StrictSubsetOrdering(Nat))
  BY <1>3
<1>5. \A y \in S : x <= y
  <2> SUFFICES ASSUME NEW y \in S, y < x
               PROVE  FALSE
    OBVIOUS
  <2>1. /\ \A z \in Below(y) : z \in Below(x)
        /\ y \in Below(x) /\ y \notin Below(y)
    BY <1>0
  <2>2. <<Below(y), Below(x)>> \in StrictSubsetOrdering(Nat)
    BY <2>1 DEF StrictSubsetOrdering
  <2> QED BY <1>4, <2>2
<1> QED BY <1>5 DEF Min

\* Concatenation, entry by entry.
LEMMA ConcatEntries ==
  ASSUME NEW S, NEW a \in Seq(S), NEW b \in Seq(S)
  PROVE  /\ a \o b \in Seq(S)
         /\ Len(a \o b) = Len(a) + Len(b)
         /\ \A j \in 1..(Len(a) + Len(b)) :
              (a \o b)[j] = IF j <= Len(a) THEN a[j] ELSE b[j - Len(a)]
OBVIOUS

\* InsertAt puts one entry in and moves the later ones up by one place.
LEMMA InsertAtEntries ==
  ASSUME NEW S, NEW list \in Seq(S), NEW i \in 1..(Len(list) + 1), NEW t \in S
  PROVE  /\ InsertAt(list, i, t) \in Seq(S)
         /\ Len(InsertAt(list, i, t)) = Len(list) + 1
         /\ \A j \in 1..(Len(list) + 1) :
              InsertAt(list, i, t)[j] = IF j < i THEN list[j]
                                        ELSE IF j = i THEN t ELSE list[j - 1]
<1> DEFINE a == SubSeq(list, 1, i - 1)
           b == SubSeq(list, i, Len(list))
<1>1. Len(list) \in Nat /\ \A j \in 1..Len(list) : list[j] \in S
  BY LenProperties, ElementOfSeq
<1>2. /\ a \in Seq(S) /\ Len(a) = i - 1
      /\ \A j \in 1..(i - 1) : a[j] = list[j]
  BY <1>1, SubSeqProperties
<1>3. /\ b \in Seq(S) /\ Len(b) = Len(list) - i + 1
      /\ \A j \in 1..(Len(list) - i + 1) : b[j] = list[i + j - 1]
  BY <1>1, SubSeqProperties
<1> HIDE DEF a, b
<1>4. a \o <<t>> \in Seq(S) /\ Len(a \o <<t>>) = i
      /\ \A j \in 1..i : (a \o <<t>>)[j] = IF j < i THEN list[j] ELSE t
  BY <1>1, <1>2
<1> DEFINE c == a \o <<t>>
<1> HIDE DEF c
<1>5. /\ c \o b \in Seq(S) /\ Len(c \o b) = Len(list) + 1
      /\ \A j \in 1..(Len(list) + 1) :
           (c \o b)[j] = IF j <= i THEN c[j] ELSE b[j - i]
  BY <1>1, <1>3, <1>4 DEF c
<1>6. InsertAt(list, i, t) = c \o b
  BY DEF InsertAt, a, b, c
<1>7. ASSUME NEW j \in 1..(Len(list) + 1)
      PROVE  (c \o b)[j] = IF j < i THEN list[j] ELSE IF j = i THEN t ELSE list[j - 1]
  <2>1. CASE j <= i
    BY <2>1, <1>4, <1>5 DEF c
  <2>2. CASE j > i
    <3>1. j - i \in 1..(Len(list) - i + 1) /\ i + (j - i) - 1 = j - 1
      BY <1>1, <2>2
    <3>2. (c \o b)[j] = b[j - i]
      BY <1>1, <1>5, <2>2
    <3>3. b[j - i] = list[j - 1]
      BY <3>1, <1>3
    <3> QED BY <3>2, <3>3, <2>2
  <2>3. j <= i \/ j > i
    BY <1>1
  <2> QED BY <2>1, <2>2, <2>3
<1> QED BY <1>5, <1>6, <1>7

\* RemoveAt takes one entry out and moves the later ones down by one place.
LEMMA RemoveAtEntries ==
  ASSUME NEW S, NEW list \in Seq(S), NEW i \in 1..Len(list)
  PROVE  /\ RemoveAt(list, i) \in Seq(S)
         /\ Len(RemoveAt(list, i)) = Len(list) - 1
         /\ \A j \in 1..(Len(list) - 1) :
              RemoveAt(list, i)[j] = IF j < i THEN list[j] ELSE list[j + 1]
<1> DEFINE a == SubSeq(list, 1, i - 1)
           b == SubSeq(list, i + 1, Len(list))
<1>1. Len(list) \in Nat /\ \A j \in 1..Len(list) : list[j] \in S
  BY LenProperties, ElementOfSeq
<1>2. /\ a \in Seq(S) /\ Len(a) = i - 1
      /\ \A j \in 1..(i - 1) : a[j] = list[j]
  BY <1>1, SubSeqProperties
<1>3. /\ b \in Seq(S) /\ Len(b) = Len(list) - i
      /\ \A j \in 1..(Len(list) - i) : b[j] = list[i + j]
  BY <1>1, SubSeqProperties
<1> HIDE DEF a, b
<1>4. /\ a \o b \in Seq(S)
      /\ Len(a \o b) = Len(a) + Len(b)
      /\ \A j \in 1..(Len(a) + Len(b)) :
           (a \o b)[j] = IF j <= Len(a) THEN a[j] ELSE b[j - Len(a)]
  BY <1>2, <1>3, ConcatEntries
<1>5. Len(a) + Len(b) = Len(list) - 1
  BY <1>1, <1>2, <1>3
<1>6. /\ a \o b \in Seq(S) /\ Len(a \o b) = Len(list) - 1
      /\ \A j \in 1..(Len(list) - 1) :
           (a \o b)[j] = IF j <= i - 1 THEN a[j] ELSE b[j - (i - 1)]
  BY <1>2, <1>4, <1>5
<1>7. RemoveAt(list, i) = a \o b
  BY DEF RemoveAt, a, b
<1>8. ASSUME NEW j \in 1..(Len(list) - 1)
      PROVE  (a \o b)[j] = IF j < i THEN list[j] ELSE list[j + 1]
  <2>1. CASE j < i
    BY <1>2, <1>6, <2>1
  <2>2. CASE j >= i
    <3>1. j - (i - 1) \in 1..(Len(list) - i) /\ i + (j - (i - 1)) = j + 1
      BY <1>1, <2>2
    <3>2. (a \o b)[j] = b[j - (i - 1)]
      BY <1>1, <1>6, <2>2
    <3>3. b[j - (i - 1)] = list[j + 1]
      BY <3>1, <1>3
    <3> QED BY <3>2, <3>3, <2>2
  <2>3. j < i \/ j >= i
    BY <1>1
  <2> QED BY <2>1, <2>2, <2>3
<1> QED BY <1>6, <1>7, <1>8

\* The place where list_insert_order stops is one of the list, everything
\* before it has a key of at most k, and what stands there a greater one.
LEMMA InsertPosIsFirst ==
  ASSUME NEW S, NEW list \in Seq(S), NEW key \in [S -> Int], NEW k \in Int
  PROVE  /\ InsertPos(list, key, k) \in 1..(Len(list) + 1)
         /\ \A j \in 1..Len(list) :
              j < InsertPos(list, key, k) => key[list[j]] <= k
         /\ InsertPos(list, key, k) <= Len(list) =>
              k < key[list[InsertPos(list, key, k)]]
<1> DEFINE G == Greater(list, key, k)
<1>1. /\ Len(list) \in Nat
      /\ \A j \in 1..Len(list) : list[j] \in S /\ key[list[j]] \in Int
  BY LenProperties, ElementOfSeq
<1>2. \A j \in G : j \in 1..Len(list) /\ k < key[list[j]]
  BY DEF Greater
<1>3. \A j \in 1..Len(list) : j \notin G => key[list[j]] <= k
  BY <1>1 DEF Greater
<1>4. CASE G = {}
  <2>1. InsertPos(list, key, k) = Len(list) + 1
    BY <1>4 DEF InsertPos
  <2> HIDE DEF G
  <2> QED BY <2>1, <1>1, <1>3, <1>4
<1>5. CASE G # {}
  <2> DEFINE m == Min(G)
  <2>1. InsertPos(list, key, k) = m
    BY <1>5 DEF InsertPos
  <2> HIDE DEF G
  <2>2. G \in SUBSET Nat
    BY <1>1, <1>2
  <2>3. m \in G /\ \A y \in G : m <= y
    BY <1>5, <2>2, MinIsLeast
  <2> HIDE DEF m
  <2>4. m \in 1..Len(list) /\ k < key[list[m]]
    BY <2>3, <1>2
  <2>5. ASSUME NEW j \in 1..Len(list), j < m
        PROVE  key[list[j]] <= k
    <3>1. j \notin G
      BY <1>1, <2>3, <2>4, <2>5
    <3> QED BY <3>1, <1>3
  <2> QED BY <2>1, <2>4, <2>5, <1>1
<1> QED BY <1>4, <1>5
\* The entries of a list, by place.
LEMMA RangeByPlace ==
  ASSUME NEW S, NEW list \in Seq(S)
  PROVE  /\ \A x : x \in Range(list) <=> \E i \in 1..Len(list) : list[i] = x
         /\ IsInjective(list) <=>
              \A i, j \in 1..Len(list) : list[i] = list[j] => i = j
         /\ \A x \in Range(list) : x \in S
<1>1. DOMAIN list = 1..Len(list) /\ \A i \in 1..Len(list) : list[i] \in S
  BY LenProperties, ElementOfSeq
<1> QED BY <1>1 DEF Range, IsInjective

\* new is list with t put in at place p.
PutIn(S, list, new, p, t) ==
  /\ p \in 1..(Len(list) + 1)
  /\ new \in Seq(S) /\ Len(new) = Len(list) + 1
  /\ \A j \in 1..(Len(list) + 1) :
       new[j] = IF j < p THEN list[j] ELSE IF j = p THEN t ELSE list[j - 1]

\* The same, place by place and both ways, for a list of n entries.
PutPlaces(S, list, new, p, t, n) ==
  /\ n = Len(list) /\ Len(new) = n + 1 /\ new \in Seq(S)
  /\ p \in 1..(n + 1) /\ new[p] = t
  /\ \A i \in 1..n : i < p => i \in 1..(n + 1) /\ new[i] = list[i]
  /\ \A i \in 1..n : ~(i < p) => i + 1 \in 1..(n + 1) /\ new[i + 1] = list[i]
  /\ \A j \in 1..(n + 1) :
       /\ j < p => j \in 1..n /\ new[j] = list[j]
       /\ j > p => j - 1 \in 1..n /\ new[j] = list[j - 1]
       /\ j < p \/ j = p \/ j > p

\* The entries of a list with one entry put in, place by place.
LEMMA PutInByPlace ==
  ASSUME NEW S, NEW list \in Seq(S), NEW new, NEW p, NEW t, PutIn(S, list, new, p, t)
  PROVE  \E n \in Nat : PutPlaces(S, list, new, p, t, n)
<1>1. PICK n \in Nat : n = Len(list)
  BY LenProperties
<1>2. /\ p \in 1..(n + 1) /\ new \in Seq(S) /\ Len(new) = n + 1
      /\ \A j \in 1..(n + 1) :
           new[j] = IF j < p THEN list[j] ELSE IF j = p THEN t ELSE list[j - 1]
  BY <1>1 DEF PutIn
<1>3. ASSUME NEW i \in 1..n, ~(i < p)
      PROVE  i + 1 \in 1..(n + 1) /\ new[i + 1] = list[i]
  <2>1. i + 1 \in 1..(n + 1) /\ (i + 1) - 1 = i /\ ~(i + 1 < p) /\ i + 1 # p
    BY <1>2, <1>3
  <2> QED BY <1>2, <2>1
<1>4. ASSUME NEW i \in 1..n, i < p
      PROVE  i \in 1..(n + 1) /\ new[i] = list[i]
  BY <1>2, <1>4
<1>5. ASSUME NEW j \in 1..(n + 1)
      PROVE  /\ j < p => j \in 1..n /\ new[j] = list[j]
             /\ j > p => j - 1 \in 1..n /\ new[j] = list[j - 1]
             /\ j < p \/ j = p \/ j > p
  BY <1>2
<1>6. new[p] = t
  BY <1>2
<1> QED BY <1>1, <1>2, <1>3, <1>4, <1>5, <1>6 DEF PutPlaces

\* A list with one entry more holds that entry and the old ones, none twice.
LEMMA PutInEntries ==
  ASSUME NEW S, NEW list \in Seq(S), NEW new, NEW p, NEW t, PutIn(S, list, new, p, t)
  PROVE  /\ new \in Seq(S) /\ new # <<>>
         /\ \A x : x \in Range(new) <=> x \in Range(list) \/ x = t
         /\ IsInjective(list) /\ t \notin Range(list) => IsInjective(new)
<1>1. PICK n \in Nat : PutPlaces(S, list, new, p, t, n)
  BY PutInByPlace
<1>0. /\ n = Len(list) /\ Len(new) = n + 1 /\ new \in Seq(S)
      /\ p \in 1..(n + 1) /\ new[p] = t
      /\ \A i \in 1..n : i < p => i \in 1..(n + 1) /\ new[i] = list[i]
      /\ \A i \in 1..n : ~(i < p) => i + 1 \in 1..(n + 1) /\ new[i + 1] = list[i]
      /\ \A j \in 1..(n + 1) :
           /\ j < p => j \in 1..n /\ new[j] = list[j]
           /\ j > p => j - 1 \in 1..n /\ new[j] = list[j - 1]
           /\ j < p \/ j = p \/ j > p
  BY <1>1 DEF PutPlaces
<1>2. /\ \A x : x \in Range(list) <=> \E i \in 1..n : list[i] = x
      /\ IsInjective(list) <=> \A i, j \in 1..n : list[i] = list[j] => i = j
  <2>1. /\ \A x : x \in Range(list) <=> \E i \in 1..Len(list) : list[i] = x
        /\ IsInjective(list) <=> \A i, j \in 1..Len(list) : list[i] = list[j] => i = j
    BY RangeByPlace
  <2> QED BY <1>0, <2>1
<1>3. /\ \A x : x \in Range(new) <=> \E i \in 1..(n + 1) : new[i] = x
      /\ IsInjective(new) <=> \A i, j \in 1..(n + 1) : new[i] = new[j] => i = j
  <2>1. /\ \A x : x \in Range(new) <=> \E i \in 1..Len(new) : new[i] = x
        /\ IsInjective(new) <=> \A i, j \in 1..Len(new) : new[i] = new[j] => i = j
    BY <1>0, RangeByPlace, SMTT(30)
  <2> QED BY <1>0, <2>1
<1>4. ASSUME NEW x
      PROVE  x \in Range(new) <=> x \in Range(list) \/ x = t
  <2>1. ASSUME x \in Range(new)
        PROVE  x \in Range(list) \/ x = t
    <3>1. PICK j \in 1..(n + 1) : new[j] = x
      BY <1>3, <2>1, Zenon
    <3> QED BY <1>0, <1>2, <3>1, Zenon
  <2>2. ASSUME x \in Range(list)
        PROVE  x \in Range(new)
    <3>1. PICK i \in 1..n : list[i] = x
      BY <1>2, <2>2, Zenon
    <3> QED BY <1>0, <1>3, <3>1, Zenon
  <2>3. t \in Range(new)
    BY <1>0, <1>3, Zenon
  <2> QED BY <2>1, <2>2, <2>3
<1>5. ASSUME IsInjective(list), t \notin Range(list)
      PROVE  IsInjective(new)
  <2>1. /\ \A i, j \in 1..n : list[i] = list[j] => i = j
        /\ \A i \in 1..n : list[i] # t
    BY <1>2, <1>5, Zenon
  <2>2. ASSUME NEW i \in 1..(n + 1), NEW j \in 1..(n + 1), new[i] = new[j]
        PROVE  i = j
    <3>0. p \in 1..(n + 1)
      BY <1>0
    <3>1. /\ i < p => i \in 1..n /\ new[i] = list[i]
          /\ i > p => i - 1 \in 1..n /\ new[i] = list[i - 1]
          /\ j < p => j \in 1..n /\ new[j] = list[j]
          /\ j > p => j - 1 \in 1..n /\ new[j] = list[j - 1]
          /\ i = p => new[i] = t
          /\ j = p => new[j] = t
      BY <1>0, Zenon
    <3>2. CASE i < p /\ j < p
      BY <2>1, <2>2, <3>1, <3>2
    <3>3. CASE i > p /\ j > p
      BY <2>1, <2>2, <3>1, <3>3
    <3>4. CASE i < p /\ j > p
      <4>1. i = j - 1
        BY <2>1, <2>2, <3>1, <3>4
      <4> QED BY <4>1, <3>0, <3>4
    <3>5. CASE i > p /\ j < p
      <4>1. j = i - 1
        BY <2>1, <2>2, <3>1, <3>5
      <4> QED BY <4>1, <3>0, <3>5
    <3>6. CASE i = p
      BY <2>1, <2>2, <3>0, <3>1, <3>6
    <3>7. CASE j = p
      BY <2>1, <2>2, <3>0, <3>1, <3>7
    <3> QED BY <3>0, <3>2, <3>3, <3>4, <3>5, <3>6, <3>7
  <2> QED BY <1>3, <2>2, Zenon
<1>6. new # <<>>
  BY <1>0, EmptySeq
<1> QED BY <1>0, <1>4, <1>5, <1>6

\* What stands before p has a key of at most k, what stands there a greater one.
StopsAt(list, key, k, p) ==
  /\ \A j \in 1..Len(list) : j < p => key[list[j]] <= k
  /\ p <= Len(list) => k < key[list[p]]

\* What list_insert_order does, with the place where it stops made explicit.
LEMMA InsertOrderedShape ==
  ASSUME NEW S, NEW list \in Seq(S), NEW key \in [S -> Int], NEW k \in Int, NEW t \in S
  PROVE  /\ PutIn(S, list, InsertOrdered(list, key, k, t), InsertPos(list, key, k), t)
         /\ StopsAt(list, key, k, InsertPos(list, key, k))
<1> DEFINE p == InsertPos(list, key, k)
           new == InsertOrdered(list, key, k, t)
<1>1. /\ p \in 1..(Len(list) + 1)
      /\ \A j \in 1..Len(list) : j < p => key[list[j]] <= k
      /\ p <= Len(list) => k < key[list[p]]
  BY InsertPosIsFirst
<1>2. new = InsertAt(list, p, t)
  BY DEF InsertOrdered
<1>3. /\ InsertAt(list, p, t) \in Seq(S)
      /\ Len(InsertAt(list, p, t)) = Len(list) + 1
      /\ \A j \in 1..(Len(list) + 1) :
           InsertAt(list, p, t)[j] = IF j < p THEN list[j]
                                     ELSE IF j = p THEN t ELSE list[j - 1]
  <2> HIDE DEF p
  <2> QED BY <1>1, InsertAtEntries
<1> HIDE DEF p, new
<1>4. PutIn(S, list, new, p, t)
  BY <1>1, <1>2, <1>3, Zenon DEF PutIn
<1>5. StopsAt(list, key, k, p)
  BY <1>1, Zenon DEF StopsAt
<1> QED BY <1>4, <1>5 DEF new, p

\* list_insert_order links the entry and nothing else, once.
LEMMA InsertOrderedLinks ==
  ASSUME NEW S, NEW list \in Seq(S), NEW key \in [S -> Int], NEW k \in Int, NEW t \in S
  PROVE  /\ InsertOrdered(list, key, k, t) \in Seq(S)
         /\ InsertOrdered(list, key, k, t) # <<>>
         /\ \A x : x \in Range(InsertOrdered(list, key, k, t)) <=>
                   x \in Range(list) \/ x = t
         /\ IsInjective(list) /\ t \notin Range(list) =>
              IsInjective(InsertOrdered(list, key, k, t))
<1>1. PutIn(S, list, InsertOrdered(list, key, k, t), InsertPos(list, key, k), t)
  BY InsertOrderedShape
<1> QED BY <1>1, PutInEntries

\* t is put into an ordered list where list_insert_order stops; the keys of the
\* others are as they were.
PutInOrder(S, list, new, p, t, key, key2, k) ==
  /\ PutIn(S, list, new, p, t) /\ StopsAt(list, key, k, p) /\ Sorted(list, key)
  /\ key2[t] = k /\ \A i \in 1..Len(list) : key2[list[i]] = key[list[i]]

\* A list stays in order when what stands before the new entry has a key of at
\* most its key, and what stands behind it a greater one.
LEMMA PutInSorted ==
  ASSUME NEW S, NEW list \in Seq(S), NEW new, NEW p, NEW t \in S,
         NEW key \in [S -> Int], NEW key2 \in [S -> Int], NEW k \in Int,
         PutInOrder(S, list, new, p, t, key, key2, k)
  PROVE  Sorted(new, key2)
<1>hyp. /\ PutIn(S, list, new, p, t) /\ StopsAt(list, key, k, p) /\ Sorted(list, key)
        /\ key2[t] = k /\ \A i \in 1..Len(list) : key2[list[i]] = key[list[i]]
  BY DEF PutInOrder
<1>1. PICK n \in Nat : PutPlaces(S, list, new, p, t, n)
  BY <1>hyp, PutInByPlace
<1>0. /\ n = Len(list) /\ Len(new) = n + 1 /\ new \in Seq(S)
      /\ p \in 1..(n + 1) /\ new[p] = t
      /\ \A i \in 1..n : i < p => i \in 1..(n + 1) /\ new[i] = list[i]
      /\ \A i \in 1..n : ~(i < p) => i + 1 \in 1..(n + 1) /\ new[i + 1] = list[i]
      /\ \A j \in 1..(n + 1) :
           /\ j < p => j \in 1..n /\ new[j] = list[j]
           /\ j > p => j - 1 \in 1..n /\ new[j] = list[j - 1]
           /\ j < p \/ j = p \/ j > p
  BY <1>1 DEF PutPlaces
<1>2. /\ \A i, j \in 1..n : i <= j => key[list[i]] <= key[list[j]]
      /\ \A i \in 1..n : key2[list[i]] = key[list[i]] /\ key[list[i]] \in Int
      /\ \A j \in 1..n : j < p => key[list[j]] <= k
      /\ p <= n => k < key[list[p]]
  BY <1>0, <1>hyp, ElementOfSeq DEF Sorted, StopsAt
<1>3. p \in 1..(n + 1)
  BY <1>0
<1>4. ASSUME NEW j \in 1..n, p <= j
      PROVE  k < key[list[j]]
  <2>1. p \in 1..n /\ k < key[list[p]] /\ key[list[p]] <= key[list[j]]
    BY <1>2, <1>3, <1>4
  <2>2. key[list[p]] \in Int /\ key[list[j]] \in Int
    BY <1>2, <2>1
  <2> QED BY <2>1, <2>2, SMTT(30)
<1>5. ASSUME NEW j \in 1..(n + 1)
      PROVE  /\ j < p => /\ j \in 1..n /\ key2[new[j]] = key[list[j]]
                         /\ key2[new[j]] \in Int /\ key2[new[j]] <= k
             /\ j = p => key2[new[j]] = k
             /\ j > p => /\ j - 1 \in 1..n /\ key2[new[j]] = key[list[j - 1]]
                         /\ key2[new[j]] \in Int /\ k <= key2[new[j]]
  <2>1. CASE j < p
    <3>1. j \in 1..n /\ new[j] = list[j]
      BY <1>0, <2>1
    <3> QED BY <1>2, <1>3, <2>1, <3>1
  <2>2. CASE j = p
    BY <1>0, <1>3, <1>hyp, <2>2
  <2>3. CASE j > p
    <3>1. j - 1 \in 1..n /\ new[j] = list[j - 1] /\ p <= j - 1
      BY <1>0, <1>3, <2>3
    <3>2. /\ key2[new[j]] = key[list[j - 1]] /\ key2[new[j]] \in Int
          /\ k < key[list[j - 1]]
      BY <1>2, <1>4, <3>1
    <3>3. k <= key2[new[j]]
      <4> DEFINE x == key2[new[j]]
      <4>1. x \in Int /\ k < x
        BY <3>2
      <4> HIDE DEF x
      <4>2. k <= x
        BY <4>1
      <4> QED BY <4>2 DEF x
    <3>4. ~(j < p) /\ j # p
      BY <1>3, <2>3
    <3> QED BY <3>1, <3>2, <3>3, <3>4
  <2> QED BY <1>3, <2>1, <2>2, <2>3
<1>6. ASSUME NEW i \in 1..(n + 1), NEW j \in 1..(n + 1), i <= j
      PROVE  key2[new[i]] <= key2[new[j]]
  <2>1. CASE i < p /\ j < p
    BY <1>2, <1>3, <1>5, <1>6, <2>1
  <2>2. CASE i < p /\ ~(j < p)
    <3>1. key2[new[i]] \in Int /\ key2[new[i]] <= k
      BY <1>5, <2>2
    <3>2. key2[new[j]] \in Int /\ k <= key2[new[j]]
      BY <1>3, <1>5, <2>2
    <3> QED BY <3>1, <3>2
  <2>3. CASE i = p
    BY <1>3, <1>5, <1>6, <2>3
  <2>4. CASE i > p
    <3>1. /\ i - 1 \in 1..n /\ j - 1 \in 1..n /\ i - 1 <= j - 1
          /\ key2[new[i]] = key[list[i - 1]] /\ key2[new[j]] = key[list[j - 1]]
      BY <1>3, <1>5, <1>6, <2>4
    <3> QED BY <3>1, <1>2
  <2> QED BY <1>3, <2>1, <2>2, <2>3, <2>4
<1>7. \A i, j \in 1..Len(new) : i <= j => key2[new[i]] <= key2[new[j]]
  BY <1>0, <1>6
<1> QED BY <1>7 DEF Sorted

\* list_insert_order keeps the order, when the entry it links is the only one
\* whose key is new.
LEMMA InsertOrderedSorted ==
  ASSUME NEW S, NEW list \in Seq(S), NEW key \in [S -> Int], NEW k \in Int, NEW t \in S,
         NEW key2 \in [S -> Int], key2[t] = k,
         \A i \in 1..Len(list) : key2[list[i]] = key[list[i]],
         Sorted(list, key)
  PROVE  Sorted(InsertOrdered(list, key, k, t), key2)
<1> DEFINE p == InsertPos(list, key, k)
           new == InsertOrdered(list, key, k, t)
<1>1. PutIn(S, list, new, p, t) /\ StopsAt(list, key, k, p)
  BY InsertOrderedShape
<1> HIDE DEF p, new
<1>2. Sorted(new, key2)
  <2>1. PutInOrder(S, list, new, p, t, key, key2, k)
    BY <1>1 DEF PutInOrder
  <2> QED BY <2>1, PutInSorted
<1> QED BY <1>2 DEF new
-----------------------------------------------------------------------------
\* new is list without its entry at place p.
CutOut(S, list, new, p) ==
  /\ p \in 1..Len(list)
  /\ new \in Seq(S) /\ Len(new) = Len(list) - 1
  /\ \A j \in 1..(Len(list) - 1) : new[j] = IF j < p THEN list[j] ELSE list[j + 1]

\* The same, place by place and both ways, for a list of n entries.
CutPlaces(S, list, new, p, n) ==
  /\ n = Len(list) /\ Len(new) = n - 1 /\ new \in Seq(S) /\ p \in 1..n
  /\ \A i \in 1..n : i < p => i \in 1..(n - 1) /\ new[i] = list[i]
  /\ \A i \in 1..n : i > p => i - 1 \in 1..(n - 1) /\ new[i - 1] = list[i]
  /\ \A j \in 1..(n - 1) :
       /\ j < p => j \in 1..n /\ new[j] = list[j]
       /\ ~(j < p) => j + 1 \in 1..n /\ new[j] = list[j + 1]

\* list_remove takes out the node it is given, when that node is linked.
LEMMA UnlinkShape ==
  ASSUME NEW S, NEW list \in Seq(S), NEW t, t \in Range(list)
  PROVE  \E p \in Nat : CutOut(S, list, Unlink(list, t), p) /\ list[p] = t
<1> DEFINE p == CHOOSE i \in 1..Len(list) : list[i] = t
           new == Unlink(list, t)
<1>1. \E i \in 1..Len(list) : list[i] = t
  BY RangeByPlace
<1>2. p \in 1..Len(list) /\ list[p] = t
  BY <1>1
<1>3. new = RemoveAt(list, p)
  BY DEF Unlink
<1> HIDE DEF p, new
<1>4. /\ RemoveAt(list, p) \in Seq(S)
      /\ Len(RemoveAt(list, p)) = Len(list) - 1
      /\ \A j \in 1..(Len(list) - 1) :
           RemoveAt(list, p)[j] = IF j < p THEN list[j] ELSE list[j + 1]
  BY <1>2, RemoveAtEntries
<1>5. CutOut(S, list, new, p)
  BY <1>2, <1>3, <1>4, Zenon DEF CutOut
<1>6. p \in Nat
  BY <1>2
<1>7. CutOut(S, list, new, p) /\ list[p] = t
  BY <1>2, <1>5
<1> QED BY <1>6, <1>7 DEF new

\* A list with one entry less, place by place.
LEMMA CutOutByPlace ==
  ASSUME NEW S, NEW list \in Seq(S), NEW new, NEW p, CutOut(S, list, new, p)
  PROVE  \E n \in Nat : CutPlaces(S, list, new, p, n)
<1>1. PICK n \in Nat : n = Len(list)
  BY LenProperties
<1>2. /\ p \in 1..n /\ new \in Seq(S) /\ Len(new) = n - 1
      /\ \A j \in 1..(n - 1) : new[j] = IF j < p THEN list[j] ELSE list[j + 1]
  BY <1>1 DEF CutOut
<1>3. ASSUME NEW i \in 1..n, i > p
      PROVE  i - 1 \in 1..(n - 1) /\ new[i - 1] = list[i]
  <2>1. i - 1 \in 1..(n - 1) /\ (i - 1) + 1 = i /\ ~(i - 1 < p)
    BY <1>2, <1>3
  <2> QED BY <1>2, <2>1
<1>4. ASSUME NEW i \in 1..n, i < p
      PROVE  i \in 1..(n - 1) /\ new[i] = list[i]
  BY <1>2, <1>4
<1>5. ASSUME NEW j \in 1..(n - 1)
      PROVE  /\ j < p => j \in 1..n /\ new[j] = list[j]
             /\ ~(j < p) => j + 1 \in 1..n /\ new[j] = list[j + 1]
  BY <1>2
<1> QED BY <1>1, <1>2, <1>3, <1>4, <1>5 DEF CutPlaces

\* Cutting an entry out of a list without doubles removes it and no other.
LEMMA CutOutLinks ==
  ASSUME NEW S, NEW list \in Seq(S), NEW new, NEW p, CutOut(S, list, new, p),
         NEW t, list[p] = t, IsInjective(list)
  PROVE  /\ new \in Seq(S)
         /\ \A x : x \in Range(new) <=> x \in Range(list) /\ x # t
         /\ IsInjective(new)
<1>1. list[p] = t
  OBVIOUS
<1>2. PICK n \in Nat : CutPlaces(S, list, new, p, n)
  BY CutOutByPlace
<1>0. /\ n = Len(list) /\ Len(new) = n - 1 /\ new \in Seq(S) /\ p \in 1..n
      /\ \A i \in 1..n : i < p => i \in 1..(n - 1) /\ new[i] = list[i]
      /\ \A i \in 1..n : i > p => i - 1 \in 1..(n - 1) /\ new[i - 1] = list[i]
      /\ \A j \in 1..(n - 1) :
           /\ j < p => j \in 1..n /\ new[j] = list[j]
           /\ ~(j < p) => j + 1 \in 1..n /\ new[j] = list[j + 1]
  BY <1>2 DEF CutPlaces
<1>3. /\ \A x : x \in Range(list) <=> \E i \in 1..n : list[i] = x
      /\ \A i, j \in 1..n : list[i] = list[j] => i = j
  <2>1. /\ \A x : x \in Range(list) <=> \E i \in 1..Len(list) : list[i] = x
        /\ \A i, j \in 1..Len(list) : list[i] = list[j] => i = j
    BY RangeByPlace
  <2> QED BY <1>0, <2>1
<1>4. /\ \A x : x \in Range(new) <=> \E i \in 1..(n - 1) : new[i] = x
      /\ IsInjective(new) <=> \A i, j \in 1..(n - 1) : new[i] = new[j] => i = j
  <2>0. new \in Seq(S)
    BY <1>0
  <2>1. /\ \A x : x \in Range(new) <=> \E i \in 1..Len(new) : new[i] = x
        /\ IsInjective(new) <=> \A i, j \in 1..Len(new) : new[i] = new[j] => i = j
    BY <2>0, RangeByPlace
  <2> QED BY <1>0, <2>1
<1>5. ASSUME NEW x
      PROVE  x \in Range(new) <=> x \in Range(list) /\ x # t
  <2>1. ASSUME x \in Range(new)
        PROVE  x \in Range(list) /\ x # t
    <3>1. PICK j \in 1..(n - 1) : new[j] = x
      BY <1>4, <2>1
    <3>2. CASE j < p
      <4>1. j \in 1..n /\ list[j] = x /\ j # p /\ p \in 1..n
        BY <1>0, <3>1, <3>2
      <4> QED BY <1>1, <1>3, <4>1
    <3>3. CASE ~(j < p)
      <4>1. j + 1 \in 1..n /\ list[j + 1] = x /\ j + 1 # p /\ p \in 1..n
        BY <1>0, <3>1, <3>3
      <4> QED BY <1>1, <1>3, <4>1
    <3> QED BY <3>2, <3>3
  <2>2. ASSUME x \in Range(list), x # t
        PROVE  x \in Range(new)
    <3>1. PICK i \in 1..n : list[i] = x
      BY <1>3, <2>2
    <3>2. i < p \/ i > p
      BY <1>1, <1>0, <2>2, <3>1
    <3> QED BY <1>0, <1>4, <3>1, <3>2
  <2> QED BY <2>1, <2>2
<1>6. ASSUME NEW i \in 1..(n - 1), NEW j \in 1..(n - 1), new[i] = new[j]
      PROVE  i = j
  <2>0. p \in 1..n
    BY <1>0
  <2>1. /\ i < p => i \in 1..n /\ new[i] = list[i]
        /\ ~(i < p) => i + 1 \in 1..n /\ new[i] = list[i + 1]
        /\ j < p => j \in 1..n /\ new[j] = list[j]
        /\ ~(j < p) => j + 1 \in 1..n /\ new[j] = list[j + 1]
    BY <1>0
  <2>2. CASE i < p /\ j < p
    BY <1>3, <1>6, <2>1, <2>2
  <2>3. CASE i < p /\ ~(j < p)
    <3>1. i = j + 1
      BY <1>3, <1>6, <2>1, <2>3
    <3> QED BY <3>1, <2>3, <2>0
  <2>4. CASE ~(i < p) /\ j < p
    <3>1. j = i + 1
      BY <1>3, <1>6, <2>1, <2>4
    <3> QED BY <3>1, <2>4, <2>0
  <2>5. CASE ~(i < p) /\ ~(j < p)
    <3>1. i + 1 = j + 1
      BY <1>3, <1>6, <2>1, <2>5
    <3> QED BY <3>1
  <2> QED BY <2>2, <2>3, <2>4, <2>5
<1> QED BY <1>0, <1>4, <1>5, <1>6

\* list_remove unlinks the node and no other.
LEMMA UnlinkLinks ==
  ASSUME NEW S, NEW list \in Seq(S), NEW t, t \in Range(list), IsInjective(list)
  PROVE  /\ Unlink(list, t) \in Seq(S)
         /\ \A x : x \in Range(Unlink(list, t)) <=> x \in Range(list) /\ x # t
         /\ IsInjective(Unlink(list, t))
<1>1. PICK p \in Nat : CutOut(S, list, Unlink(list, t), p) /\ list[p] = t
  BY UnlinkShape
<1> QED BY <1>1, CutOutLinks

\* Cutting an entry out keeps the order of what stays.
LEMMA CutOutSorted ==
  ASSUME NEW S, NEW list \in Seq(S), NEW new, NEW p, CutOut(S, list, new, p),
         NEW key, Sorted(list, key)
  PROVE  Sorted(new, key)
<1>2. PICK n \in Nat : CutPlaces(S, list, new, p, n)
  BY CutOutByPlace
<1>0. /\ n = Len(list) /\ Len(new) = n - 1 /\ new \in Seq(S) /\ p \in 1..n
      /\ \A i \in 1..n : i < p => i \in 1..(n - 1) /\ new[i] = list[i]
      /\ \A i \in 1..n : i > p => i - 1 \in 1..(n - 1) /\ new[i - 1] = list[i]
      /\ \A j \in 1..(n - 1) :
           /\ j < p => j \in 1..n /\ new[j] = list[j]
           /\ ~(j < p) => j + 1 \in 1..n /\ new[j] = list[j + 1]
  BY <1>2 DEF CutPlaces
<1>3. \A i, j \in 1..n : i <= j => key[list[i]] <= key[list[j]]
  BY <1>0 DEF Sorted
<1>4. ASSUME NEW i \in 1..(n - 1), NEW j \in 1..(n - 1), i <= j
      PROVE  key[new[i]] <= key[new[j]]
  <2>1. \E a, b \in 1..n : a <= b /\ new[i] = list[a] /\ new[j] = list[b]
    <3>1. CASE j < p
      <4>1. i < p /\ i \in 1..n /\ j \in 1..n
        BY <1>0, <1>4, <3>1
      <4>2. new[i] = list[i] /\ new[j] = list[j]
        BY <1>0, <3>1, <4>1
      <4> QED BY <1>4, <4>1, <4>2
    <3>2. CASE i < p /\ ~(j < p)
      <4>1. i \in 1..n /\ j + 1 \in 1..n /\ i <= j + 1
        BY <1>0, <1>4, <3>2
      <4>2. new[i] = list[i] /\ new[j] = list[j + 1]
        BY <1>0, <3>2
      <4> QED BY <4>1, <4>2
    <3>3. CASE ~(i < p)
      <4>1. ~(j < p) /\ i + 1 \in 1..n /\ j + 1 \in 1..n /\ i + 1 <= j + 1
        BY <1>0, <1>4, <3>3
      <4>2. new[i] = list[i + 1] /\ new[j] = list[j + 1]
        BY <1>0, <3>3, <4>1
      <4> QED BY <4>1, <4>2
    <3> QED BY <3>1, <3>2, <3>3
  <2> QED BY <1>3, <2>1
<1>5. \A i, j \in 1..Len(new) : i <= j => key[new[i]] <= key[new[j]]
  BY <1>0, <1>4
<1> QED BY <1>5 DEF Sorted

\* list_remove keeps the order of what stays.
LEMMA UnlinkSorted ==
  ASSUME NEW S, NEW list \in Seq(S), NEW t, t \in Range(list),
         NEW key, Sorted(list, key)
  PROVE  Sorted(Unlink(list, t), key)
<1>1. PICK p \in Nat : CutOut(S, list, Unlink(list, t), p) /\ list[p] = t
  BY UnlinkShape
<1> QED BY <1>1, CutOutSorted

\* The head of a list is linked, and taking it out is taking the tail.
LEMMA HeadLinked ==
  ASSUME NEW S, NEW list \in Seq(S), list # <<>>
  PROVE  /\ Head(list) \in Range(list) /\ Head(list) \in S
         /\ Tail(list) \in Seq(S)
         /\ CutOut(S, list, Tail(list), 1) /\ list[1] = Head(list)
<1>1. Len(list) \in Nat /\ Len(list) # 0
  BY LenProperties, EmptySeq
<1>2. list[1] = Head(list) /\ 1 \in 1..Len(list)
  BY <1>1
<1>3. /\ Tail(list) \in Seq(S) /\ Len(Tail(list)) = Len(list) - 1
      /\ \A j \in 1..(Len(list) - 1) : Tail(list)[j] = list[j + 1]
  BY <1>1
<1> QED BY <1>1, <1>2, <1>3, RangeByPlace, ElementOfSeq DEF CutOut

\* Whatever a list holds besides the entry at p stays in it.
LEMMA CutOutKeeps ==
  ASSUME NEW S, NEW list \in Seq(S), NEW new, NEW p, CutOut(S, list, new, p),
         NEW x, x \in Range(list), x # list[p]
  PROVE  x \in Range(new)
<1>1. PICK n \in Nat : CutPlaces(S, list, new, p, n)
  BY CutOutByPlace
<1>2. /\ n = Len(list) /\ Len(new) = n - 1 /\ new \in Seq(S) /\ p \in 1..n
      /\ \A i \in 1..n : i < p => i \in 1..(n - 1) /\ new[i] = list[i]
      /\ \A i \in 1..n : i > p => i - 1 \in 1..(n - 1) /\ new[i - 1] = list[i]
  BY <1>1 DEF CutPlaces
<1>3. PICK i \in 1..Len(list) : list[i] = x
  BY RangeByPlace
<1>4. i < p \/ i > p
  BY <1>2, <1>3
<1>5. \E j \in 1..Len(new) : new[j] = x
  BY <1>2, <1>3, <1>4
<1>6. new \in Seq(S)
  BY <1>2
<1> QED BY <1>5, <1>6, RangeByPlace

\* list_remove leaves every other entry in the list.
LEMMA UnlinkKeeps ==
  ASSUME NEW S, NEW list \in Seq(S), NEW t, t \in Range(list)
  PROVE  /\ Unlink(list, t) \in Seq(S)
         /\ \A x \in Range(list) : x # t => x \in Range(Unlink(list, t))
<1>1. PICK p \in Nat : CutOut(S, list, Unlink(list, t), p) /\ list[p] = t
  BY UnlinkShape
<1>2. ASSUME NEW x \in Range(list), x # t
      PROVE  x \in Range(Unlink(list, t))
  BY <1>1, <1>2, CutOutKeeps
<1> QED BY <1>1, <1>2 DEF CutOut

\* Taking the head out of a list.
LEMMA TailLinks ==
  ASSUME NEW S, NEW list \in Seq(S), list # <<>>
  PROVE  /\ Head(list) \in S /\ Head(list) \in Range(list)
         /\ Tail(list) \in Seq(S)
         /\ \A x \in Range(list) : x # Head(list) => x \in Range(Tail(list))
<1>1. /\ Head(list) \in Range(list) /\ Head(list) \in S /\ Tail(list) \in Seq(S)
      /\ CutOut(S, list, Tail(list), 1) /\ list[1] = Head(list)
  BY HeadLinked
<1>2. ASSUME NEW x \in Range(list), x # Head(list)
      PROVE  x \in Range(Tail(list))
  BY <1>1, <1>2, CutOutKeeps
<1> QED BY <1>1, <1>2

\* The tail of a list without doubles, and of a list in order.
LEMMA TailInjective ==
  ASSUME NEW S, NEW list \in Seq(S), list # <<>>, IsInjective(list)
  PROVE  /\ \A x : x \in Range(Tail(list)) <=> x \in Range(list) /\ x # Head(list)
         /\ IsInjective(Tail(list))
<1>1. CutOut(S, list, Tail(list), 1) /\ list[1] = Head(list)
  BY HeadLinked
<1> QED BY <1>1, CutOutLinks

LEMMA TailSorted ==
  ASSUME NEW S, NEW list \in Seq(S), list # <<>>, NEW key, Sorted(list, key)
  PROVE  /\ Sorted(Tail(list), key)
         /\ \A x \in Range(list) : key[Head(list)] <= key[x]
<1>1. CutOut(S, list, Tail(list), 1) /\ list[1] = Head(list) /\ 1 \in 1..Len(list)
  BY HeadLinked DEF CutOut
<1>2. Sorted(Tail(list), key)
  BY <1>1, CutOutSorted
<1>3. ASSUME NEW x \in Range(list)
      PROVE  key[Head(list)] <= key[x]
  <2>1. PICK i \in 1..Len(list) : list[i] = x
    BY RangeByPlace
  <2> QED BY <1>1, <2>1 DEF Sorted
<1> QED BY <1>2, <1>3

\* The order of a list depends on the keys of its entries only.
LEMMA SortedSameKeys ==
  ASSUME NEW S, NEW list \in Seq(S), NEW key, NEW key2,
         \A x \in Range(list) : key2[x] = key[x], Sorted(list, key)
  PROVE  Sorted(list, key2)
<1>1. \A i \in 1..Len(list) : list[i] \in Range(list)
  BY RangeByPlace
<1> QED BY <1>1 DEF Sorted

\* What a list holds after list_remove, it held before.
LEMMA UnlinkFrom ==
  ASSUME NEW S, NEW list \in Seq(S), NEW t, t \in Range(list)
  PROVE  \A x \in Range(Unlink(list, t)) : x \in Range(list)
<1> DEFINE new == Unlink(list, t)
<1>1. PICK p \in Nat : CutOut(S, list, new, p) /\ list[p] = t
  BY UnlinkShape
<1> HIDE DEF new
<1>2. PICK n \in Nat : CutPlaces(S, list, new, p, n)
  BY <1>1, CutOutByPlace
<1>3. /\ n = Len(list) /\ Len(new) = n - 1 /\ new \in Seq(S)
      /\ \A j \in 1..(n - 1) :
           /\ j < p => j \in 1..n /\ new[j] = list[j]
           /\ ~(j < p) => j + 1 \in 1..n /\ new[j] = list[j + 1]
  BY <1>2 DEF CutPlaces
<1>4. ASSUME NEW x \in Range(new)
      PROVE  x \in Range(list)
  <2>0. new \in Seq(S)
    BY <1>3
  <2>1. PICK j \in 1..Len(new) : new[j] = x
    BY <2>0, RangeByPlace
  <2>2. \E i \in 1..Len(list) : list[i] = x
    BY <1>3, <2>1
  <2> QED BY <2>2, RangeByPlace
<1> QED BY <1>4 DEF new
-----------------------------------------------------------------------------

\* Priorities are keys of the ready list.
LEMMA PrioIsKey == Prio \in [Tasks -> Int] /\ \A t \in Tasks : Prio[t] \in Int
BY TaskAssumption

\* The ready list with one task more.
LEMMA ReadyWith ==
  ASSUME TypeOK, NEW t \in Tasks
  PROVE  /\ InsertOrdered(ready, Prio, Prio[t], t) \in Seq(Tasks)
         /\ \A x : x \in Range(InsertOrdered(ready, Prio, Prio[t], t)) <=>
                   x \in Range(ready) \/ x = t
         /\ IsInjective(ready) /\ t \notin Range(ready) =>
              IsInjective(InsertOrdered(ready, Prio, Prio[t], t))
<1>1. ready \in Seq(Tasks) /\ Prio[t] \in Int
  BY PrioIsKey DEF TypeOK
<1> QED BY <1>1, PrioIsKey, InsertOrderedLinks

\* The sleep list with one task more.
LEMMA SleepWith ==
  ASSUME TypeOK, NEW t \in Tasks, NEW k \in Int
  PROVE  /\ InsertOrdered(sleep, timeout, k, t) \in Seq(Tasks)
         /\ \A x : x \in Range(InsertOrdered(sleep, timeout, k, t)) <=>
                   x \in Range(sleep) \/ x = t
         /\ IsInjective(sleep) /\ t \notin Range(sleep) =>
              IsInjective(InsertOrdered(sleep, timeout, k, t))
<1>1. sleep \in Seq(Tasks) /\ timeout \in [Tasks -> Int]
  BY DEF TypeOK
<1> QED BY <1>1, InsertOrderedLinks

\* A deadline is an int, and g_ticks stays in its 32 bits.
LEMMA TickRange ==
  ASSUME TypeOK
  PROVE  /\ \A n \in Int : Deadline(n) \in Int
         /\ Wrap(ticks + 1) \in 0..(TickMod - 1)
<1>1. HalfTick \in Nat /\ ticks \in 0..(2 * HalfTick - 1)
  BY BoundAssumption DEF TypeOK, TickMod
<1> QED BY <1>1 DEF Deadline, Signed, Wrap, TickMod

\* Who executes is an agent; a task that executes is the current one.
LEMMA ExecutesWho ==
  ASSUME TypeOK, NEW x, Executes(x)
  PROVE  /\ fault = "none" /\ x \in Agents
         /\ x \in Tasks => x = current /\ pc[Isr] = "off"
         /\ x = Isr => pc[Isr] # "off"
         /\ x \in Tasks \/ x = Isr
BY TaskAssumption DEF Executes, TypeOK, Agents

\* The lists and the current task after a switch: the head of the ready list
\* leaves it, the current task joins it if it can still run.
LEMMA DispatchShape ==
  ASSUME TypeOK, ready # <<>>, Dispatch
  PROVE  /\ Head(ready) \in Tasks /\ Head(ready) \in Range(ready)
         /\ ready' \in Seq(Tasks) /\ current' = Head(ready)
         /\ state' \in [Tasks -> {READY, RUN, WAIT, DEAD, FREE}]
<1> DEFINE high == Head(ready)
           queue == IF Requeues THEN InsertOrdered(ready, Prio, Prio[current], current)
                    ELSE ready
<1>1. ready \in Seq(Tasks) /\ current \in Tasks
  BY DEF TypeOK
<1>2. high \in Tasks /\ high \in Range(ready)
  BY <1>1, HeadLinked
<1>3. queue \in Seq(Tasks) /\ high \in Range(queue)
  BY <1>1, <1>2, ReadyWith
<1>4. /\ ready' = Unlink(queue, high) /\ current' = high
      /\ state' = [t \in Tasks |-> IF t = high THEN RUN
                                   ELSE IF t = current /\ Requeues THEN READY
                                   ELSE state[t]]
  BY DEF Dispatch
<1> HIDE DEF queue
<1>5. Unlink(queue, high) \in Seq(Tasks)
  BY <1>3, UnlinkShape DEF CutOut
<1>6. state' \in [Tasks -> {READY, RUN, WAIT, DEAD, FREE}]
  BY <1>4 DEF TypeOK
<1> QED BY <1>2, <1>4, <1>5, <1>6

\* A switch of the processor keeps the types.
LEMMA SwitchType ==
  ASSUME TypeInv, NEW x, NEW where, NEW self, NEW next \in {"off", "run", "takeRet"},
         TaskSwitch(x, where, self, next)
  PROVE  TypeInv'
<1>1. /\ Executes(x) /\ ready # <<>>
      /\ pc' = [pc EXCEPT ![x] = next]
      /\ UNCHANGED <<sleep, dead, timeout, retv, ticks, semVars, localVars, fault>>
      /\ UNCHANGED <<ready, state, current>> \/ Dispatch
  BY DEF TaskSwitch, At, Goto, SwitchBreaks
<1>2. /\ ready' \in Seq(Tasks) /\ current' \in Tasks
      /\ state' \in [Tasks -> {READY, RUN, WAIT, DEAD, FREE}]
  BY <1>1, DispatchShape DEF TypeInv, TypeOK
<1>3. pc' \in [Agents -> PCs]
  BY <1>1 DEF TypeInv, TypeOK, PCs
<1>4. TypeOK'
  BY <1>1, <1>2, <1>3 DEF TypeInv, TypeOK, TickMod, semVars, localVars
<1>5. /\ \A t \in Tasks : timeout'[t] > 0 => t \in Range(sleep')
      /\ \A y \in Agents :
           pc'[y] \in {"giveCheck", "giveReady"} => target'[y] \in Tasks
  BY <1>1 DEF TypeInv, TypeOK, localVars
<1> QED BY <1>4, <1>5 DEF TypeInv

\* The entry that list_remove or the tick handler takes out of the sleep list;
\* every other sleeper stays.
LEMMA SleepWithout ==
  ASSUME TypeOK, NEW t, t \in Range(sleep)
  PROVE  /\ Unlink(sleep, t) \in Seq(Tasks)
         /\ \A x \in Range(sleep) : x # t => x \in Range(Unlink(sleep, t))
<1>1. sleep \in Seq(Tasks)
  BY DEF TypeOK
<1> QED BY <1>1, UnlinkKeeps

\* The sleep list without its head.
LEMMA SleepTail ==
  ASSUME TypeOK, sleep # <<>>
  PROVE  /\ Head(sleep) \in Tasks /\ Head(sleep) \in Range(sleep)
         /\ Tail(sleep) \in Seq(Tasks)
         /\ \A x \in Range(sleep) : x # Head(sleep) => x \in Range(Tail(sleep))
<1>1. sleep \in Seq(Tasks)
  BY DEF TypeOK
<1> QED BY <1>1, TailLinks

\* A timeout that is cleared is an int.
LEMMA TimeoutCleared ==
  ASSUME TypeOK, NEW t \in Tasks, timeout' = [timeout EXCEPT ![t] = 0]
  PROVE  /\ timeout' \in [Tasks -> Int]
         /\ \A u \in Tasks : timeout'[u] = IF u = t THEN 0 ELSE timeout[u]
         /\ \A u \in Tasks : timeout'[u] > 0 => timeout[u] > 0 /\ u # t
<1>1. timeout \in [Tasks -> Int]
  BY DEF TypeOK
<1>2. \A u \in Tasks : timeout'[u] = IF u = t THEN 0 ELSE timeout[u]
  BY <1>1
<1>3. timeout' = [u \in Tasks |-> IF u = t THEN 0 ELSE timeout[u]]
  BY <1>1
<1> QED BY <1>1, <1>2, <1>3

\* Making a task ready keeps the types of the list and of the states.
LEMMA MakeReadyType ==
  ASSUME TypeOK, NEW t \in Tasks, MakeReady(t)
  PROVE  /\ ready' \in Seq(Tasks)
         /\ state' \in [Tasks -> {READY, RUN, WAIT, DEAD, FREE}]
<1>1. ready' \in Seq(Tasks)
  BY ReadyWith DEF MakeReady
<1> QED BY <1>1 DEF MakeReady, TypeOK

LEMMA StartTaskType ==
  ASSUME TypeInv, NEW c \in Tasks, NEW t \in Tasks, StartTask(c, t)
  PROVE  TypeInv'
<1>1. /\ ready' \in Seq(Tasks)
      /\ state' \in [Tasks -> {READY, RUN, WAIT, DEAD, FREE}]
  BY MakeReadyType DEF StartTask, TypeInv
<1>2. /\ timeout' = [timeout EXCEPT ![t] = 0] /\ retv' = [retv EXCEPT ![t] = 0]
      /\ pc' = [pc EXCEPT ![c] = "switch", ![t] = "run"]
      /\ UNCHANGED <<sleep, dead, current, ticks, semVars, localVars, fault>>
  BY DEF StartTask
<1>3. /\ timeout' \in [Tasks -> Int]
      /\ \A u \in Tasks : timeout'[u] > 0 => timeout[u] > 0 /\ u # t
  BY <1>2, TimeoutCleared DEF TypeInv
<1>4. /\ retv' \in [Tasks -> {0, -1}] /\ pc' \in [Agents -> PCs]
      /\ \A x \in Agents : pc'[x] \in {"giveCheck", "giveReady"} => pc'[x] = pc[x]
  BY <1>2 DEF TypeInv, TypeOK, PCs
<1>5. UNCHANGED <<sleep, dead, current, ticks, semVars, localVars, fault>>
  BY <1>2
<1>6. TypeOK'
  BY <1>1, <1>3, <1>4, <1>5 DEF TypeInv, TypeOK, TickMod, semVars, localVars
<1> QED BY <1>3, <1>4, <1>5, <1>6 DEF TypeInv, localVars

LEMMA DelayType ==
  ASSUME TypeInv, NEW t \in Tasks, NEW n \in Delays, Delay(t, n)
  PROVE  TypeInv'
<1>1. Deadline(n) \in Int
  BY CallAssumption, TickRange DEF TypeInv
<1>2. /\ sleep' \in Seq(Tasks) /\ t \in Range(sleep')
      /\ \A x \in Range(sleep) : x \in Range(sleep')
  BY <1>1, SleepWith DEF Delay, TypeInv
<1>3. /\ state' = [state EXCEPT ![t] = WAIT]
      /\ timeout' = [timeout EXCEPT ![t] = Deadline(n)]
      /\ pc' = [pc EXCEPT ![t] = "selfSwitch"]
      /\ UNCHANGED <<ready, dead, retv, current, ticks, semVars, localVars, fault>>
  BY DEF Delay, Goto
<1> HIDE DEF Delay
<1>4. TypeOK'
  BY <1>1, <1>2, <1>3 DEF TypeInv, TypeOK, TickMod, PCs, semVars, localVars
<1> QED BY <1>1, <1>2, <1>3, <1>4 DEF TypeInv, TypeOK, localVars

LEMMA TakeWaitType ==
  ASSUME TypeInv, NEW t \in Tasks, TakeWait(t)
  PROVE  TypeInv'
<1> DEFINE s == call[t].sem
           n == call[t].timeout
<1>0. n \in TakeTimeouts \cup {0}
  BY DEF TypeInv, TypeOK
<1>1. /\ Deadline(n) \in Int /\ n \in Int
  <2> HIDE DEF n
  <2>1. n \in Int
    BY <1>0, CallAssumption
  <2> QED BY <2>1, TickRange DEF TypeInv
<1>2. /\ waiter' = [waiter EXCEPT ![s] = t]
      /\ state' = [state EXCEPT ![t] = WAIT]
      /\ pc' = [pc EXCEPT ![t] = "takeSwitch"]
      /\ UNCHANGED <<ready, dead, current, ticks, value, localVars, fault>>
  BY DEF TakeWait, Goto
<1>3. \/ /\ n > 0
         /\ timeout' = [timeout EXCEPT ![t] = Deadline(n)]
         /\ retv' = [retv EXCEPT ![t] = -1]
         /\ sleep' = InsertOrdered(sleep, timeout, Deadline(n), t)
      \/ /\ timeout' = [timeout EXCEPT ![t] = 0]
         /\ UNCHANGED <<retv, sleep>>
  BY DEF TakeWait
<1> HIDE DEF s, n
<1>4. CASE /\ n > 0
           /\ timeout' = [timeout EXCEPT ![t] = Deadline(n)]
           /\ retv' = [retv EXCEPT ![t] = -1]
           /\ sleep' = InsertOrdered(sleep, timeout, Deadline(n), t)
  <2>1. /\ sleep' \in Seq(Tasks) /\ t \in Range(sleep')
        /\ \A x \in Range(sleep) : x \in Range(sleep')
    BY <1>1, <1>4, SleepWith DEF TypeInv
  <2>2. TypeOK'
    BY <1>1, <1>2, <1>4, <2>1 DEF TypeInv, TypeOK, TickMod, PCs, localVars
  <2> QED BY <1>1, <1>2, <1>4, <2>1, <2>2 DEF TypeInv, TypeOK, localVars
<1>5. CASE /\ timeout' = [timeout EXCEPT ![t] = 0]
           /\ UNCHANGED <<retv, sleep>>
  <2>1. /\ timeout' \in [Tasks -> Int]
        /\ \A u \in Tasks : timeout'[u] > 0 => timeout[u] > 0 /\ u # t
    BY <1>5, TimeoutCleared DEF TypeInv
  <2>2. waiter' \in [Sems -> Tasks \cup {None}]
    BY <1>2 DEF TypeInv, TypeOK
  <2>3. /\ state' \in [Tasks -> {READY, RUN, WAIT, DEAD, FREE}]
        /\ pc' \in [Agents -> PCs]
        /\ \A x \in Agents : pc'[x] \in {"giveCheck", "giveReady"} => pc'[x] = pc[x]
    BY <1>2 DEF TypeInv, TypeOK, PCs
  <2>4. UNCHANGED <<ready, sleep, dead, retv, current, ticks, value, localVars, fault>>
    BY <1>2, <1>5
  <2>5. TypeOK'
    BY <2>1, <2>2, <2>3, <2>4 DEF TypeInv, TypeOK, TickMod, localVars
  <2> QED BY <2>1, <2>3, <2>4, <2>5 DEF TypeInv, localVars
<1> QED BY <1>3, <1>4, <1>5

LEMMA GiveLockedType ==
  ASSUME TypeInv, NEW x \in Agents, NEW s \in Sems, GiveLocked(x, s)
  PROVE  TypeInv'
<1> DEFINE t == waiter[s]
<1>1. CASE t = None /\ value' = [value EXCEPT ![s] = @ + 1] /\ Goto(x, Home(x))
           /\ UNCHANGED <<listVars, state, timeout, retv, current, ticks, waiter,
                          localVars, fault>>
  <2>1. pc' = [pc EXCEPT ![x] = Home(x)] /\ Home(x) \in {"off", "run"}
    BY <1>1 DEF Goto, Home
  <2>2. TypeOK'
    BY <1>1, <2>1 DEF TypeInv, TypeOK, TickMod, PCs, localVars, listVars
  <2> QED BY <1>1, <2>1, <2>2 DEF TypeInv, TypeOK, localVars, listVars
<1>2. CASE /\ t # None
           /\ waiter' = [waiter EXCEPT ![s] = None]
           /\ target' = [target EXCEPT ![x] = t]
           /\ retv' = [retv EXCEPT ![t] = 0]
           /\ IF timeout[t] > 0
              THEN /\ sleep' = Unlink(sleep, t)
                   /\ timeout' = [timeout EXCEPT ![t] = 0]
              ELSE UNCHANGED <<sleep, timeout>>
           /\ Goto(x, "giveCheck")
           /\ UNCHANGED <<ready, dead, state, current, ticks, value, call, result, fault>>
  <2>1. t \in Tasks
    BY <1>2 DEF TypeInv, TypeOK
  <2>2. pc' = [pc EXCEPT ![x] = "giveCheck"]
    BY <1>2 DEF Goto
  <2> HIDE DEF t
  <2>3. CASE timeout[t] > 0
    <3>1. /\ sleep' \in Seq(Tasks)
          /\ \A y \in Range(sleep) : y # t => y \in Range(sleep')
      BY <1>2, <2>1, <2>3, SleepWithout DEF TypeInv
    <3>2. TypeOK'
      BY <1>2, <2>1, <2>2, <2>3, <3>1 DEF TypeInv, TypeOK, TickMod, PCs
    <3>3. /\ timeout' = [timeout EXCEPT ![t] = 0] /\ timeout \in [Tasks -> Int]
          /\ target' = [target EXCEPT ![x] = t] /\ target \in [Agents -> Tasks \cup {None}]
      BY <1>2, <2>3 DEF TypeInv, TypeOK
    <3>4. \A u \in Tasks : timeout'[u] > 0 => u \in Range(sleep')
      BY <2>1, <3>1, <3>3 DEF TypeInv
    <3>5. \A y \in Agents :
            pc'[y] \in {"giveCheck", "giveReady"} => target'[y] \in Tasks
      BY <2>1, <2>2, <3>3 DEF TypeInv, TypeOK
    <3> QED BY <3>2, <3>4, <3>5 DEF TypeInv
  <2>4. CASE ~(timeout[t] > 0)
    <3>1. TypeOK'
      BY <1>2, <2>1, <2>2, <2>4 DEF TypeInv, TypeOK, TickMod, PCs
    <3> QED BY <1>2, <2>1, <2>2, <2>4, <3>1 DEF TypeInv, TypeOK
  <2> QED BY <2>3, <2>4
<1>3. CASE Break("freed")
  <2>1. TypeOK'
    BY <1>3 DEF Break, TypeInv, TypeOK, TickMod
  <2> QED BY <1>3, <2>1 DEF Break, TypeInv
<1> QED BY <1>1, <1>2, <1>3 DEF GiveLocked

LEMMA TickWakeType ==
  ASSUME TypeInv, TickWake
  PROVE  TypeInv'
<1> DEFINE t == Head(sleep)
<1>1. /\ sleep # <<>> /\ sleep' = Tail(sleep) /\ MakeReady(t)
      /\ timeout' = [timeout EXCEPT ![t] = 0]
      /\ pc' = [pc EXCEPT ![Isr] = "tickWoke"]
      /\ UNCHANGED <<dead, retv, current, ticks, semVars, localVars, fault>>
  BY DEF TickWake, Goto
<1>2. /\ t \in Tasks /\ sleep' \in Seq(Tasks)
      /\ \A x \in Range(sleep) : x # t => x \in Range(sleep')
  BY <1>1, SleepTail DEF TypeInv
<1> HIDE DEF t
<1>3. /\ ready' \in Seq(Tasks)
      /\ state' \in [Tasks -> {READY, RUN, WAIT, DEAD, FREE}]
  BY <1>1, <1>2, MakeReadyType DEF TypeInv
<1>4. /\ timeout' \in [Tasks -> Int]
      /\ \A u \in Tasks : timeout'[u] > 0 => timeout[u] > 0 /\ u # t
  BY <1>1, <1>2, TimeoutCleared DEF TypeInv
<1>5. /\ pc' \in [Agents -> PCs]
      /\ \A x \in Agents : pc'[x] \in {"giveCheck", "giveReady"} => pc'[x] = pc[x]
  BY <1>1 DEF TypeInv, TypeOK, PCs
<1>6. UNCHANGED <<dead, retv, current, ticks, semVars, localVars, fault>>
  BY <1>1
<1>7. TypeOK'
  BY <1>2, <1>3, <1>4, <1>5, <1>6 DEF TypeInv, TypeOK, TickMod, semVars, localVars
<1> QED BY <1>2, <1>4, <1>5, <1>6, <1>7 DEF TypeInv, localVars

\* Every step keeps the types, and TypeInv with them.
LEMMA TypeStep ==
  ASSUME TypeInv, [Next]_vars
  PROVE  TypeInv'
<1>1. ASSUME NEW t \in Tasks, NEW u \in Tasks, Create(t, u)
      PROVE  TypeInv'
  BY <1>1, StartTaskType DEF Create
<1>2. ASSUME NEW t \in Tasks, NEW n \in Delays, Delay(t, n)
      PROVE  TypeInv'
  BY <1>2, DelayType
<1>3. ASSUME NEW t \in Tasks, Yield(t) \/ Exit(t)
      PROVE  TypeInv'
  BY <1>3 DEF Yield, Exit, Goto, TypeInv, TypeOK, TickMod, PCs, semVars, localVars, listVars
<1>4. ASSUME NEW t \in Tasks, NEW s \in Sems, NEW n \in TakeTimeouts, TakeCheck(t, s, n)
      PROVE  TypeInv'
  <2>1. /\ call' = [call EXCEPT ![t] = [sem |-> s, timeout |-> n]]
        /\ result' \in [Tasks -> {0, -1}] /\ pc' \in [Agents -> PCs]
        /\ UNCHANGED <<listVars, state, timeout, retv, current, ticks, semVars, target, fault>>
        /\ \A x \in Agents : pc'[x] \in {"giveCheck", "giveReady"} => pc'[x] = pc[x]
    BY <1>4 DEF TakeCheck, Goto, TypeInv, TypeOK, PCs, Agents
  <2>2. TypeOK'
    BY <2>1 DEF TypeInv, TypeOK, TickMod, semVars, listVars
  <2> QED BY <2>1, <2>2 DEF TypeInv, listVars
<1>5. ASSUME NEW t \in Tasks, TakeFast(t) \/ TakeRecheck(t) \/ TakeReturn(t)
      PROVE  TypeInv'
  <2>1. \/ value' = [value EXCEPT ![call[t].sem] = @ - 1] /\ UNCHANGED waiter
        \/ UNCHANGED semVars
    BY <1>5 DEF TakeFast, TakeRecheck, TakeReturn, TakeToken
  <2>2. value' \in [Sems -> Int] /\ waiter' \in [Sems -> Tasks \cup {None}]
    BY <2>1 DEF TypeInv, TypeOK, semVars
  <2>3. /\ result' \in [Tasks -> {0, -1}] /\ pc' = [pc EXCEPT ![t] = "run"]
        /\ UNCHANGED <<listVars, state, timeout, retv, current, ticks, call, target, fault>>
    BY <1>5 DEF TakeFast, TakeRecheck, TakeReturn, TakeToken, Goto, TypeInv, TypeOK, semVars
  <2>4. TypeOK'
    BY <2>2, <2>3 DEF TypeInv, TypeOK, TickMod, PCs, listVars
  <2> QED BY <2>3, <2>4 DEF TypeInv, TypeOK, listVars
<1>6. ASSUME NEW t \in Tasks, TakeWait(t)
      PROVE  TypeInv'
  BY <1>6, TakeWaitType
<1>7. ASSUME NEW x \in Agents, NEW s \in Sems, GiveLocked(x, s)
      PROVE  TypeInv'
  BY <1>7, GiveLockedType
<1>8. ASSUME NEW x \in Agents, GiveCheck(x)
      PROVE  TypeInv'
  <2>1. /\ pc[x] = "giveCheck"
        /\ pc' = [pc EXCEPT ![x] = IF state[target[x]] = WAIT THEN "giveReady" ELSE Home(x)]
        /\ UNCHANGED <<listVars, state, timeout, retv, current, ticks, semVars, localVars, fault>>
    BY <1>8 DEF GiveCheck, At, Goto
  <2>2. pc' \in [Agents -> PCs]
    BY <2>1 DEF TypeInv, TypeOK, PCs, Home
  <2>3. TypeOK'
    BY <2>1, <2>2 DEF TypeInv, TypeOK, TickMod, semVars, localVars, listVars
  <2> QED BY <2>1, <2>3 DEF TypeInv, TypeOK, localVars, listVars
<1>9. ASSUME NEW x \in Agents, GiveReady(x)
      PROVE  TypeInv'
  <2>1. target[x] \in Tasks
    BY <1>9 DEF GiveReady, At, TypeInv
  <2>2. /\ ready' \in Seq(Tasks)
        /\ state' \in [Tasks -> {READY, RUN, WAIT, DEAD, FREE}]
    BY <1>9, <2>1, MakeReadyType DEF GiveReady, TypeInv
  <2>3. /\ pc' = [pc EXCEPT ![x] = "switch"]
        /\ UNCHANGED <<sleep, dead, timeout, retv, current, ticks, semVars, localVars, fault>>
    BY <1>9 DEF GiveReady, Goto
  <2>4. TypeOK'
    BY <2>2, <2>3 DEF TypeInv, TypeOK, TickMod, PCs, semVars, localVars
  <2> QED BY <2>3, <2>4 DEF TypeInv, TypeOK, localVars
<1>10. ASSUME NEW x \in Agents, GiveReadyFails(x) \/ SwitchFails(x)
       PROVE  TypeInv'
  <2>1. /\ fault' \in {"none", "relink", "freed", "nullHead"}
        /\ UNCHANGED <<ready, sleep, dead, state, timeout, retv, current, ticks,
                       value, waiter, pc, call, target, result>>
    BY <1>10 DEF GiveReadyFails, SwitchFails, SwitchFault, Break
  <2>2. TypeOK'
    BY <2>1 DEF TypeInv, TypeOK, TickMod
  <2> QED BY <2>1, <2>2 DEF TypeInv
<1>11. ASSUME NEW x \in Agents, Switch(x) \/ SelfSwitch(x) \/ TakeSwitch(x)
       PROVE  TypeInv'
  BY <1>11, SwitchType DEF Switch, SelfSwitch, TakeSwitch, Home
<1>12. ASSUME TickStart \/ TickDone
       PROVE  TypeInv'
  <2>1. /\ ticks' \in 0..(TickMod - 1) /\ pc' \in [Agents -> PCs]
        /\ \A x \in Agents : pc'[x] \in {"giveCheck", "giveReady"} => pc'[x] = pc[x]
        /\ UNCHANGED <<listVars, state, timeout, retv, current, semVars, localVars, fault>>
    BY <1>12, TickRange DEF TickStart, TickDone, Goto, TypeInv, TypeOK, PCs
  <2>2. TypeOK'
    BY <2>1 DEF TypeInv, TypeOK, TickMod, semVars, localVars, listVars
  <2> QED BY <2>1, <2>2 DEF TypeInv, localVars, listVars
<1>13. ASSUME TickWake
       PROVE  TypeInv'
  BY <1>13, TickWakeType
<1>14. ASSUME IdleBoot
       PROVE  TypeInv'
  BY <1>14, TaskAssumption, StartTaskType DEF IdleBoot
<1>15. ASSUME IdleReap
       PROVE  TypeInv'
  <2>1. TypeOK'
    BY <1>15 DEF IdleReap, TypeInv, TypeOK, TickMod, semVars, localVars
  <2> QED BY <1>15, <2>1 DEF IdleReap, TypeInv, localVars
<1>16. ASSUME UNCHANGED vars
       PROVE  TypeInv'
  <2>1. TypeOK'
    BY <1>16 DEF vars, TypeInv, TypeOK, TickMod
  <2> QED BY <1>16, <2>1 DEF vars, TypeInv
<1>17. /\ \A t \in Tasks : t \in Agents
       /\ Isr \in Agents /\ IsrSems \subseteq Sems
  BY CallAssumption DEF Agents
<1> QED
  BY <1>1, <1>2, <1>3, <1>4, <1>5, <1>6, <1>7, <1>8, <1>9, <1>10, <1>11, <1>12,
     <1>13, <1>14, <1>15, <1>16, <1>17
  DEF Next, TaskNext, IsrNext, GiveNext, Give, IsrGive

LEMMA TypeInit == Init => TypeInv
<1> SUFFICES ASSUME Init PROVE TypeInv
  OBVIOUS
<1>1. HalfTick \in Nat \ {0}
  BY BoundAssumption
<1>2. TypeOK
  BY <1>1, TaskAssumption DEF Init, TypeOK, TickMod, PCs, Agents
<1> QED BY <1>2 DEF Init, TypeInv

\* Whatever the tasks call, every variable of the kernel stays in its type:
\* TCB pointers point at TCBs, lists are lists, g_ticks keeps to 32 bits.
THEOREM TypeCorrect == Spec => []TypeOK
<1>1. TypeInv /\ [Next]_vars => TypeInv'
  BY TypeStep
<1>2. TypeInv => TypeOK
  BY DEF TypeInv
<1> QED BY TypeInit, <1>1, <1>2, PTL DEF Spec
-----------------------------------------------------------------------------
(* Lists and states agree, while the uptime is short of the overflow of    *)
(* the tick count.                                                         *)

\* Making a task ready that is not in the ready list.
LEMMA MakeReadyLinks ==
  ASSUME TypeOK, IsInjective(ready), NEW t \in Tasks, t \notin Range(ready), MakeReady(t)
  PROVE  /\ IsInjective(ready')
         /\ \A x : x \in Range(ready') <=> x \in Range(ready) \/ x = t
         /\ \A x \in Tasks : state'[x] = IF x = t THEN READY ELSE state[x]
<1>1. \A x \in Tasks : state'[x] = IF x = t THEN READY ELSE state[x]
  BY DEF MakeReady, TypeOK
<1> QED BY <1>1, ReadyWith DEF MakeReady

\* A task that no list holds, and that is neither running nor dead, becomes
\* ready: creation, and a give.
LEMMA MakeReadyConsistent ==
  ASSUME TypeOK, Consistent, NEW t \in Tasks, ~Linked(t), state[t] \in {FREE, WAIT},
         MakeReady(t), UNCHANGED <<sleep, dead, current>>,
         \A x \in Tasks : timeout'[x] > 0 <=> timeout[x] > 0
  PROVE  Consistent'
<1>1. t \notin Range(ready) /\ t \notin Range(sleep) /\ t \notin dead
  BY DEF Linked
<1>2. /\ IsInjective(ready')
      /\ \A x : x \in Range(ready') <=> x \in Range(ready) \/ x = t
      /\ \A x \in Tasks : state'[x] = IF x = t THEN READY ELSE state[x]
  BY <1>1, MakeReadyLinks DEF Consistent
<1> QED BY <1>1, <1>2 DEF Consistent, READY, RUN, WAIT, DEAD, FREE

\* A switch of the processor keeps lists and states in agreement, unless it
\* links a task that is linked already; the new current task is T_RUN.
LEMMA DispatchConsistent ==
  ASSUME TypeOK, Consistent, ready # <<>>, ~(Requeues /\ Linked(current)), Dispatch,
         UNCHANGED <<sleep, dead, timeout>>
  PROVE  Consistent' /\ state'[current'] = RUN
<1> DEFINE high == Head(ready)
           queue == IF Requeues THEN InsertOrdered(ready, Prio, Prio[current], current)
                    ELSE ready
<1>1. ready \in Seq(Tasks) /\ current \in Tasks
  BY DEF TypeOK
<1>2. high \in Tasks /\ high \in Range(ready)
  BY <1>1, HeadLinked
<1>3. /\ ready' = Unlink(queue, high) /\ current' = high
      /\ \A t \in Tasks : state'[t] = IF t = high THEN RUN
                                      ELSE IF t = current /\ Requeues THEN READY
                                      ELSE state[t]
  BY DEF Dispatch
<1>4. /\ queue \in Seq(Tasks) /\ IsInjective(queue)
      /\ \A x : x \in Range(queue) <=> x \in Range(ready) \/ (Requeues /\ x = current)
  <2>1. CASE Requeues
    BY <1>1, <2>1, ReadyWith DEF Consistent, Linked
  <2>2. CASE ~Requeues
    BY <1>1, <2>2 DEF Consistent
  <2> QED BY <2>1, <2>2
<1> HIDE DEF queue, high
<1>5. /\ IsInjective(ready')
      /\ \A x : x \in Range(ready') <=>
                (x \in Range(ready) \/ (Requeues /\ x = current)) /\ x # high
  BY <1>2, <1>3, <1>4, UnlinkLinks
<1>6. Requeues => current \notin Range(ready)
  BY DEF Linked
<1>7. Requeues <=> state[current] \in {RUN, READY}
  BY DEF Requeues
<1>8. ASSUME NEW t \in Tasks
      PROVE  /\ t \in Range(ready') => state'[t] = READY
             /\ state'[t] = READY /\ t # current' => t \in Range(ready')
             /\ t \in Range(sleep) => state'[t] = WAIT
             /\ t \in dead <=> state'[t] = DEAD
             /\ state'[t] = RUN => t = current'
  BY <1>1, <1>2, <1>3, <1>5, <1>6, <1>7 DEF Consistent, READY, RUN, WAIT, DEAD
<1> QED BY <1>2, <1>3, <1>5, <1>8 DEF Consistent

\* The head of the sleep list becomes ready.
LEMMA WakeConsistent ==
  ASSUME TypeOK, Consistent, TickWake
  PROVE  Consistent'
<1> DEFINE t == Head(sleep)
<1>1. /\ sleep # <<>> /\ sleep' = Tail(sleep) /\ MakeReady(t)
      /\ timeout' = [timeout EXCEPT ![t] = 0]
      /\ UNCHANGED <<dead, current>>
  BY DEF TickWake
<1>2. t \in Tasks /\ t \in Range(sleep)
  BY <1>1, SleepTail
<1>3. /\ \A x : x \in Range(sleep') <=> x \in Range(sleep) /\ x # t
      /\ IsInjective(sleep')
  BY <1>1, TailInjective DEF Consistent, TypeOK
<1> HIDE DEF t
<1>4. state[t] = WAIT /\ t \notin Range(ready) /\ t \notin dead
  BY <1>2 DEF Consistent, READY, WAIT, DEAD
<1>5. /\ IsInjective(ready')
      /\ \A x : x \in Range(ready') <=> x \in Range(ready) \/ x = t
      /\ \A x \in Tasks : state'[x] = IF x = t THEN READY ELSE state[x]
  BY <1>1, <1>2, <1>4, MakeReadyLinks DEF Consistent
<1>6. \A x \in Tasks : timeout'[x] = IF x = t THEN 0 ELSE timeout[x]
  BY <1>1, <1>2, TimeoutCleared
<1>7. \A x \in Tasks : x \in Range(sleep') <=> timeout'[x] > 0
  BY <1>3, <1>6 DEF Consistent
<1> QED BY <1>1, <1>3, <1>4, <1>5, <1>7 DEF Consistent, READY, RUN, WAIT, DEAD

\* A deadline, while the uptime is short of the overflow: no wrap, no sign.
LEMMA DeadlineExact ==
  ASSUME UptimeBelowWrap, TypeOK, ticks <= MaxTicks,
         NEW n \in Delays \cup TakeTimeouts, n > 0
  PROVE  Deadline(n) = ticks + n /\ Deadline(n) > 0 /\ Deadline(n) \in Int
<1>1. /\ HalfTick \in Nat /\ MaxTicks \in Nat /\ n \in Int
      /\ MaxTicks + n < HalfTick /\ MaxTicks < HalfTick
  BY BoundAssumption, CallAssumption DEF UptimeBelowWrap
<1>2. ticks \in Nat
  BY <1>1 DEF TypeOK, TickMod
<1>3. ticks + n < HalfTick /\ ticks + n > 0 /\ ticks + n \in Int
  BY <1>1, <1>2
<1> QED BY <1>1, <1>3 DEF Deadline, Wrap, Signed, TickMod

\* The running task goes to sleep, with a deadline.
LEMMA SleepConsistent ==
  ASSUME TypeOK, Consistent, state[current] = RUN, NEW k \in Int, k > 0,
         sleep' = InsertOrdered(sleep, timeout, k, current),
         timeout' = [timeout EXCEPT ![current] = k],
         state' = [state EXCEPT ![current] = WAIT],
         UNCHANGED <<ready, dead, current>>
  PROVE  Consistent'
<1>1. current \in Tasks
  BY DEF TypeOK
<1>2. current \notin Range(ready) /\ current \notin Range(sleep) /\ current \notin dead
  BY <1>1 DEF Consistent, READY, RUN, WAIT, DEAD
<1>3. /\ \A x : x \in Range(sleep') <=> x \in Range(sleep) \/ x = current
      /\ IsInjective(sleep')
  BY <1>1, <1>2, SleepWith DEF Consistent
<1>4. \A x \in Tasks : /\ timeout'[x] = IF x = current THEN k ELSE timeout[x]
                       /\ state'[x] = IF x = current THEN WAIT ELSE state[x]
  BY DEF TypeOK
<1>5. \A x \in Tasks : x \in Range(sleep') <=> timeout'[x] > 0
  BY <1>3, <1>4 DEF Consistent
<1> QED BY <1>1, <1>2, <1>3, <1>4, <1>5 DEF Consistent, READY, RUN, WAIT, DEAD

\* The running task waits without a deadline.
LEMMA WaitConsistent ==
  ASSUME TypeOK, Consistent, state[current] = RUN,
         timeout' = [timeout EXCEPT ![current] = 0],
         state' = [state EXCEPT ![current] = WAIT],
         UNCHANGED <<ready, sleep, dead, current>>
  PROVE  Consistent'
<1>1. current \in Tasks
  BY DEF TypeOK
<1>2. current \notin Range(ready) /\ current \notin Range(sleep) /\ current \notin dead
  BY <1>1 DEF Consistent, READY, RUN, WAIT, DEAD
<1>3. /\ \A x \in Tasks : timeout'[x] = IF x = current THEN 0 ELSE timeout[x]
      /\ \A x \in Tasks : state'[x] = IF x = current THEN WAIT ELSE state[x]
  BY <1>1, TimeoutCleared DEF TypeOK
<1>4. \A x \in Tasks : x \in Range(sleep') <=> timeout'[x] > 0
  BY <1>2, <1>3 DEF Consistent
<1> QED BY <1>1, <1>2, <1>3, <1>4 DEF Consistent, READY, RUN, WAIT, DEAD

\* What a step of the current task leaves of CurrentRuns and GiveWakes.
LEMMA TaskStepGood ==
  ASSUME TypeOK, KernelGood, NEW t \in Tasks, Executes(t),
         NEW where \in PCs, where # "giveReady", pc' = [pc EXCEPT ![t] = where],
         UNCHANGED <<current, ticks, target>>,
         where \in {"selfSwitch", "takeSwitch"} \/ state'[t] = RUN,
         Consistent'
  PROVE  KernelGood'
<1>1. t = current /\ pc[Isr] = "off" /\ t # Isr
  BY ExecutesWho, TaskAssumption
<1>2. /\ pc'[Isr] = pc[Isr]
      /\ \A x \in Tasks : pc'[x] = IF x = t THEN where ELSE pc[x]
  BY <1>1 DEF TypeOK, Agents
<1>3. CurrentRuns'
  BY <1>1, <1>2 DEF CurrentRuns
<1>4. GiveWakes'
  BY <1>1, <1>2 DEF KernelGood, GiveWakes
<1> QED BY <1>3, <1>4 DEF KernelGood

\* Where a task calls from, it is T_RUN.
LEMMA CallerRuns ==
  ASSUME TypeOK, KernelGood, NEW t \in Tasks, Executes(t),
         pc[t] \notin {"selfSwitch", "takeSwitch"}
  PROVE  t = current /\ state[t] = RUN
BY ExecutesWho DEF KernelGood, CurrentRuns

LEMMA StartTaskGood ==
  ASSUME TypeOK, KernelGood, NEW c \in Tasks, NEW t \in Tasks, Executes(c),
         pc[c] \in {"run", "boot"}, StartTask(c, t)
  PROVE  KernelGood'
<1>1. /\ c = current /\ state[c] = RUN /\ state[t] = FREE /\ pc[Isr] = "off" /\ t # c
      /\ c # Isr /\ t # Isr
  BY CallerRuns, ExecutesWho, TaskAssumption DEF StartTask, RUN, FREE
<1>2. /\ MakeReady(t) /\ timeout' = [timeout EXCEPT ![t] = 0]
      /\ pc' = [pc EXCEPT ![c] = "switch", ![t] = "run"]
      /\ UNCHANGED <<sleep, dead, current, ticks, target>>
  BY DEF StartTask, localVars
<1>3. ~Linked(t)
  BY <1>1 DEF Linked, KernelGood, Consistent, READY, WAIT, DEAD, FREE
<1>4. \A x \in Tasks : timeout'[x] > 0 <=> timeout[x] > 0
  <2>1. ~(timeout[t] > 0)
    BY <1>3 DEF Linked, KernelGood, Consistent
  <2> QED BY <1>2, <2>1, TimeoutCleared
<1>5. Consistent'
  BY <1>1, <1>2, <1>3, <1>4, MakeReadyConsistent DEF KernelGood
<1>6. /\ pc'[Isr] = pc[Isr]
      /\ \A x \in Tasks : pc'[x] = IF x = t THEN "run" ELSE IF x = c THEN "switch" ELSE pc[x]
  BY <1>1, <1>2 DEF TypeOK, Agents
<1>7. \A x \in Tasks : state'[x] = IF x = t THEN READY ELSE state[x]
  BY <1>2 DEF MakeReady, TypeOK
<1>8. CurrentRuns'
  BY <1>1, <1>2, <1>7 DEF CurrentRuns
<1>9. GiveWakes'
  <2>1. target' = target /\ pc'[Isr] # "giveReady"
    BY <1>1, <1>2, <1>6
  <2>2. \A x \in Tasks : pc'[x] = "giveReady" => pc[x] = "giveReady"
    BY <1>6
  <2> QED BY <2>1, <2>2 DEF KernelGood, GiveWakes
<1> QED BY <1>2, <1>5, <1>8, <1>9 DEF KernelGood

LEMMA DelayGood ==
  ASSUME UptimeBelowWrap, TypeOK, KernelGood, NEW t \in Tasks, NEW n \in Delays, Delay(t, n)
  PROVE  KernelGood'
<1>1. /\ Executes(t) /\ pc[t] = "run"
      /\ pc' = [pc EXCEPT ![t] = "selfSwitch"]
      /\ state' = [state EXCEPT ![t] = WAIT]
      /\ timeout' = [timeout EXCEPT ![t] = Deadline(n)]
      /\ sleep' = InsertOrdered(sleep, timeout, Deadline(n), t)
      /\ UNCHANGED <<ready, dead, current, ticks, target>>
  BY DEF Delay, At, Goto, localVars
<1>2. t = current /\ state[t] = RUN
  BY <1>1, CallerRuns
<1>3. n > 0 /\ n \in Delays \cup TakeTimeouts
  BY CallAssumption
<1>4. Deadline(n) \in Int /\ Deadline(n) > 0
  BY <1>3, DeadlineExact DEF KernelGood
<1>5. Consistent'
  BY <1>1, <1>2, <1>4, SleepConsistent DEF KernelGood
<1> QED BY <1>1, <1>5, TaskStepGood DEF PCs

LEMMA TakeWaitGood ==
  ASSUME UptimeBelowWrap, TypeOK, KernelGood, NEW t \in Tasks, TakeWait(t)
  PROVE  KernelGood'
<1> DEFINE n == call[t].timeout
<1>1. /\ Executes(t) /\ pc[t] = "takeLock"
      /\ pc' = [pc EXCEPT ![t] = "takeSwitch"]
      /\ state' = [state EXCEPT ![t] = WAIT]
      /\ UNCHANGED <<ready, dead, current, ticks, target>>
      /\ \/ /\ n > 0
            /\ timeout' = [timeout EXCEPT ![t] = Deadline(n)]
            /\ sleep' = InsertOrdered(sleep, timeout, Deadline(n), t)
         \/ timeout' = [timeout EXCEPT ![t] = 0] /\ UNCHANGED sleep
  BY DEF TakeWait, At, Goto, localVars
<1>2. n \in TakeTimeouts \cup {0}
  BY DEF TypeOK
<1> HIDE DEF n
<1>3. t = current /\ state[t] = RUN
  BY <1>1, CallerRuns
<1>4. Consistent'
  <2>1. CASE /\ n > 0
             /\ timeout' = [timeout EXCEPT ![t] = Deadline(n)]
             /\ sleep' = InsertOrdered(sleep, timeout, Deadline(n), t)
    <3>1. n \in Delays \cup TakeTimeouts
      BY <1>2, <2>1
    <3>2. Deadline(n) \in Int /\ Deadline(n) > 0
      BY <2>1, <3>1, DeadlineExact DEF KernelGood
    <3> QED BY <1>1, <1>3, <2>1, <3>2, SleepConsistent DEF KernelGood
  <2>2. CASE timeout' = [timeout EXCEPT ![t] = 0] /\ UNCHANGED sleep
    BY <1>1, <1>3, <2>2, WaitConsistent DEF KernelGood
  <2> QED BY <1>1, <2>1, <2>2
<1> QED BY <1>1, <1>4, TaskStepGood DEF PCs

LEMMA YieldExitGood ==
  ASSUME TypeOK, KernelGood, NEW t \in Tasks, Yield(t) \/ Exit(t)
  PROVE  KernelGood'
<1>1. /\ Executes(t) /\ pc[t] = "run"
      /\ pc' = [pc EXCEPT ![t] = "selfSwitch"]
      /\ UNCHANGED <<ready, sleep, timeout, current, ticks, target>>
      /\ \/ state' = [state EXCEPT ![t] = READY] /\ UNCHANGED dead
         \/ state' = [state EXCEPT ![t] = DEAD] /\ dead' = dead \cup {t}
  BY DEF Yield, Exit, At, Goto, localVars, listVars
<1>2. t = current /\ state[t] = RUN
  BY <1>1, CallerRuns
<1>3. \A x \in Tasks : x # t => state'[x] = state[x]
  BY <1>1 DEF TypeOK
<1>4. \/ state'[t] = READY /\ UNCHANGED dead
      \/ state'[t] = DEAD /\ dead' = dead \cup {t}
  BY <1>1 DEF TypeOK
<1>5. Consistent'
  BY <1>1, <1>2, <1>3, <1>4 DEF KernelGood, Consistent, READY, RUN, WAIT, DEAD
<1> QED BY <1>1, <1>5, TaskStepGood DEF PCs

\* The steps of a take that touch neither lists nor states.
LEMMA TakeStepGood ==
  ASSUME TypeOK, KernelGood, NEW t \in Tasks,
         \/ \E s \in Sems, n \in TakeTimeouts : TakeCheck(t, s, n)
         \/ TakeFast(t) \/ TakeRecheck(t) \/ TakeReturn(t)
  PROVE  KernelGood'
<1>1. /\ Executes(t) /\ pc[t] \notin {"selfSwitch", "takeSwitch"}
      /\ UNCHANGED <<listVars, state, timeout, current, ticks, target>>
      /\ \E where \in {"takeFast", "takeLock", "run"} : pc' = [pc EXCEPT ![t] = where]
  <2>1. CASE \E s \in Sems, n \in TakeTimeouts : TakeCheck(t, s, n)
    <3>1. pc = [pc EXCEPT ![t] = pc[t]]
      BY DEF TypeOK
    <3> QED BY <2>1, <3>1 DEF TakeCheck, At, Goto
  <2>2. CASE TakeFast(t) \/ TakeRecheck(t) \/ TakeReturn(t)
    BY <2>2 DEF TakeFast, TakeRecheck, TakeReturn, TakeToken, At, Goto
  <2> QED BY <2>1, <2>2
<1>2. PICK where \in {"takeFast", "takeLock", "run"} : pc' = [pc EXCEPT ![t] = where]
  BY <1>1
<1>3. state'[t] = RUN /\ Consistent'
  BY <1>1, CallerRuns DEF KernelGood, Consistent, listVars
<1> QED BY <1>1, <1>2, <1>3, TaskStepGood DEF PCs

\* A give that finds a waiter unlinks it from the sleep list.
LEMMA GiveLockedGood ==
  ASSUME TypeInv, KernelGood, NEW x \in Agents, NEW s \in Sems, GiveLocked(x, s),
         x = Isr => pc[Isr] # "giveReady",
         x \in Tasks => Executes(x) /\ pc[x] = "run",
         fault' = "none"
  PROVE  KernelGood'
<1> DEFINE t == waiter[s]
<1>0. /\ x \in Tasks => x # Isr /\ x = current /\ state[x] = RUN
      /\ x \in Tasks \/ x = Isr
  BY CallerRuns, TaskAssumption DEF Agents, TypeInv
<1>1. CASE /\ t = None /\ Goto(x, Home(x))
           /\ UNCHANGED <<listVars, state, timeout, current, ticks, localVars>>
  <2>1. Consistent'
    BY <1>1 DEF KernelGood, Consistent, listVars
  <2>2. \A y \in Agents : pc'[y] = IF y = x THEN Home(x) ELSE pc[y]
    BY <1>1 DEF Goto, TypeInv, TypeOK
  <2>3. GiveWakes'
    BY <1>1, <2>2 DEF KernelGood, GiveWakes, Home, Agents, localVars
  <2>4. CurrentRuns'
    BY <1>0, <1>1, <2>2, TaskAssumption
    DEF KernelGood, CurrentRuns, Agents, TypeInv, TypeOK
  <2> QED BY <1>1, <2>1, <2>3, <2>4 DEF KernelGood
<1>2. CASE /\ t # None
           /\ target' = [target EXCEPT ![x] = t]
           /\ IF timeout[t] > 0
              THEN /\ sleep' = Unlink(sleep, t)
                   /\ timeout' = [timeout EXCEPT ![t] = 0]
              ELSE UNCHANGED <<sleep, timeout>>
           /\ Goto(x, "giveCheck")
           /\ UNCHANGED <<ready, dead, state, current, ticks>>
  <2>1. t \in Tasks
    BY <1>2 DEF TypeInv, TypeOK
  <2> HIDE DEF t
  <2>2. Consistent'
    <3>1. CASE timeout[t] > 0
      <4>1. t \in Range(sleep) /\ IsInjective(sleep) /\ sleep \in Seq(Tasks)
        BY <2>1, <3>1 DEF KernelGood, Consistent, TypeInv, TypeOK
      <4>2. /\ \A y : y \in Range(sleep') <=> y \in Range(sleep) /\ y # t
            /\ IsInjective(sleep')
        BY <1>2, <3>1, <4>1, UnlinkLinks
      <4>3. \A y \in Tasks : timeout'[y] = IF y = t THEN 0 ELSE timeout[y]
        BY <1>2, <2>1, <3>1, TimeoutCleared DEF TypeInv
      <4>4. \A y \in Tasks : y \in Range(sleep') <=> timeout'[y] > 0
        BY <4>2, <4>3 DEF KernelGood, Consistent
      <4> QED BY <1>2, <4>2, <4>4 DEF KernelGood, Consistent
    <3>2. CASE ~(timeout[t] > 0)
      BY <1>2, <3>2 DEF KernelGood, Consistent
    <3> QED BY <3>1, <3>2
  <2>3. /\ \A y \in Agents : pc'[y] = IF y = x THEN "giveCheck" ELSE pc[y]
        /\ \A y \in Agents : y # x => target'[y] = target[y]
    BY <1>2 DEF Goto, TypeInv, TypeOK
  <2>4. GiveWakes'
    BY <1>2, <2>3 DEF KernelGood, GiveWakes, Agents
  <2>5. CurrentRuns'
    BY <1>0, <1>2, <2>3, TaskAssumption
    DEF KernelGood, CurrentRuns, Agents, TypeInv, TypeOK
  <2> QED BY <1>2, <2>2, <2>4, <2>5 DEF KernelGood
<1>3. ~Break("freed")
  BY DEF Break
<1> QED BY <1>1, <1>2, <1>3 DEF GiveLocked

LEMMA GiveCheckGood ==
  ASSUME TypeInv, KernelGood, NEW x \in Agents, GiveCheck(x)
  PROVE  KernelGood'
<1>1. /\ Executes(x) /\ pc[x] = "giveCheck"
      /\ pc' = [pc EXCEPT ![x] = IF state[target[x]] = WAIT THEN "giveReady" ELSE Home(x)]
      /\ UNCHANGED <<listVars, state, timeout, current, ticks, target>>
  BY DEF GiveCheck, At, Goto, localVars
<1>2. \A y \in Agents :
        pc'[y] = IF y = x THEN IF state[target[x]] = WAIT THEN "giveReady" ELSE Home(x)
                 ELSE pc[y]
  BY <1>1 DEF TypeInv, TypeOK
<1>3. /\ x \in Tasks => x # Isr /\ x = current /\ state[x] = RUN
      /\ x \in Tasks \/ x = Isr
  BY <1>1, CallerRuns, TaskAssumption DEF Agents, TypeInv
<1>4. Consistent'
  BY <1>1 DEF KernelGood, Consistent, listVars
<1>5. CurrentRuns'
  BY <1>1, <1>2, <1>3, TaskAssumption
  DEF KernelGood, CurrentRuns, Agents, TypeInv, TypeOK
<1>6. GiveWakes'
  <2>1. x \in Tasks /\ pc'[x] = "giveReady" => target[x] # x
    BY <1>2, <1>3 DEF RUN, WAIT, Home
  <2> QED BY <1>1, <1>2, <1>3, <2>1 DEF KernelGood, GiveWakes, Home, Agents
<1> QED BY <1>1, <1>4, <1>5, <1>6 DEF KernelGood

LEMMA GiveReadyGood ==
  ASSUME TypeInv, KernelGood, NEW x \in Agents, GiveReady(x)
  PROVE  KernelGood'
<1> DEFINE t == target[x]
<1>1. /\ Executes(x) /\ pc[x] = "giveReady" /\ state[t] # FREE /\ ~Linked(t)
      /\ MakeReady(t)
      /\ pc' = [pc EXCEPT ![x] = "switch"]
      /\ UNCHANGED <<sleep, dead, timeout, current, ticks, target>>
  BY DEF GiveReady, At, Goto, localVars
<1>2. /\ t \in Tasks /\ current \in Tasks
      /\ x \in Tasks => x # Isr /\ x = current
      /\ x \in Tasks \/ x = Isr
  BY <1>1, ExecutesWho, TaskAssumption DEF TypeInv, TypeOK
<1>3. state[t] = WAIT
  <2>1. CASE x = Isr
    BY <1>1, <2>1 DEF KernelGood, GiveWakes
  <2>2. CASE x \in Tasks
    <3>1. t # current
      BY <1>1, <1>2, <2>2 DEF KernelGood, GiveWakes
    <3> HIDE DEF t
    <3>2. state[t] \in {READY, RUN, WAIT, DEAD, FREE}
      BY <1>2 DEF TypeInv, TypeOK
    <3> QED BY <1>1, <1>2, <3>1, <3>2 DEF KernelGood, Consistent, Linked
  <2> QED BY <1>2, <2>1, <2>2
<1> HIDE DEF t
<1>4. Consistent'
  BY <1>1, <1>2, <1>3, MakeReadyConsistent DEF KernelGood, TypeInv
<1>5. \A y \in Agents : pc'[y] = IF y = x THEN "switch" ELSE pc[y]
  BY <1>1 DEF TypeInv, TypeOK
<1>6. \A y \in Tasks : state'[y] = IF y = t THEN READY ELSE state[y]
  BY <1>1 DEF MakeReady, TypeInv, TypeOK
<1>7. CurrentRuns'
  <2>1. CASE x \in Tasks
    <3>1. state[current] = RUN
      BY <1>1, <1>2, <2>1 DEF KernelGood, CurrentRuns
    <3>2. t # current
      BY <1>3, <3>1 DEF RUN, WAIT
    <3> QED BY <1>1, <1>2, <1>6, <3>1, <3>2 DEF CurrentRuns
  <2>2. CASE x = Isr
    <3>1. pc'[current] = pc[current]
      BY <1>2, <1>5, <2>2, TaskAssumption DEF Agents
    <3>2. state[current] = RUN \/ pc[current] \in {"selfSwitch", "takeSwitch"}
      BY DEF KernelGood, CurrentRuns
    <3>3. t = current => pc[current] \in {"selfSwitch", "takeSwitch"}
      BY <1>3, <3>2 DEF RUN, WAIT
    <3> QED BY <1>1, <1>2, <1>6, <3>1, <3>2, <3>3 DEF CurrentRuns
  <2> QED BY <1>2, <2>1, <2>2
<1>8. GiveWakes'
  <2>1. pc'[Isr] # "giveReady"
    BY <1>1, <1>2, <1>5, TaskAssumption DEF Executes, Agents
  <2>2. \A y \in Tasks : pc'[y] = "giveReady" => pc[y] = "giveReady" /\ target'[y] = target[y]
    BY <1>1, <1>5 DEF Agents
  <2> QED BY <2>1, <2>2 DEF KernelGood, GiveWakes
<1> QED BY <1>1, <1>4, <1>7, <1>8 DEF KernelGood

LEMMA SwitchGood ==
  ASSUME TypeInv, KernelGood, NEW x, NEW where, NEW self, NEW next \in {"off", "run", "takeRet"},
         TaskSwitch(x, where, self, next),
         self \/ where = "switch"
  PROVE  KernelGood'
<1>1. /\ Executes(x) /\ pc[x] = where /\ ready # <<>>
      /\ pc' = [pc EXCEPT ![x] = next]
      /\ UNCHANGED <<sleep, dead, timeout, ticks, target>>
      /\ \/ ~self /\ UNCHANGED <<ready, state, current>>
         \/ Dispatch /\ ~(Requeues /\ Linked(current))
  BY DEF TaskSwitch, At, Goto, SwitchBreaks, StaysOnCpu, localVars
<1>2. /\ x \in Agents
      /\ x \in Tasks => x # Isr /\ x = current
      /\ x \in Tasks \/ x = Isr
  BY <1>1, ExecutesWho, TaskAssumption DEF TypeInv
<1>3. \A y \in Agents : pc'[y] = IF y = x THEN next ELSE pc[y]
  BY <1>1 DEF TypeInv, TypeOK
<1>4. GiveWakes'
  <2>1. pc'[Isr] # "giveReady"
    BY <1>1, <1>2, <1>3, TaskAssumption DEF Executes, Agents
  <2>2. \A y \in Tasks : pc'[y] = "giveReady" => pc[y] = "giveReady" /\ target'[y] = target[y]
    BY <1>1, <1>3 DEF Agents
  <2> QED BY <2>1, <2>2 DEF KernelGood, GiveWakes
<1>5. CASE Dispatch /\ ~(Requeues /\ Linked(current))
  <2>1. Consistent' /\ state'[current'] = RUN
    BY <1>1, <1>5, DispatchConsistent DEF TypeInv, KernelGood
  <2> QED BY <1>1, <1>4, <2>1 DEF KernelGood, CurrentRuns
<1>6. CASE ~self /\ UNCHANGED <<ready, state, current>>
  <2>1. Consistent'
    BY <1>1, <1>6 DEF KernelGood, Consistent
  <2>2. state'[current'] # RUN => pc'[current'] \in {"selfSwitch", "takeSwitch"}
    <3>1. CASE x \in Tasks
      BY <1>1, <1>2, <1>6, <3>1 DEF KernelGood, CurrentRuns
    <3>2. CASE x = Isr
      <4>1. pc'[current] = pc[current]
        BY <1>3, <3>2, TaskAssumption DEF TypeInv, TypeOK, Agents
      <4> QED BY <1>6, <4>1 DEF KernelGood, CurrentRuns
    <3> QED BY <1>2, <3>1, <3>2
  <2> QED BY <1>1, <1>4, <2>1, <2>2 DEF KernelGood, CurrentRuns
<1> QED BY <1>1, <1>5, <1>6

LEMMA TickGood ==
  ASSUME UptimeBelowWrap, TypeInv, KernelGood, TickStart \/ TickWake \/ TickDone
  PROVE  KernelGood'
<1>1. /\ Isr \notin Tasks /\ current \in Tasks /\ target' = target
      /\ pc[Isr] \in {"off", "tick", "tickWoke"}
      /\ \E where \in {"off", "tick", "tickWoke", "switch"} :
           pc' = [pc EXCEPT ![Isr] = where]
  BY TaskAssumption
  DEF TickStart, TickWake, TickDone, Goto, TypeInv, TypeOK, localVars
<1>2. /\ pc'[Isr] # "giveReady"
      /\ \A y \in Tasks : pc'[y] = pc[y]
  BY <1>1 DEF TypeInv, TypeOK, Agents
<1>3. GiveWakes'
  BY <1>1, <1>2 DEF KernelGood, GiveWakes
<1>4. CASE TickStart
  <2>1. ticks' <= MaxTicks
    <3>1. ticks < MaxTicks /\ ticks' = Wrap(ticks + 1)
      BY <1>4 DEF TickStart
    <3>2. /\ ticks \in 0..(2 * HalfTick - 1) /\ HalfTick \in Nat /\ MaxTicks \in Nat
          /\ MaxTicks < HalfTick
      BY BoundAssumption DEF UptimeBelowWrap, TypeInv, TypeOK, TickMod
    <3> QED BY <3>1, <3>2 DEF Wrap, TickMod
  <2>2. UNCHANGED <<listVars, state, timeout, current>>
    BY <1>4 DEF TickStart
  <2>3. Consistent' /\ CurrentRuns'
    BY <1>1, <1>2, <2>2 DEF KernelGood, Consistent, CurrentRuns, listVars
  <2> QED BY <1>3, <2>1, <2>3 DEF KernelGood
<1>5. CASE TickDone
  <2>1. UNCHANGED <<listVars, state, timeout, current, ticks>>
    BY <1>5 DEF TickDone
  <2>2. Consistent' /\ CurrentRuns'
    BY <1>1, <1>2, <2>1 DEF KernelGood, Consistent, CurrentRuns, listVars
  <2> QED BY <1>3, <2>1, <2>2 DEF KernelGood
<1>6. CASE TickWake
  <2>1. Consistent'
    BY <1>6, WakeConsistent DEF TypeInv, KernelGood
  <2>2. /\ sleep # <<>> /\ UNCHANGED <<current, ticks>>
        /\ state' = [state EXCEPT ![Head(sleep)] = READY]
    BY <1>6 DEF TickWake, MakeReady
  <2>3. Head(sleep) \in Tasks /\ state[Head(sleep)] = WAIT
    BY <2>2, SleepTail DEF TypeInv, KernelGood, Consistent
  <2>4. CurrentRuns'
    BY <1>1, <1>2, <2>2, <2>3
    DEF KernelGood, CurrentRuns, TypeInv, TypeOK, RUN, WAIT, READY
  <2> QED BY <1>3, <2>1, <2>2, <2>4 DEF KernelGood
<1> QED BY <1>4, <1>5, <1>6

LEMMA IdleReapGood ==
  ASSUME TypeInv, KernelGood, IdleReap
  PROVE  KernelGood'
<1>1. /\ Executes(Idle) /\ pc[Idle] = "run" /\ Idle \in Tasks
      /\ dead' = {}
      /\ UNCHANGED <<ready, sleep, timeout, current, ticks, pc, target>>
      /\ \A t \in Tasks : state'[t] = IF t \in dead THEN FREE ELSE state[t]
  BY TaskAssumption DEF IdleReap, At, localVars
<1>2. current = Idle /\ state[Idle] = RUN /\ pc[Isr] = "off"
  BY <1>1, CallerRuns, ExecutesWho DEF TypeInv
<1>3. Consistent'
  BY <1>1 DEF KernelGood, Consistent, READY, RUN, WAIT, DEAD, FREE
<1>4. CurrentRuns'
  BY <1>1, <1>2 DEF KernelGood, Consistent, CurrentRuns, RUN, DEAD
<1>5. GiveWakes'
  BY <1>1, <1>2 DEF KernelGood, GiveWakes
<1> QED BY <1>1, <1>3, <1>4, <1>5 DEF KernelGood

\* Every step keeps KernelInv.
LEMMA KernelStep ==
  ASSUME UptimeBelowWrap, TypeInv, KernelInv, [Next]_vars
  PROVE  KernelInv'
<1> SUFFICES ASSUME fault' = "none"
             PROVE  KernelGood'
  BY DEF KernelInv
<1>0. TypeOK
  BY DEF TypeInv
<1>1. CASE UNCHANGED vars
  <2>1. KernelGood
    BY <1>1 DEF KernelInv, vars
  <2>2. UNCHANGED <<ready, sleep, dead, state, timeout, current, ticks, pc, target>>
    BY <1>1 DEF vars
  <2>3. Consistent' /\ CurrentRuns' /\ GiveWakes'
    BY <2>1, <2>2 DEF KernelGood, Consistent, CurrentRuns, GiveWakes
  <2> QED BY <2>1, <2>2, <2>3 DEF KernelGood
<1>2. ASSUME NEW t \in Tasks, TaskNext(t)
      PROVE  KernelGood'
  <2>1. ASSUME NEW u \in Tasks, Create(t, u)
        PROVE  KernelGood'
    BY <1>0, <2>1, StartTaskGood DEF Create, At, Executes, KernelInv
  <2>2. ASSUME NEW n \in Delays, Delay(t, n)
        PROVE  KernelGood'
    <3>1. KernelGood
      BY <2>2 DEF Delay, At, Executes, KernelInv
    <3> QED BY <1>0, <2>2, <3>1, DelayGood
  <2>3. ASSUME Yield(t) \/ Exit(t)
        PROVE  KernelGood'
    <3>1. KernelGood
      BY <2>3 DEF Yield, Exit, At, Executes, KernelInv
    <3> QED BY <1>0, <2>3, <3>1, YieldExitGood
  <2>4. ASSUME \/ \E s \in Sems, n \in TakeTimeouts : TakeCheck(t, s, n)
               \/ TakeFast(t) \/ TakeRecheck(t) \/ TakeReturn(t)
        PROVE  KernelGood'
    <3>1. KernelGood
      BY <2>4
      DEF TakeCheck, TakeFast, TakeRecheck, TakeToken, TakeReturn, At, Executes, KernelInv
    <3> QED BY <1>0, <2>4, <3>1, TakeStepGood
  <2>5. ASSUME TakeWait(t)
        PROVE  KernelGood'
    <3>1. KernelGood
      BY <2>5 DEF TakeWait, At, Executes, KernelInv
    <3> QED BY <1>0, <2>5, <3>1, TakeWaitGood
  <2>6. ASSUME NEW s \in Sems, Give(t, s)
        PROVE  KernelGood'
    <3>1. /\ KernelGood /\ Executes(t) /\ pc[t] = "run" /\ GiveLocked(t, s)
          /\ t \in Agents /\ t # Isr
      BY <2>6, TaskAssumption DEF Give, At, Executes, KernelInv, Agents
    <3> QED BY <3>1, GiveLockedGood
  <2>7. ASSUME SelfSwitch(t) \/ TakeSwitch(t)
        PROVE  KernelGood'
    <3>1. KernelGood
      BY <2>7 DEF SelfSwitch, TakeSwitch, TaskSwitch, At, Executes, KernelInv
    <3> QED BY <2>7, <3>1, SwitchGood DEF SelfSwitch, TakeSwitch
  <2> QED BY <1>2, <2>1, <2>2, <2>3, <2>4, <2>5, <2>6, <2>7 DEF TaskNext
<1>3. ASSUME NEW x \in Agents, GiveNext(x) \/ Switch(x)
      PROVE  KernelGood'
  <2>1. CASE GiveCheck(x)
    <3>1. KernelGood
      BY <2>1 DEF GiveCheck, At, Executes, KernelInv
    <3> QED BY <2>1, <3>1, GiveCheckGood
  <2>2. CASE GiveReady(x)
    <3>1. KernelGood
      BY <2>2 DEF GiveReady, At, Executes, KernelInv
    <3> QED BY <2>2, <3>1, GiveReadyGood
  <2>3. CASE Switch(x)
    <3>1. KernelGood
      BY <2>3 DEF Switch, TaskSwitch, At, Executes, KernelInv
    <3> QED BY <2>3, <3>1, SwitchGood DEF Switch, Home
  <2>4. ~GiveReadyFails(x)
    BY DEF GiveReadyFails, Break
  <2> QED BY <1>3, <2>1, <2>2, <2>3, <2>4 DEF GiveNext
<1>4. CASE TickStart \/ TickWake \/ TickDone
  <2>1. KernelGood
    BY <1>4 DEF TickStart, TickWake, TickDone, Executes, KernelInv
  <2> QED BY <1>4, <2>1, TickGood
<1>5. ASSUME NEW s \in IsrSems, IsrGive(s)
      PROVE  KernelGood'
  <2>1. /\ KernelGood /\ s \in Sems /\ pc[Isr] = "off" /\ GiveLocked(Isr, s)
        /\ Isr \in Agents /\ Isr \notin Tasks
    BY <1>5, CallAssumption, TaskAssumption DEF IsrGive, KernelInv, Agents
  <2> QED BY <2>1, GiveLockedGood
<1>6. CASE IdleBoot
  <2>1. KernelGood /\ Executes(Idle) /\ pc[Idle] = "boot" /\ StartTask(Idle, User)
    BY <1>6 DEF IdleBoot, At, Executes, KernelInv
  <2> QED BY <1>0, <2>1, StartTaskGood, TaskAssumption
<1>7. CASE IdleReap
  <2>1. KernelGood
    BY <1>7 DEF IdleReap, At, Executes, KernelInv
  <2> QED BY <1>7, <2>1, IdleReapGood
<1>8. \A x \in Agents : ~SwitchFails(x)
  BY DEF SwitchFails, SwitchFault, Break
<1> QED BY <1>1, <1>2, <1>3, <1>4, <1>5, <1>6, <1>7, <1>8 DEF Next, IsrNext

LEMMA KernelInit == Init => KernelInv
<1> SUFFICES ASSUME Init PROVE KernelGood
  BY DEF KernelInv
<1>1. /\ ready = <<>> /\ sleep = <<>> /\ dead = {} /\ current = Idle
      /\ state = [t \in Tasks |-> IF t = Idle THEN RUN ELSE FREE]
      /\ timeout = [t \in Tasks |-> 0]
      /\ pc = [x \in Agents |-> IF x = Isr THEN "off"
                                ELSE IF x = Idle THEN "boot" ELSE "run"]
      /\ ticks = 0
  BY DEF Init
<1>2. Range(<<>>) = {} /\ IsInjective(<<>>)
  BY DEF Range, IsInjective
<1>3. Consistent
  BY <1>1, <1>2 DEF Consistent, READY, RUN, WAIT, DEAD, FREE
<1>4. CurrentRuns /\ GiveWakes
  BY <1>1, TaskAssumption DEF CurrentRuns, GiveWakes, Agents
<1>5. ticks <= MaxTicks
  BY <1>1, BoundAssumption
<1> QED BY <1>3, <1>4, <1>5 DEF KernelGood

\* Until the kernel breaks, every task is linked exactly where its state and
\* its timeout say, once, whatever interrupts arrive wherever they may: while
\* the uptime is short of the overflow of the tick count.
THEOREM ListsAlwaysAgree ==
  ASSUME UptimeBelowWrap
  PROVE  Spec => []ListsAgree
<1>1. TypeInv /\ KernelInv /\ [Next]_vars => TypeInv' /\ KernelInv'
  BY TypeStep, KernelStep
<1>2. KernelInv => ListsAgree
  BY DEF KernelInv, KernelGood, ListsAgree
<1>3. Init => TypeInv /\ KernelInv
  BY TypeInit, KernelInit
<1> QED BY <1>1, <1>2, <1>3, PTL DEF Spec
-----------------------------------------------------------------------------
(* The sleep list is in order, and nobody in it is overdue.                *)

\* A step outside the tick handler that leaves the sleepers alone.
LEMMA SleepersSame ==
  ASSUME TypeOK, SleepGood, pc[Isr] \notin {"tick", "tickWoke"},
         UNCHANGED <<sleep, ticks>>,
         \A x \in Range(sleep) : timeout'[x] = timeout[x]
  PROVE  SleepGood'
<1>1. Sorted(sleep, timeout')
  BY SortedSameKeys DEF TypeOK, SleepGood
<1> QED BY <1>1 DEF SleepGood

\* A task goes to sleep, outside the tick handler.
LEMMA SleepersOneMore ==
  ASSUME TypeOK, Consistent, SleepGood, pc[Isr] \notin {"tick", "tickWoke"},
         NEW t \in Tasks, t \notin Range(sleep), NEW k \in Int, k > ticks,
         sleep' = InsertOrdered(sleep, timeout, k, t),
         timeout' = [timeout EXCEPT ![t] = k], UNCHANGED ticks
  PROVE  SleepGood'
<1>1. /\ sleep \in Seq(Tasks) /\ timeout \in [Tasks -> Int]
      /\ timeout' \in [Tasks -> Int] /\ timeout'[t] = k
      /\ \A x \in Tasks : x # t => timeout'[x] = timeout[x]
  BY DEF TypeOK
<1>2. \A i \in 1..Len(sleep) : sleep[i] \in Tasks /\ sleep[i] \in Range(sleep)
  BY <1>1, RangeByPlace
<1>3. \A i \in 1..Len(sleep) : timeout'[sleep[i]] = timeout[sleep[i]]
  BY <1>1, <1>2
<1>4. Sorted(sleep, timeout)
  BY DEF SleepGood
<1>5. Sorted(InsertOrdered(sleep, timeout, k, t), timeout')
  <2>1. \A key2 \in [Tasks -> Int] :
           key2[t] = k /\ (\A i \in 1..Len(sleep) : key2[sleep[i]] = timeout[sleep[i]])
           => Sorted(InsertOrdered(sleep, timeout, k, t), key2)
    BY <1>1, <1>4, InsertOrderedSorted
  <2> QED BY <1>1, <1>3, <2>1
<1>6. \A x : x \in Range(sleep') <=> x \in Range(sleep) \/ x = t
  BY SleepWith
<1>7. \A x \in Range(sleep') : ticks < timeout'[x]
  <2>1. \A x \in Range(sleep) : x \in Tasks /\ ticks < timeout[x]
    BY <1>1, RangeByPlace DEF SleepGood
  <2>2. ticks \in Int
    BY BoundAssumption DEF TypeOK, TickMod
  <2> QED BY <1>1, <1>6, <2>1, <2>2
<1> QED BY <1>5, <1>7 DEF SleepGood

LEMMA TickSleep ==
  ASSUME UptimeBelowWrap, TypeInv, KernelGood, SleepGood, TickStart \/ TickWake \/ TickDone
  PROVE  SleepGood'
<1>0. /\ sleep \in Seq(Tasks) /\ pc \in [Agents -> PCs] /\ Isr \in Agents
      /\ \A x \in Range(sleep) : x \in Tasks /\ timeout[x] \in Int
  BY RangeByPlace DEF TypeInv, TypeOK, Agents
<1>1. CASE TickStart
  <2>1. pc'[Isr] = "tick" /\ UNCHANGED <<sleep, timeout>>
    BY <1>0, <1>1 DEF TickStart, Goto, listVars
  <2> QED BY <2>1 DEF SleepGood
<1>2. CASE TickWake
  <2>1. /\ sleep # <<>> /\ sleep' = Tail(sleep) /\ pc'[Isr] = "tickWoke"
        /\ timeout' = [timeout EXCEPT ![Head(sleep)] = 0]
    BY <1>0, <1>2 DEF TickWake, Goto
  <2>2. Sorted(sleep', timeout)
    BY <1>0, <2>1, TailSorted DEF SleepGood
  <2>3. /\ sleep' \in Seq(Tasks) /\ Head(sleep) \in Tasks
        /\ \A x \in Range(sleep') : x \in Range(sleep) /\ x # Head(sleep)
    BY <1>0, <2>1, SleepTail, TailInjective DEF TypeInv, KernelGood, Consistent
  <2>4. \A x \in Range(sleep') : timeout'[x] = timeout[x]
    BY <1>0, <2>1, <2>3, TimeoutCleared DEF TypeInv
  <2>5. Sorted(sleep', timeout')
    BY <2>2, <2>3, <2>4, SortedSameKeys
  <2> QED BY <2>1, <2>5 DEF SleepGood
<1>3. CASE TickDone
  <2>1. UNCHANGED <<sleep, timeout, ticks>> /\ (sleep # <<>> => ~Expired(Head(sleep)))
    BY <1>3 DEF TickDone, listVars
  <2>2. ASSUME NEW x \in Range(sleep)
        PROVE  ticks < timeout[x]
    <3>1. sleep # <<>>
      BY <2>2, EmptySeq DEF Range
    <3>2. /\ Head(sleep) \in Range(sleep) /\ timeout[Head(sleep)] <= timeout[x]
      BY <1>0, <2>2, <3>1, SleepTail, TailSorted DEF TypeInv, SleepGood
    <3>3. timeout[Head(sleep)] > 0 /\ timeout[Head(sleep)] \in Int /\ timeout[x] \in Int
      BY <1>0, <2>2, <3>2 DEF KernelGood, Consistent
    <3>4. ~(ticks >= timeout[Head(sleep)]) /\ ticks \in Int
      BY <2>1, <3>1, <3>3, BoundAssumption DEF Expired, Unsigned, TypeInv, TypeOK, TickMod
    <3> QED BY <3>2, <3>3, <3>4
  <2> QED BY <2>1, <2>2 DEF SleepGood
<1> QED BY <1>1, <1>2, <1>3

LEMMA GiveSleep ==
  ASSUME TypeInv, KernelGood, SleepGood, NEW x \in Agents, NEW s \in Sems, GiveLocked(x, s),
         pc[Isr] \notin {"tick", "tickWoke"}
  PROVE  SleepGood'
<1> DEFINE t == waiter[s]
<1>0. sleep \in Seq(Tasks) /\ ticks' = ticks
  BY DEF TypeInv, TypeOK, GiveLocked, Break
<1>1. CASE UNCHANGED <<sleep, timeout>>
  BY <1>0, <1>1, SleepersSame DEF TypeInv
<1>2. CASE /\ t # None /\ timeout[t] > 0
           /\ sleep' = Unlink(sleep, t)
           /\ timeout' = [timeout EXCEPT ![t] = 0]
  <2>1. t \in Tasks /\ t \in Range(sleep) /\ IsInjective(sleep)
    BY <1>2 DEF TypeInv, TypeOK, KernelGood, Consistent
  <2> HIDE DEF t
  <2>2. /\ sleep' \in Seq(Tasks)
        /\ \A y : y \in Range(sleep') <=> y \in Range(sleep) /\ y # t
    BY <1>0, <1>2, <2>1, UnlinkLinks
  <2>3. \A y \in Range(sleep') : y \in Range(sleep) /\ timeout'[y] = timeout[y]
    <3>1. \A y \in Range(sleep) : y \in Tasks
      BY <1>0, RangeByPlace
    <3>2. \A y \in Tasks : timeout'[y] = IF y = t THEN 0 ELSE timeout[y]
      BY <1>2, <2>1, TimeoutCleared DEF TypeInv
    <3> QED BY <2>2, <3>1, <3>2
  <2>4. Sorted(sleep', timeout)
    BY <1>0, <1>2, <2>1, UnlinkSorted DEF SleepGood
  <2>5. Sorted(sleep', timeout')
    BY <2>2, <2>3, <2>4, SortedSameKeys
  <2> QED BY <1>0, <2>3, <2>5 DEF SleepGood
<1> QED BY <1>1, <1>2 DEF GiveLocked, Break, listVars

\* Every step keeps the sleep list in order and nobody in it overdue.
LEMMA SleepStep ==
  ASSUME UptimeBelowWrap, TypeInv, KernelInv, SleepInv, [Next]_vars
  PROVE  SleepInv'
<1> SUFFICES ASSUME fault' = "none"
             PROVE  SleepGood'
  BY DEF SleepInv
<1>0. TypeOK /\ ticks \in Nat
  BY BoundAssumption DEF TypeInv, TypeOK, TickMod
<1>1. CASE UNCHANGED vars
  BY <1>1 DEF vars, SleepInv, SleepGood
<1>2. ASSUME NEW t \in Tasks, TaskNext(t)
      PROVE  SleepGood'
  <2>1. Executes(t)
    BY <1>2 DEF TaskNext, Create, Delay, Yield, Exit, TakeCheck, TakeFast, TakeRecheck,
                TakeToken, TakeWait, TakeReturn, Give, SelfSwitch, TakeSwitch, TaskSwitch, At
  <2>2. KernelGood /\ SleepGood /\ t = current /\ pc[Isr] = "off" /\ t \in Agents
    BY <1>0, <2>1, ExecutesWho DEF KernelInv, SleepInv
  <2>3. pc[t] \notin {"selfSwitch", "takeSwitch"} => t \notin Range(sleep)
    BY <1>0, <2>1, <2>2, CallerRuns DEF KernelGood, Consistent, RUN, WAIT
  <2>4. ASSUME NEW u \in Tasks, Create(t, u)
        PROVE  SleepGood'
    <3>1. /\ state[u] = FREE /\ UNCHANGED <<sleep, ticks>>
          /\ timeout' = [timeout EXCEPT ![u] = 0]
      BY <2>4 DEF Create, StartTask
    <3>2. u \notin Range(sleep)
      BY <2>2, <3>1 DEF KernelGood, Consistent, WAIT, FREE
    <3>3. \A x \in Range(sleep) : timeout'[x] = timeout[x]
      <4>1. \A x \in Range(sleep) : x \in Tasks
        BY <1>0, RangeByPlace DEF TypeOK
      <4> QED BY <1>0, <3>1, <3>2, <4>1, TimeoutCleared
    <3> QED BY <1>0, <2>2, <3>1, <3>3, SleepersSame
  <2>5. ASSUME NEW n \in Delays, Delay(t, n)
        PROVE  SleepGood'
    <3>1. /\ pc[t] = "run" /\ UNCHANGED ticks
          /\ timeout' = [timeout EXCEPT ![t] = Deadline(n)]
          /\ sleep' = InsertOrdered(sleep, timeout, Deadline(n), t)
      BY <2>5 DEF Delay, At
    <3>2. n \in Delays \cup TakeTimeouts /\ n > 0 /\ n \in Nat
      BY CallAssumption
    <3>3. Deadline(n) \in Int /\ Deadline(n) > ticks
      BY <1>0, <2>2, <3>2, DeadlineExact DEF KernelGood
    <3> QED BY <1>0, <2>2, <2>3, <3>1, <3>3, SleepersOneMore DEF KernelGood
  <2>6. ASSUME TakeWait(t)
        PROVE  SleepGood'
    <3> DEFINE n == call[t].timeout
    <3>1. /\ pc[t] = "takeLock" /\ UNCHANGED ticks
          /\ \/ /\ n > 0
                /\ timeout' = [timeout EXCEPT ![t] = Deadline(n)]
                /\ sleep' = InsertOrdered(sleep, timeout, Deadline(n), t)
             \/ timeout' = [timeout EXCEPT ![t] = 0] /\ UNCHANGED sleep
      BY <2>6 DEF TakeWait, At
    <3>2. n \in TakeTimeouts \cup {0}
      BY <1>0 DEF TypeOK
    <3> HIDE DEF n
    <3>3. CASE /\ n > 0
               /\ timeout' = [timeout EXCEPT ![t] = Deadline(n)]
               /\ sleep' = InsertOrdered(sleep, timeout, Deadline(n), t)
      <4>1. n \in Delays \cup TakeTimeouts /\ n \in Int
        BY <3>2, <3>3, CallAssumption
      <4>2. Deadline(n) \in Int /\ Deadline(n) > ticks
        BY <1>0, <2>2, <3>3, <4>1, DeadlineExact DEF KernelGood
      <4> QED BY <1>0, <2>2, <2>3, <3>1, <3>3, <4>2, SleepersOneMore DEF KernelGood
    <3>4. CASE timeout' = [timeout EXCEPT ![t] = 0] /\ UNCHANGED sleep
      <4>1. \A x \in Range(sleep) : x \in Tasks
        BY <1>0, RangeByPlace DEF TypeOK
      <4>2. \A x \in Range(sleep) : timeout'[x] = timeout[x]
        BY <1>0, <2>3, <3>1, <3>4, <4>1, TimeoutCleared
      <4> QED BY <1>0, <2>2, <3>1, <3>4, <4>2, SleepersSame
    <3> QED BY <3>1, <3>3, <3>4
  <2>7. ASSUME NEW s \in Sems, Give(t, s)
        PROVE  SleepGood'
    BY <2>2, <2>7, GiveSleep DEF Give
  <2>8. ASSUME \/ Yield(t) \/ Exit(t)
               \/ \E s \in Sems, n \in TakeTimeouts : TakeCheck(t, s, n)
               \/ TakeFast(t) \/ TakeRecheck(t) \/ TakeReturn(t)
               \/ SelfSwitch(t) \/ TakeSwitch(t)
        PROVE  SleepGood'
    <3>1. UNCHANGED <<sleep, timeout, ticks>>
      BY <2>8 DEF Yield, Exit, TakeCheck, TakeFast, TakeRecheck, TakeToken, TakeReturn,
                  SelfSwitch, TakeSwitch, TaskSwitch, listVars
    <3> QED BY <1>0, <2>2, <3>1, SleepersSame
  <2> QED BY <1>2, <2>4, <2>5, <2>6, <2>7, <2>8 DEF TaskNext
<1>3. ASSUME NEW x \in Agents, GiveNext(x) \/ Switch(x)
      PROVE  SleepGood'
  <2>1. ~GiveReadyFails(x)
    BY DEF GiveReadyFails, Break
  <2>2. /\ Executes(x) /\ pc[x] \in {"giveCheck", "giveReady", "switch"}
        /\ UNCHANGED <<sleep, timeout, ticks>>
    BY <1>3, <2>1 DEF GiveNext, GiveCheck, GiveReady, Switch, TaskSwitch, At, listVars
  <2>3. pc[Isr] \notin {"tick", "tickWoke"} /\ SleepGood
    BY <1>0, <2>2, ExecutesWho DEF SleepInv
  <2> QED BY <1>0, <2>2, <2>3, SleepersSame
<1>4. CASE TickStart \/ TickWake \/ TickDone
  <2>1. KernelGood /\ SleepGood
    BY <1>4 DEF TickStart, TickWake, TickDone, Executes, KernelInv, SleepInv
  <2> QED BY <1>4, <2>1, TickSleep
<1>5. ASSUME NEW s \in IsrSems, IsrGive(s)
      PROVE  SleepGood'
  <2>1. /\ KernelGood /\ SleepGood /\ s \in Sems /\ pc[Isr] = "off" /\ GiveLocked(Isr, s)
        /\ Isr \in Agents
    BY <1>5, CallAssumption DEF IsrGive, KernelInv, SleepInv, Agents
  <2> QED BY <2>1, GiveSleep
<1>6. CASE IdleBoot
  <2>1. /\ KernelGood /\ SleepGood /\ Executes(Idle) /\ StartTask(Idle, User)
        /\ User \in Tasks /\ Idle \in Tasks
    BY <1>6, TaskAssumption DEF IdleBoot, At, Executes, KernelInv, SleepInv
  <2>2. /\ state[User] = FREE /\ UNCHANGED <<sleep, ticks>>
        /\ timeout' = [timeout EXCEPT ![User] = 0] /\ pc[Isr] = "off"
    BY <1>0, <2>1, ExecutesWho DEF StartTask
  <2>3. User \notin Range(sleep)
    BY <2>1, <2>2 DEF KernelGood, Consistent, WAIT, FREE
  <2>4. \A x \in Range(sleep) : timeout'[x] = timeout[x]
    <3>1. \A x \in Range(sleep) : x \in Tasks
      BY <1>0, RangeByPlace DEF TypeOK
    <3> QED BY <1>0, <2>1, <2>2, <2>3, <3>1, TimeoutCleared
  <2> QED BY <1>0, <2>1, <2>2, <2>4, SleepersSame
<1>7. CASE IdleReap
  <2>1. /\ SleepGood /\ Executes(Idle) /\ Idle \in Tasks
        /\ UNCHANGED <<sleep, timeout, ticks>>
    BY <1>7, TaskAssumption DEF IdleReap, At, Executes, SleepInv
  <2> QED BY <1>0, <2>1, ExecutesWho, SleepersSame
<1>8. \A x \in Agents : ~SwitchFails(x)
  BY DEF SwitchFails, SwitchFault, Break
<1> QED BY <1>1, <1>2, <1>3, <1>4, <1>5, <1>6, <1>7, <1>8 DEF Next, IsrNext

\* The tick handler, which looks at the head of the sleep list only, leaves no
\* sleeper overdue: while the uptime is short of the overflow of the tick count.
THEOREM SleepersAlwaysOnTime ==
  ASSUME UptimeBelowWrap
  PROVE  Spec => []SleepersOnTime
<1>1. TypeInv /\ KernelInv /\ SleepInv /\ [Next]_vars
      => TypeInv' /\ KernelInv' /\ SleepInv'
  BY TypeStep, KernelStep, SleepStep
<1>2. SleepInv => SleepersOnTime
  BY DEF SleepInv, SleepGood, SleepersOnTime
<1>3. Init => SleepInv
  <2>1. Sorted(<<>>, timeout) /\ Range(<<>>) = {}
    BY DEF Sorted, Range
  <2> QED BY <2>1 DEF Init, SleepInv, SleepGood
<1> QED BY TypeInit, KernelInit, <1>1, <1>2, <1>3, PTL DEF Spec
-----------------------------------------------------------------------------
(* A registered waiter never sleeps on a token.                            *)

WakeupInv == TakeInv /\ NoLostWakeup

\* A step that leaves the semaphores and the arguments of the takes alone, and
\* puts no task into a take that was in none.
LEMMA WakeupSame ==
  ASSUME WakeupInv, UNCHANGED <<semVars, call>>,
         \A t \in Tasks : /\ InTake(t)' => InTake(t)
                          /\ pc'[t] \in {"takeSwitch", "takeRet"} =>
                               pc[t] \in {"takeSwitch", "takeRet"}
  PROVE  WakeupInv'
<1>1. TakeInv'
  BY DEF WakeupInv, TakeInv
<1>2. NoLostWakeup'
  BY DEF WakeupInv, NoLostWakeup, Parked, semVars
<1> QED BY <1>1, <1>2 DEF WakeupInv

LEMMA WakeupStep ==
  ASSUME OneTaker, TypeInv, WakeupInv, [Next]_vars
  PROVE  WakeupInv'
<1>0. /\ pc \in [Agents -> PCs] /\ Tasks \subseteq Agents /\ Isr \notin Tasks
      /\ Isr \in Agents /\ IsrSems \subseteq Sems /\ None \notin Tasks
      /\ waiter \in [Sems -> Tasks \cup {None}] /\ value \in [Sems -> Int]
      /\ \A t \in Tasks : call[t].sem \in Sems \cup {None}
  BY TaskAssumption, CallAssumption DEF TypeInv, TypeOK, Agents
<1>1. CASE UNCHANGED vars
  BY <1>1, WakeupSame DEF vars, semVars, InTake
<1>2. ASSUME NEW c \in Tasks, NEW t \in Tasks, StartTask(c, t)
      PROVE  WakeupInv'
  <2>1. /\ UNCHANGED <<semVars, call>>
        /\ \A x \in Tasks : pc'[x] \in {pc[x], "run", "switch"}
    BY <1>0, <1>2 DEF StartTask, localVars
  <2> QED BY <2>1, WakeupSame DEF InTake
<1>3. ASSUME NEW x \in Agents,
             \/ \E n \in Delays : Delay(x, n)
             \/ Yield(x) \/ Exit(x) \/ TakeReturn(x)
             \/ GiveNext(x) \/ Switch(x) \/ SelfSwitch(x) \/ TakeSwitch(x) \/ SwitchFails(x)
      PROVE  WakeupInv'
  <2>1. UNCHANGED <<semVars, call>>
    BY <1>3 DEF Delay, Yield, Exit, TakeReturn, GiveNext, GiveCheck, GiveReady,
                GiveReadyFails, Switch, SelfSwitch, TakeSwitch, TaskSwitch, SwitchFails,
                SwitchFault, Break, localVars, semVars
  <2>2. \/ \E where \in {"off", "run", "selfSwitch", "giveReady", "switch"} :
             pc' = [pc EXCEPT ![x] = where]
        \/ pc[x] = "takeSwitch" /\ pc' = [pc EXCEPT ![x] = "takeRet"]
        \/ pc' = pc
    BY <1>3 DEF Delay, Yield, Exit, TakeReturn, GiveNext, GiveCheck, GiveReady,
                GiveReadyFails, Switch, SelfSwitch, TakeSwitch, TaskSwitch, SwitchFails,
                SwitchFault, Break, At, Goto, Home
  <2>3. \A t \in Tasks : \/ pc'[t] \in {pc[t], "off", "run", "selfSwitch", "giveReady", "switch"}
                         \/ pc[t] = "takeSwitch" /\ pc'[t] = "takeRet"
    BY <1>0, <2>2
  <2> QED BY <2>1, <2>3, WakeupSame DEF InTake
<1>4. ASSUME NEW t \in Tasks, NEW s \in Sems, NEW n \in TakeTimeouts, TakeCheck(t, s, n)
      PROVE  WakeupInv'
  <2>1. /\ pc[t] = "run" /\ t \in Takers[s] /\ UNCHANGED semVars
        /\ call' = [call EXCEPT ![t] = [sem |-> s, timeout |-> n]]
        /\ \/ pc' = [pc EXCEPT ![t] = "takeFast"] \/ pc' = [pc EXCEPT ![t] = "takeLock"]
           \/ pc' = pc
    BY <1>4 DEF TakeCheck, At, Goto
  <2>2. /\ call'[t].sem = s /\ pc'[t] \in {"run", "takeFast", "takeLock"}
        /\ \A u \in Tasks : u # t => call'[u] = call[u] /\ pc'[u] = pc[u]
    BY <1>0, <2>1 DEF TypeInv, TypeOK
  <2>3. TakeInv'
    BY <2>1, <2>2 DEF WakeupInv, TakeInv, InTake
  <2>4. NoLostWakeup'
    BY <2>1, <2>2 DEF WakeupInv, NoLostWakeup, Parked, semVars
  <2> QED BY <2>3, <2>4 DEF WakeupInv
<1>5. ASSUME NEW t \in Tasks, TakeFast(t) \/ TakeRecheck(t)
      PROVE  WakeupInv'
  <2> DEFINE s == call[t].sem
  <2>1. /\ pc[t] \in {"takeFast", "takeLock"} /\ UNCHANGED <<waiter, call>>
        /\ value' = [value EXCEPT ![s] = @ - 1]
        /\ pc' = [pc EXCEPT ![t] = "run"]
    BY <1>5 DEF TakeFast, TakeRecheck, TakeToken, At, Goto
  <2>2. s \in Sems /\ t \in Takers[s]
    BY <2>1 DEF WakeupInv, TakeInv, InTake
  <2>3. /\ pc'[t] = "run" /\ \A u \in Tasks : u # t => pc'[u] = pc[u]
        /\ \A r \in Sems : r # s => value'[r] = value[r]
    BY <1>0, <2>1
  <2>4. TakeInv'
    BY <2>1, <2>3 DEF WakeupInv, TakeInv, InTake
  <2>5. ASSUME NEW u \in Tasks, pc'[u] \in {"takeSwitch", "takeRet"}, call'[u].sem = s
        PROVE  FALSE
    \* another taker of s
    <3>1. u # t /\ InTake(u) /\ call[u].sem = s
      BY <2>1, <2>3, <2>5 DEF InTake
    <3>2. u \in Takers[s]
      BY <3>1 DEF WakeupInv, TakeInv
    <3> QED BY <2>2, <3>1, <3>2 DEF OneTaker
  <2> HIDE DEF s
  <2>6. NoLostWakeup'
    <3> SUFFICES ASSUME NEW r \in Sems, NEW u \in Tasks,
                        pc'[u] \in {"takeSwitch", "takeRet"}, call'[u].sem = r,
                        waiter'[r] = u
                 PROVE  value'[r] = 0
      BY DEF NoLostWakeup, Parked
    <3>1. r # s /\ u # t
      BY <2>3, <2>5
    <3> QED BY <2>1, <2>3, <3>1 DEF WakeupInv, NoLostWakeup, Parked
  <2> QED BY <2>4, <2>6 DEF WakeupInv
<1>6. ASSUME NEW t \in Tasks, TakeWait(t)
      PROVE  WakeupInv'
  <2> DEFINE s == call[t].sem
  <2>1. /\ pc[t] = "takeLock" /\ value[s] = 0 /\ UNCHANGED <<value, call>>
        /\ waiter' = [waiter EXCEPT ![s] = t]
        /\ pc' = [pc EXCEPT ![t] = "takeSwitch"]
    BY <1>6 DEF TakeWait, TokenSeen, At, Goto, localVars
  <2>2. /\ pc'[t] = "takeSwitch" /\ \A u \in Tasks : u # t => pc'[u] = pc[u]
        /\ \A r \in Sems : r # s => waiter'[r] = waiter[r]
    BY <1>0, <2>1
  <2>3. TakeInv'
    BY <2>1, <2>2 DEF WakeupInv, TakeInv, InTake
  <2>4. NoLostWakeup'
    BY <2>1, <2>2 DEF WakeupInv, NoLostWakeup, Parked
  <2> QED BY <2>3, <2>4 DEF WakeupInv
<1>7. ASSUME NEW x \in Agents, NEW s \in Sems, GiveLocked(x, s)
      PROVE  WakeupInv'
  <2>1. /\ UNCHANGED call
        /\ \/ /\ waiter[s] = None /\ UNCHANGED waiter
              /\ \A r \in Sems : r # s => value'[r] = value[r]
           \/ waiter' = [waiter EXCEPT ![s] = None] /\ UNCHANGED value
           \/ UNCHANGED <<value, waiter>>
        /\ \/ pc' = [pc EXCEPT ![x] = Home(x)] \/ pc' = [pc EXCEPT ![x] = "giveCheck"]
           \/ pc' = pc
    BY <1>0, <1>7 DEF GiveLocked, Break, Goto, localVars
  <2>2. \A t \in Tasks : pc'[t] \in {pc[t], "off", "run", "giveCheck"}
    BY <1>0, <2>1 DEF Home
  <2>3. TakeInv'
    BY <2>1, <2>2 DEF WakeupInv, TakeInv, InTake
  <2>4. NoLostWakeup'
    BY <1>0, <2>1, <2>2 DEF WakeupInv, NoLostWakeup, Parked
  <2> QED BY <2>3, <2>4 DEF WakeupInv
<1>8. CASE TickStart \/ TickWake \/ TickDone \/ IdleReap
  <2>1. /\ UNCHANGED <<semVars, call>>
        /\ \A t \in Tasks : pc'[t] = pc[t]
    BY <1>0, <1>8 DEF TickStart, TickWake, TickDone, IdleReap, Goto, localVars
  <2> QED BY <2>1, WakeupSame DEF InTake
<1> QED
  BY <1>0, <1>1, <1>2, <1>3, <1>4, <1>5, <1>6, <1>7, <1>8, TaskAssumption
  DEF Next, TaskNext, IsrNext, Create, Give, IsrGive, IdleBoot

\* The give that falls between the two looks of xos_sem_take at sem->value is
\* never lost, whatever is preempted where, when one task takes the semaphore:
\* a task that sleeps in sem->tcb has no token waiting for it.
THEOREM WakeupNeverLost ==
  ASSUME OneTaker
  PROVE  Spec => []NoLostWakeup
<1>1. TypeInv /\ WakeupInv /\ [Next]_vars => TypeInv' /\ WakeupInv'
  BY TypeStep, WakeupStep
<1>2. Init => WakeupInv
  BY TaskAssumption
  DEF Init, WakeupInv, TakeInv, NoLostWakeup, Parked, InTake, Agents
<1>3. WakeupInv => NoLostWakeup
  BY DEF WakeupInv
<1> QED BY TypeInit, <1>1, <1>2, <1>3, PTL DEF Spec
-----------------------------------------------------------------------------
(* The ready list is in the order of the priorities.                       *)

LEMMA ReadyWithSorted ==
  ASSUME TypeOK, Sorted(ready, Prio), NEW t \in Tasks
  PROVE  Sorted(InsertOrdered(ready, Prio, Prio[t], t), Prio)
<1>1. ready \in Seq(Tasks) /\ Prio \in [Tasks -> Int] /\ Prio[t] \in Int
  BY PrioIsKey DEF TypeOK
<1>2. \A k \in Int : Prio[t] = k => Sorted(InsertOrdered(ready, Prio, k, t), Prio)
  BY <1>1, InsertOrderedSorted
<1> QED BY <1>1, <1>2

\* After a switch nobody in the ready list is more urgent than the new current
\* task, when the old one was not more urgent than the head.
LEMMA DispatchSorted ==
  ASSUME TypeOK, Sorted(ready, Prio), ready # <<>>, Dispatch
  PROVE  /\ Sorted(ready', Prio)
         /\ Prio[Head(ready)] <= Prio[current] =>
              \A t \in Range(ready') : Prio[current'] <= Prio[t]
         /\ \A t \in Tasks : state'[t] \in {state[t], RUN, READY}
<1> DEFINE high == Head(ready)
           queue == IF Requeues THEN InsertOrdered(ready, Prio, Prio[current], current)
                    ELSE ready
<1>1. ready \in Seq(Tasks) /\ current \in Tasks
  BY DEF TypeOK
<1>2. /\ high \in Tasks /\ high \in Range(ready)
      /\ \A t \in Range(ready) : Prio[high] <= Prio[t]
  BY <1>1, HeadLinked, TailSorted
<1>3. /\ queue \in Seq(Tasks) /\ Sorted(queue, Prio) /\ high \in Range(queue)
      /\ \A x : x \in Range(queue) => x \in Range(ready) \/ x = current
  BY <1>1, <1>2, ReadyWith, ReadyWithSorted
<1>4. /\ ready' = Unlink(queue, high) /\ current' = high
      /\ \A t \in Tasks : state'[t] = IF t = high THEN RUN
                                      ELSE IF t = current /\ Requeues THEN READY
                                      ELSE state[t]
  BY DEF Dispatch
<1> HIDE DEF queue, high
<1>5. Sorted(ready', Prio)
  BY <1>3, <1>4, UnlinkSorted
<1>6. \A x \in Range(ready') : x \in Range(queue)
  BY <1>3, <1>4, UnlinkFrom
<1> QED BY <1>2, <1>3, <1>4, <1>5, <1>6 DEF high

\* Every step keeps the ready list in order.
LEMMA ReadyStep ==
  ASSUME UptimeBelowWrap, TypeInv, KernelInv, ReadyInv, [Next]_vars
  PROVE  ReadyInv'
<1> SUFFICES ASSUME fault' = "none"
             PROVE  ReadyGood'
  BY DEF ReadyInv
<1>0. /\ TypeOK /\ pc \in [Agents -> PCs] /\ Tasks \subseteq Agents /\ Isr \notin Tasks
      /\ Isr \in Agents /\ IsrSems \subseteq Sems
      /\ state \in [Tasks -> {READY, RUN, WAIT, DEAD, FREE}]
  BY TaskAssumption, CallAssumption DEF TypeInv, TypeOK, Agents
<1>1. CASE UNCHANGED vars
  BY <1>1 DEF vars, ReadyInv, ReadyGood
<1>2. ASSUME NEW c \in Tasks, NEW t \in Tasks, Executes(c), pc[c] \in {"run", "boot"},
             StartTask(c, t)
      PROVE  ReadyGood'
  <2>1. /\ KernelGood /\ ReadyGood /\ c = current /\ state[c] = RUN
    BY <1>0, <1>2, CallerRuns DEF Executes, KernelInv, ReadyInv
  <2>2. /\ ready' = InsertOrdered(ready, Prio, Prio[t], t)
        /\ \A x \in Tasks : state'[x] = IF x = t THEN READY ELSE state[x]
        /\ \A x \in Tasks : pc'[x] = IF x = t THEN "run" ELSE IF x = c THEN "switch" ELSE pc[x]
    BY <1>0, <1>2 DEF StartTask, MakeReady
  <2>3. Sorted(ready', Prio)
    BY <1>0, <2>1, <2>2, ReadyWithSorted DEF ReadyGood
  <2> QED BY <2>1, <2>2, <2>3 DEF ReadyGood, READY, RUN, DEAD, FREE
<1>3. ASSUME NEW t \in Tasks,
             \/ \E n \in Delays : Delay(t, n)
             \/ Yield(t) \/ Exit(t)
             \/ \E s \in Sems, n \in TakeTimeouts : TakeCheck(t, s, n)
             \/ TakeFast(t) \/ TakeRecheck(t) \/ TakeWait(t) \/ TakeReturn(t)
             \/ \E s \in Sems : Give(t, s)
             \/ GiveCheck(t)
      PROVE  ReadyGood'
  <2>1. /\ Executes(t) /\ pc[t] \notin {"selfSwitch", "takeSwitch"}
        /\ UNCHANGED ready
        /\ state' = state \/ \E to \in {READY, WAIT, DEAD} : state' = [state EXCEPT ![t] = to]
        /\ pc' = pc \/ \E where \in PCs : pc' = [pc EXCEPT ![t] = where]
        /\ state'[t] = DEAD => pc'[t] = "selfSwitch" \/ UNCHANGED <<state, pc>>
                               \/ state[t] = DEAD
    <3>1. CASE \E n \in Delays : Delay(t, n)
      BY <1>0, <3>1 DEF Delay, At, Goto, PCs, WAIT, DEAD
    <3>2. CASE Yield(t) \/ Exit(t)
      BY <1>0, <3>2 DEF Yield, Exit, At, Goto, PCs, listVars, READY, DEAD
    <3>3. CASE \/ \E s \in Sems, n \in TakeTimeouts : TakeCheck(t, s, n)
               \/ TakeFast(t) \/ TakeRecheck(t) \/ TakeReturn(t)
      <4>1. UNCHANGED <<ready, state>> /\ At(t, pc[t])
            /\ pc[t] \notin {"selfSwitch", "takeSwitch"}
        BY <3>3 DEF TakeCheck, TakeFast, TakeRecheck, TakeToken, TakeReturn, At, listVars
      <4>2. pc' = pc \/ \E where \in PCs : pc' = [pc EXCEPT ![t] = where]
        BY <3>3 DEF TakeCheck, TakeFast, TakeRecheck, TakeToken, TakeReturn, Goto, PCs
      <4> QED BY <4>1, <4>2 DEF At
    <3>4. CASE TakeWait(t)
      BY <1>0, <3>4 DEF TakeWait, At, Goto, PCs, WAIT, DEAD
    <3>5. CASE (\E s \in Sems : Give(t, s)) \/ GiveCheck(t)
      <4>1. UNCHANGED <<ready, state>> /\ At(t, pc[t])
            /\ pc[t] \notin {"selfSwitch", "takeSwitch"}
        BY <3>5 DEF Give, GiveLocked, GiveCheck, Break, At, listVars
      <4>2. pc' = pc \/ \E where \in PCs : pc' = [pc EXCEPT ![t] = where]
        BY <3>5 DEF Give, GiveLocked, GiveCheck, Break, Goto, Home, PCs
      <4> QED BY <4>1, <4>2 DEF At
    <3> QED BY <1>3, <3>1, <3>2, <3>3, <3>4, <3>5
  <2>2. ReadyGood /\ state[t] = RUN
    BY <1>0, <2>1, CallerRuns DEF Executes, KernelInv, ReadyInv
  <2>3. /\ \A x \in Tasks : x # t => state'[x] = state[x] /\ pc'[x] = pc[x]
        /\ state'[t] \in {RUN, READY, WAIT, DEAD}
    BY <1>0, <2>1, <2>2
  <2>4. \A x \in Tasks : state'[x] \in {DEAD, FREE} => pc'[x] \in {"run", "selfSwitch"}
    <3>1. state'[t] = DEAD => pc'[t] = "selfSwitch"
      BY <2>1, <2>2 DEF RUN, DEAD
    <3> QED BY <2>2, <2>3, <3>1 DEF ReadyGood, READY, RUN, WAIT, DEAD, FREE
  <2> QED BY <2>1, <2>2, <2>4 DEF ReadyGood
<1>4. ASSUME NEW s \in IsrSems, IsrGive(s)
      PROVE  ReadyGood'
  <2>1. /\ ReadyGood /\ UNCHANGED <<ready, state>>
        /\ pc' = pc \/ \E where \in PCs : pc' = [pc EXCEPT ![Isr] = where]
    BY <1>4 DEF IsrGive, GiveLocked, Break, Goto, Home, PCs, listVars, ReadyInv
  <2> QED BY <1>0, <2>1 DEF ReadyGood
<1>5. ASSUME GiveCheck(Isr) \/ TickStart \/ TickDone
      PROVE  ReadyGood'
  <2>1. /\ ReadyGood /\ UNCHANGED <<ready, state>>
        /\ \E where \in PCs : pc' = [pc EXCEPT ![Isr] = where]
    BY <1>5 DEF GiveCheck, TickStart, TickDone, At, Executes, Goto, Home, PCs, listVars,
                ReadyInv
  <2> QED BY <1>0, <2>1 DEF ReadyGood
<1>6. ASSUME NEW x \in Agents, NEW t \in Tasks, fault = "none", MakeReady(t),
             NEW where \in {"switch", "tickWoke"}, pc' = [pc EXCEPT ![x] = where],
             x \in Tasks => state[x] = RUN
      PROVE  ReadyGood'
  <2>1. ReadyGood
    BY <1>6 DEF ReadyInv
  <2>2. /\ ready' = InsertOrdered(ready, Prio, Prio[t], t)
        /\ \A y \in Tasks : state'[y] = IF y = t THEN READY ELSE state[y]
        /\ \A y \in Tasks : y # x => pc'[y] = pc[y]
    BY <1>0, <1>6 DEF MakeReady
  <2>3. Sorted(ready', Prio)
    BY <1>0, <2>1, <2>2, ReadyWithSorted DEF ReadyGood
  <2> QED BY <1>6, <2>1, <2>2, <2>3 DEF ReadyGood, READY, RUN, DEAD, FREE
<1>7. ASSUME NEW x \in Agents, GiveReady(x)
      PROVE  ReadyGood'
  <2>1. /\ target[x] \in Tasks /\ fault = "none" /\ MakeReady(target[x])
        /\ pc' = [pc EXCEPT ![x] = "switch"] /\ Executes(x) /\ pc[x] = "giveReady"
    BY <1>7 DEF GiveReady, At, Goto, Executes, TypeInv
  <2>2. x \in Tasks => state[x] = RUN
    BY <1>0, <2>1, CallerRuns DEF KernelInv
  <2> QED BY <1>6, <2>1, <2>2
<1>8. CASE TickWake
  <2>1. /\ Head(sleep) \in Tasks /\ fault = "none" /\ MakeReady(Head(sleep))
        /\ pc' = [pc EXCEPT ![Isr] = "tickWoke"]
    BY <1>0, <1>8, SleepTail DEF TickWake, Executes, Goto
  <2> QED BY <1>0, <1>6, <2>1
<1>9. ASSUME NEW x \in Agents, Switch(x) \/ SelfSwitch(x) \/ TakeSwitch(x)
      PROVE  ReadyGood'
  <2>1. /\ Executes(x) /\ ready # <<>>
        /\ pc[x] = "takeSwitch" \/ pc' = [pc EXCEPT ![x] = "run"] \/ pc' = [pc EXCEPT ![x] = "off"]
        /\ \E where \in PCs : pc' = [pc EXCEPT ![x] = where]
        /\ UNCHANGED <<ready, state, current>> \/ Dispatch
    BY <1>9 DEF Switch, SelfSwitch, TakeSwitch, TaskSwitch, SwitchBreaks, At, Goto, Home, PCs
  <2>2. ReadyGood /\ Sorted(ready', Prio)
        /\ \A t \in Tasks : state'[t] \in {state[t], RUN, READY}
    BY <1>0, <2>1, DispatchSorted DEF Executes, ReadyInv, ReadyGood
  <2>3. \A t \in Tasks : t # x => pc'[t] = pc[t]
    BY <1>0, <2>1
  <2>4. x \in Tasks => state[x] \notin {DEAD, FREE} \/ pc'[x] = "run"
    <3>1. x \in Tasks => x # Isr
      BY <1>0
    <3>2. CASE pc[x] = "takeSwitch"
      BY <2>2, <3>2 DEF ReadyGood
    <3>3. CASE pc' = [pc EXCEPT ![x] = "run"]
      BY <1>0, <3>3
    <3>4. CASE pc' = [pc EXCEPT ![x] = "off"]
      <4>1. x \in Tasks => Home(x) = "run"
        BY <3>1 DEF Home
      <4>2. x \in Tasks => pc' = [pc EXCEPT ![x] = "run"] \/ pc[x] = "takeSwitch"
        BY <1>9, <4>1 DEF Switch, SelfSwitch, TakeSwitch, TaskSwitch, Goto, At
      <4> QED BY <1>0, <2>2, <4>2 DEF ReadyGood
    <3> QED BY <2>1, <3>2, <3>3, <3>4
  <2> QED BY <2>2, <2>3, <2>4 DEF ReadyGood, READY, RUN, DEAD, FREE
<1>10. CASE IdleReap
  <2>1. /\ ReadyGood /\ UNCHANGED <<ready, pc>>
        /\ \A t \in Tasks : state'[t] = IF t \in dead THEN FREE ELSE state[t]
    BY <1>10 DEF IdleReap, At, Executes, ReadyInv
  <2>2. \A t \in Tasks : t \in dead => state[t] = DEAD
    BY <1>10 DEF IdleReap, At, Executes, KernelInv, KernelGood, Consistent
  <2> QED BY <2>1, <2>2 DEF ReadyGood
<1>11. \A x \in Agents : ~SwitchFails(x) /\ ~GiveReadyFails(x)
  BY DEF SwitchFails, SwitchFault, GiveReadyFails, Break
<1>12. ASSUME NEW t \in Tasks, TaskNext(t)
       PROVE  ReadyGood'
  BY <1>0, <1>2, <1>3, <1>9, <1>12 DEF TaskNext, Create, At
<1>13. ASSUME NEW x \in Agents, GiveNext(x) \/ Switch(x)
       PROVE  ReadyGood'
  <2>1. x \in Tasks \/ x = Isr
    BY DEF Agents
  <2> QED BY <1>3, <1>5, <1>7, <1>9, <1>11, <1>13, <2>1 DEF GiveNext
<1>14. CASE IdleBoot
  BY <1>2, <1>14, TaskAssumption DEF IdleBoot, At
<1> QED
  BY <1>1, <1>4, <1>5, <1>8, <1>10, <1>11, <1>12, <1>13, <1>14 DEF Next, IsrNext

LEMMA ReadyInit == Init => ReadyInv
<1>1. Sorted(<<>>, Prio)
  BY DEF Sorted
<1> QED BY <1>1, TaskAssumption DEF Init, ReadyInv, ReadyGood, Agents, RUN, DEAD, FREE

\* Only its own _task_switch takes an agent past it.
LEMMA SwitchOnly ==
  ASSUME TypeInv, KernelInv, ReadyInv, Next,
         NEW x \in Agents, pc[x] = "switch", pc'[x] # "switch"
  PROVE  Switch(x)
<1>0. /\ TypeOK /\ pc \in [Agents -> PCs] /\ Tasks \subseteq Agents /\ Isr \notin Tasks
      /\ Isr \in Agents
  BY TaskAssumption DEF TypeInv, TypeOK, Agents
<1>1. ASSUME NEW c \in Tasks, NEW t \in Tasks, At(c, "run") \/ At(c, "boot"), StartTask(c, t)
      PROVE  FALSE
  <2>1. pc[t] # "switch"
    BY <1>1 DEF StartTask, At, Executes, ReadyInv, ReadyGood
  <2>2. \A y \in Agents : y # t /\ y # c => pc'[y] = pc[y]
    BY <1>0, <1>1 DEF StartTask
  <2>3. pc[c] # "switch"
    BY <1>1 DEF At
  <2> QED BY <2>1, <2>2, <2>3
<1>2. ASSUME NEW y \in Agents, pc[y] # "switch",
             \/ pc' = pc
             \/ \E where \in PCs : pc' = [pc EXCEPT ![y] = where]
      PROVE  FALSE
  BY <1>0, <1>2
<1>3. ASSUME NEW y \in Agents, TaskSwitch(y, "selfSwitch", TRUE, "run")
                               \/ TaskSwitch(y, "takeSwitch", TRUE, "takeRet")
      PROVE  FALSE
  BY <1>2, <1>3 DEF TaskSwitch, At, Goto, PCs
<1>4. ASSUME NEW y \in Agents, NEW s \in Sems, GiveLocked(y, s), pc[y] # "switch"
      PROVE  FALSE
  BY <1>2, <1>4 DEF GiveLocked, Break, Goto, Home, PCs
<1>5. ASSUME NEW t \in Tasks, TaskNext(t)
      PROVE  FALSE
  <2>1. CASE \E u \in Tasks : Create(t, u)
    BY <1>1, <2>1 DEF Create
  <2>2. CASE \/ \E n \in Delays : Delay(t, n)
             \/ Yield(t) \/ Exit(t)
    BY <1>0, <1>2, <2>2 DEF Delay, Yield, Exit, At, Goto, PCs
  <2>3. CASE \/ \E s \in Sems, n \in TakeTimeouts : TakeCheck(t, s, n)
             \/ TakeFast(t) \/ TakeRecheck(t) \/ TakeWait(t) \/ TakeReturn(t)
    BY <1>0, <1>2, <2>3
    DEF TakeCheck, TakeFast, TakeRecheck, TakeToken, TakeWait, TakeReturn, At, Goto, PCs
  <2>4. CASE \E s \in Sems : Give(t, s)
    BY <1>0, <1>4, <2>4 DEF Give, At
  <2>5. CASE SelfSwitch(t) \/ TakeSwitch(t)
    BY <1>0, <1>3, <2>5 DEF SelfSwitch, TakeSwitch
  <2> QED BY <1>5, <2>1, <2>2, <2>3, <2>4, <2>5 DEF TaskNext
<1>6. ASSUME NEW y \in Agents, GiveNext(y) \/ SwitchFails(y)
      PROVE  FALSE
  <2>1. CASE GiveCheck(y) \/ GiveReady(y)
    BY <1>2, <2>1 DEF GiveCheck, GiveReady, At, Goto, Home, PCs
  <2>2. CASE GiveReadyFails(y) \/ SwitchFails(y)
    BY <2>2 DEF GiveReadyFails, SwitchFails, SwitchFault, Break
  <2> QED BY <1>6, <2>1, <2>2 DEF GiveNext
<1>7. ASSUME NEW y \in Agents, Switch(y)
      PROVE  y = x
  BY <1>0, <1>7 DEF Switch, TaskSwitch, Goto
<1>8. ~IsrNext
  <2>1. CASE TickStart \/ TickWake \/ TickDone
    BY <1>0, <1>2, <2>1 DEF TickStart, TickWake, TickDone, Goto, PCs
  <2>2. CASE \E s \in IsrSems : IsrGive(s)
    BY <1>0, <1>4, <2>2, CallAssumption DEF IsrGive
  <2> QED BY <2>1, <2>2 DEF IsrNext
<1>9. ~IdleBoot
  BY <1>1, TaskAssumption DEF IdleBoot
<1>10. ~IdleReap
  BY <1>0 DEF IdleReap
<1> QED BY <1>5, <1>6, <1>7, <1>8, <1>9, <1>10 DEF Next

\* The switch that ends a give, a creation or a tick leaves the processor with a
\* task that no ready task is more urgent than.
THEOREM PreemptsAlways ==
  ASSUME UptimeBelowWrap
  PROVE  Spec => PreemptsProperly
<1> DEFINE A == \A x \in Agents :
                  pc[x] = "switch" /\ pc'[x] # "switch"
                  => \A t \in Range(ready') : Prio[current'] <= Prio[t]
<1>1. TypeInv /\ KernelInv /\ ReadyInv /\ [Next]_vars
      => TypeInv' /\ KernelInv' /\ ReadyInv'
  BY TypeStep, KernelStep, ReadyStep
<1>2. ASSUME TypeInv, KernelInv, ReadyInv, Next,
             NEW x \in Agents, pc[x] = "switch", pc'[x] # "switch"
      PROVE  \A t \in Range(ready') : Prio[current'] <= Prio[t]
  <2>1. Switch(x)
    BY <1>2, SwitchOnly
  <2>2. /\ TypeOK /\ Sorted(ready, Prio) /\ ready # <<>> /\ ready \in Seq(Tasks)
        /\ current \in Tasks
    BY <1>2, <2>1 DEF Switch, TaskSwitch, SwitchBreaks, At, Executes, ReadyInv, ReadyGood,
                      TypeInv, TypeOK
  <2>3. /\ Head(ready) \in Tasks
        /\ \A t \in Range(ready) : t \in Tasks /\ Prio[Head(ready)] <= Prio[t]
    BY <2>2, HeadLinked, TailSorted, RangeByPlace
  <2>4. CASE StaysOnCpu(FALSE)
    <3>1. UNCHANGED <<ready, current>> /\ Prio[current] < Prio[Head(ready)]
      BY <2>1, <2>4 DEF Switch, TaskSwitch, StaysOnCpu
    <3> QED BY <2>2, <2>3, <3>1, PrioIsKey
  <2>5. CASE ~StaysOnCpu(FALSE)
    <3>1. Dispatch /\ ~(Prio[current] < Prio[Head(ready)])
      BY <2>1, <2>5 DEF Switch, TaskSwitch, StaysOnCpu
    <3>2. Prio[Head(ready)] <= Prio[current]
      BY <2>2, <2>3, <3>1, PrioIsKey
    <3> QED BY <2>2, <3>1, <3>2, DispatchSorted
  <2> QED BY <2>4, <2>5
<1>3. TypeInv /\ KernelInv /\ ReadyInv /\ [Next]_vars => [A]_vars
  BY <1>2
<1> QED BY TypeInit, KernelInit, ReadyInit, <1>1, <1>3, PTL DEF Spec, PreemptsProperly
-----------------------------------------------------------------------------
(* Who is registered in a semaphore, or found by a give that has not woken *)
(* it yet, sleeps until that give, unless the timer has ended its take.    *)

\* No take has a deadline.
TakesUntimed == \A n \in TakeTimeouts : n <= 0

Blocked(t) == state[t] = WAIT /\ timeout[t] = 0

\* What a pointer to t says while the timer has not ended a take of t: t waits
\* for the semaphore that points at it; a give under way is the only pointer
\* left to the task it has found, and alone can wake it.
WaitOf(t) ==
  /\ \A s \in Sems : waiter[s] = t => state[t] = WAIT /\ Parked(t, s)
  /\ \A x \in Agents : Giving(x) /\ target[x] = t =>
       /\ state[t] = WAIT /\ ~(timeout[t] > 0)
       /\ \A s \in Sems : waiter[s] # t
       /\ \A y \in Agents : Giving(y) /\ y # x => target[y] # t

\* A step that adds no pointer to t, and does not wake t.
LEMMA WaitSame ==
  ASSUME NEW t \in Tasks, WaitOf(t), UNCHANGED waiter,
         state[t] = WAIT => state'[t] = WAIT /\ (~(timeout[t] > 0) => ~(timeout'[t] > 0)),
         \A s \in Sems : state[t] = WAIT /\ Parked(t, s) => Parked(t, s)',
         \A x \in Agents : Giving(x)' => Giving(x) /\ target'[x] = target[x]
  PROVE  WaitOf(t)'
BY DEF WaitOf

\* A broken kernel takes no step.
LEMMA NextWhole == Next => fault = "none"
<1>1. ASSUME NEW t \in Tasks, TaskNext(t)
      PROVE  fault = "none"
  BY <1>1 DEF TaskNext, Create, Delay, Yield, Exit, TakeCheck, TakeFast, TakeRecheck,
              TakeToken, TakeWait, TakeReturn, Give, SelfSwitch, TakeSwitch, TaskSwitch,
              At, Executes
<1>2. ASSUME NEW x \in Agents, GiveNext(x) \/ Switch(x) \/ SwitchFails(x)
      PROVE  fault = "none"
  BY <1>2 DEF GiveNext, GiveCheck, GiveReady, GiveReadyFails, Switch, TaskSwitch,
              SwitchFails, SwitchFault, At, Executes
<1> QED
  BY <1>1, <1>2 DEF Next, IsrNext, TickStart, TickWake, TickDone, IsrGive, IdleBoot, IdleReap,
                    At, Executes

\* A switch of the processor wakes nobody.
LEMMA SwitchBlocked ==
  ASSUME TypeInv, KernelGood, UNCHANGED state \/ (Dispatch /\ ready # <<>>)
  PROVE  \A t \in Tasks : state[t] = WAIT => state'[t] = WAIT
<1>1. CASE UNCHANGED state
  BY <1>1
<1>2. CASE Dispatch /\ ready # <<>>
  <2>1. ready # <<>> /\ TypeOK /\ ready \in Seq(Tasks)
    BY <1>2 DEF TypeInv, TypeOK
  <2>2. Head(ready) \in Tasks /\ state[Head(ready)] = READY
    BY <2>1, HeadLinked DEF KernelGood, Consistent
  <2>3. state' = [t \in Tasks |-> IF t = Head(ready) THEN RUN
                                  ELSE IF t = current /\ Requeues THEN READY
                                  ELSE state[t]]
    BY <1>2 DEF Dispatch
  <2>4. state[current] = WAIT => ~Requeues
    BY DEF Requeues, READY, RUN, WAIT
  <2> QED BY <2>2, <2>3, <2>4 DEF READY, WAIT
<1> QED BY <1>1, <1>2

LEMMA WaitSwitch ==
  ASSUME TypeInv, KernelInv, NEW t \in Tasks, WaitOf(t),
         NEW x \in Agents, NEW where, NEW self, NEW next \in {"off", "run", "takeRet"},
         TaskSwitch(x, where, self, next),
         where # "takeRet", where = "takeSwitch" => next = "takeRet"
  PROVE  WaitOf(t)'
<1>0. pc \in [Agents -> PCs] /\ Tasks \subseteq Agents
  BY DEF TypeInv, TypeOK, Agents
<1>1. /\ KernelGood /\ pc[x] = where /\ UNCHANGED <<waiter, call, target, timeout>>
      /\ pc' = [pc EXCEPT ![x] = next]
      /\ UNCHANGED state \/ (Dispatch /\ ready # <<>>)
  BY DEF TaskSwitch, SwitchBreaks, At, Executes, Goto, KernelInv, semVars, localVars
<1>2. \A y \in Agents : pc'[y] = IF y = x THEN next ELSE pc[y]
  BY <1>0, <1>1
<1>3. state[t] = WAIT => state'[t] = WAIT
  BY <1>1, SwitchBlocked
<1>4. \A s \in Sems : Parked(t, s) => Parked(t, s)'
  BY <1>0, <1>1, <1>2 DEF Parked
<1>5. \A y \in Agents : Giving(y)' => Giving(y) /\ target'[y] = target[y]
  BY <1>1, <1>2 DEF Giving
<1> QED BY <1>1, <1>3, <1>4, <1>5, WaitSame

\* A step of the kernel keeps what the pointers to t say, as long as the timer
\* does not end a take of t.
LEMMA WaitStep ==
  ASSUME TypeInv, KernelInv, [Next]_vars, NEW t \in Tasks, WaitOf(t), ~TimerEnds(t)
  PROVE  WaitOf(t)'
<1>0. /\ pc \in [Agents -> PCs] /\ Tasks \subseteq Agents /\ Isr \notin Tasks
      /\ Isr \in Agents /\ IsrSems \subseteq Sems /\ None \notin Tasks
      /\ waiter \in [Sems -> Tasks \cup {None}]
      /\ state \in [Tasks -> {READY, RUN, WAIT, DEAD, FREE}]
      /\ timeout \in [Tasks -> Int] /\ target \in [Agents -> Tasks \cup {None}]
      /\ \A x \in Agents : x \in Tasks \/ x = Isr
      /\ TypeOK
  BY TaskAssumption, CallAssumption DEF TypeInv, TypeOK, Agents
<1>1. CASE UNCHANGED vars
  BY <1>1, WaitSame DEF vars, semVars, localVars, Giving, Parked
<1>2. ASSUME NEW c \in Tasks, NEW u \in Tasks, At(c, "run") \/ At(c, "boot"), StartTask(c, u)
      PROVE  WaitOf(t)'
  <2>1. /\ state[u] = FREE /\ pc[c] \in {"run", "boot"}
        /\ UNCHANGED <<waiter, call, target>>
        /\ pc' = [pc EXCEPT ![c] = "switch", ![u] = "run"]
        /\ timeout' = [timeout EXCEPT ![u] = 0]
        /\ state' = [state EXCEPT ![u] = READY]
    BY <1>2 DEF StartTask, At, MakeReady, semVars, localVars
  <2>2. \A x \in Agents : pc'[x] = IF x = u THEN "run" ELSE IF x = c THEN "switch" ELSE pc[x]
    BY <1>0, <2>1
  <2>3. state[t] = WAIT => t # u /\ state'[t] = state[t] /\ timeout'[t] = timeout[t]
    BY <1>0, <2>1 DEF WAIT, FREE
  <2>4. \A s \in Sems : state[t] = WAIT /\ Parked(t, s) => Parked(t, s)'
    BY <1>0, <2>1, <2>2, <2>3 DEF Parked
  <2>5. \A x \in Agents : Giving(x)' => Giving(x) /\ target'[x] = target[x]
    BY <2>1, <2>2 DEF Giving
  <2> QED BY <2>1, <2>3, <2>4, <2>5, WaitSame
<1>3. ASSUME NEW u \in Tasks, \/ \E n \in Delays : Delay(u, n)
                              \/ Yield(u) \/ Exit(u)
      PROVE  WaitOf(t)'
  <2>1. /\ Executes(u) /\ pc[u] = "run" /\ fault = "none"
        /\ UNCHANGED <<waiter, call, target>>
        /\ pc' = [pc EXCEPT ![u] = "selfSwitch"]
        /\ \A v \in Tasks : v # u => state'[v] = state[v] /\ timeout'[v] = timeout[v]
    BY <1>0, <1>3 DEF Delay, Yield, Exit, At, Executes, Goto, semVars, localVars
  <2>2. state[u] = RUN
    BY <1>0, <2>1, CallerRuns DEF KernelInv
  <2>3. state[t] = WAIT => t # u
    BY <2>2 DEF WAIT, RUN
  <2>4. \A x \in Agents : pc'[x] = IF x = u THEN "selfSwitch" ELSE pc[x]
    BY <1>0, <2>1
  <2>5. \A s \in Sems : state[t] = WAIT /\ Parked(t, s) => Parked(t, s)'
    BY <1>0, <2>1, <2>3, <2>4 DEF Parked
  <2>6. \A x \in Agents : Giving(x)' => Giving(x) /\ target'[x] = target[x]
    BY <2>1, <2>4 DEF Giving
  <2> QED BY <2>1, <2>3, <2>5, <2>6, WaitSame
<1>4. ASSUME NEW u \in Tasks, \/ \E s \in Sems, n \in TakeTimeouts : TakeCheck(u, s, n)
                              \/ TakeFast(u) \/ TakeRecheck(u) \/ TakeReturn(u)
      PROVE  WaitOf(t)'
  <2>1. /\ Executes(u) /\ pc[u] \in {"run", "takeFast", "takeLock", "takeRet"}
        /\ fault = "none"
        /\ UNCHANGED <<waiter, state, timeout, target>>
        /\ \/ pc' = pc \/ pc' = [pc EXCEPT ![u] = "takeFast"]
           \/ pc' = [pc EXCEPT ![u] = "takeLock"] \/ pc' = [pc EXCEPT ![u] = "run"]
        /\ call' = call \/ \E c : call' = [call EXCEPT ![u] = c]
    BY <1>0, <1>4 DEF TakeCheck, TakeFast, TakeRecheck, TakeToken, TakeReturn, At, Executes,
                      Goto, semVars
  <2>2. state[u] = RUN
    BY <1>0, <2>1, CallerRuns DEF KernelInv
  <2>3. state[t] = WAIT => t # u
    BY <2>2 DEF WAIT, RUN
  <2>4. /\ \A x \in Agents : x # u => pc'[x] = pc[x]
        /\ \A v \in Tasks : v # u => call'[v] = call[v]
        /\ pc'[u] \in {"run", "takeFast", "takeLock", pc[u]}
    BY <1>0, <2>1 DEF TypeOK
  <2>5. \A s \in Sems : state[t] = WAIT /\ Parked(t, s) => Parked(t, s)'
    BY <1>0, <2>3, <2>4 DEF Parked
  <2>6. \A x \in Agents : Giving(x)' => Giving(x) /\ target'[x] = target[x]
    BY <1>0, <2>1, <2>4 DEF Giving
  <2> QED BY <2>1, <2>5, <2>6, WaitSame
<1>5. CASE \/ TickStart \/ TickDone \/ IdleReap
           \/ \E x \in Agents : GiveCheck(x) \/ GiveReadyFails(x) \/ SwitchFails(x)
  <2>1. /\ fault = "none" /\ UNCHANGED <<waiter, call, target, timeout>>
        /\ \/ pc' = pc
           \/ \E where \in PCs \ {"giveCheck", "giveReady"} : pc' = [pc EXCEPT ![Isr] = where]
           \/ \E x \in Agents, where \in {"off", "run", "giveReady"} :
                pc[x] = "giveCheck" /\ pc' = [pc EXCEPT ![x] = where]
        /\ \/ UNCHANGED state
           \/ state' = [u \in Tasks |-> IF u \in dead THEN FREE ELSE state[u]]
    BY <1>0, <1>5 DEF TickStart, TickDone, IdleReap, GiveCheck, GiveReadyFails, SwitchFails,
                      SwitchFault, Break, At, Executes, Goto, Home, PCs, semVars, localVars
  <2>2. state[t] = WAIT => state'[t] = WAIT
    BY <1>0, <2>1 DEF KernelInv, KernelGood, Consistent, WAIT, DEAD
  <2>3. /\ \A x \in Agents : Giving(x)' => Giving(x)
        /\ \A u \in Tasks : pc[u] \in {"takeSwitch", "takeRet"} => pc'[u] = pc[u]
    BY <1>0, <2>1 DEF Giving
  <2>4. \A s \in Sems : Parked(t, s) => Parked(t, s)'
    BY <2>1, <2>3 DEF Parked
  <2> QED BY <2>1, <2>2, <2>3, <2>4, WaitSame
<1>6. CASE TickWake
  <2> DEFINE u == Head(sleep)
  <2>1. /\ KernelGood /\ sleep # <<>> /\ MakeReady(u) /\ sleep' = Tail(sleep)
        /\ pc[Isr] \in {"tick", "tickWoke"}
        /\ timeout' = [timeout EXCEPT ![u] = 0]
        /\ pc' = [pc EXCEPT ![Isr] = "tickWoke"]
        /\ UNCHANGED <<waiter, call, target>>
    BY <1>6 DEF TickWake, Executes, Goto, KernelInv, semVars, localVars
  <2>2. /\ u \in Tasks /\ u \in Range(sleep) /\ timeout[u] > 0
    BY <1>0, <2>1, SleepTail DEF KernelGood, Consistent
  <2>3. u \notin Range(sleep')
    BY <1>0, <2>1, TailInjective DEF KernelGood, Consistent, TypeOK
  <2> HIDE DEF u
  <2>4. \A x \in Agents : pc'[x] = IF x = Isr THEN "tickWoke" ELSE pc[x]
    BY <1>0, <2>1
  <2>5. \A v \in Tasks : v # u => state'[v] = state[v] /\ timeout'[v] = timeout[v]
    BY <1>0, <2>1 DEF MakeReady
  <2>6. \A x \in Agents : Giving(x)' => Giving(x) /\ target'[x] = target[x]
    BY <2>1, <2>4 DEF Giving
  <2>7. CASE t # u
    <3>1. \A s \in Sems : Parked(t, s) => Parked(t, s)'
      BY <1>0, <2>1, <2>4 DEF Parked
    <3> QED BY <2>1, <2>5, <2>6, <2>7, <3>1, WaitSame
  <2>8. CASE t = u
    <3>1. ~Taking(t)
      BY <2>1, <2>2, <2>3, <2>8 DEF TimerEnds
    <3>2. \A s \in Sems : waiter[s] # t
      BY <3>1 DEF WaitOf, Parked, Taking
    <3>3. \A x \in Agents : Giving(x) => target[x] # t
      BY <2>2, <2>8 DEF WaitOf
    <3> QED BY <2>1, <2>6, <3>2, <3>3 DEF WaitOf
  <2> QED BY <2>7, <2>8
<1>7. ASSUME NEW u \in Tasks, TakeWait(u)
      PROVE  WaitOf(t)'
  <2> DEFINE r == call[u].sem
  <2>1. /\ Executes(u) /\ pc[u] = "takeLock" /\ fault = "none"
        /\ waiter' = [waiter EXCEPT ![r] = u] /\ UNCHANGED <<call, target>>
        /\ state' = [state EXCEPT ![u] = WAIT]
        /\ \E n : timeout' = [timeout EXCEPT ![u] = n]
        /\ pc' = [pc EXCEPT ![u] = "takeSwitch"]
    BY <1>0, <1>7 DEF TakeWait, At, Executes, Goto, localVars
  <2>2. state[u] = RUN
    BY <1>0, <2>1, CallerRuns DEF KernelInv
  <2>3. /\ \A x \in Agents : pc'[x] = IF x = u THEN "takeSwitch" ELSE pc[x]
        /\ \A v \in Tasks : state'[v] = IF v = u THEN WAIT ELSE state[v]
        /\ \A v \in Tasks : v # u => timeout'[v] = timeout[v]
        /\ \A s \in Sems : waiter'[s] = IF s = r THEN u ELSE waiter[s]
    BY <1>0, <2>1
  <2>4. \A x \in Agents : Giving(x)' <=> Giving(x) /\ x # u
    BY <2>1, <2>3 DEF Giving
  <2>5. CASE t = u
    <3>1. /\ \A s \in Sems : waiter[s] # t
          /\ \A x \in Agents : Giving(x) => target[x] # t
      BY <2>2, <2>5 DEF WaitOf, WAIT, RUN
    <3>2. \A s \in Sems : waiter'[s] = t => s = r
      BY <2>3, <3>1
    <3>3. state'[t] = WAIT /\ Parked(t, r)'
      BY <1>0, <2>1, <2>3, <2>5 DEF Parked
    <3> QED BY <2>1, <2>4, <3>1, <3>2, <3>3 DEF WaitOf
  <2>6. CASE t # u
    <3>1. \A s \in Sems : waiter'[s] = t => waiter[s] = t
      BY <2>3, <2>6
    <3>2. state'[t] = state[t] /\ timeout'[t] = timeout[t]
      BY <2>3, <2>6
    <3>3. \A s \in Sems : Parked(t, s) => Parked(t, s)'
      BY <1>0, <2>1, <2>3, <2>6 DEF Parked
    <3> QED BY <2>1, <2>4, <3>1, <3>2, <3>3 DEF WaitOf
  <2> QED BY <2>5, <2>6
<1>8. ASSUME NEW x \in Agents, NEW s \in Sems, GiveLocked(x, s), fault = "none",
             pc[x] \notin {"giveCheck", "giveReady"},
             x \in Tasks => pc[x] = "run"
      PROVE  WaitOf(t)'
  <2> DEFINE u == waiter[s]
  <2>1. CASE waiter[s] = None \/ fault' # "none"
    <3>1. /\ UNCHANGED <<waiter, call, target, state, timeout>>
          /\ pc' = pc \/ pc' = [pc EXCEPT ![x] = Home(x)]
      BY <1>0, <1>8, <2>1 DEF GiveLocked, Break, Goto, localVars
    <3>2. \A y \in Agents : pc'[y] = pc[y] \/ (y = x /\ pc'[y] \in {"run", "off"})
      <4>1. Home(x) \in {"run", "off"}
        BY DEF Home
      <4> QED BY <1>0, <3>1, <4>1
    <3>3. \A r \in Sems : Parked(t, r) => Parked(t, r)'
      BY <1>0, <1>8, <3>1, <3>2 DEF Parked
    <3>4. \A y \in Agents : Giving(y)' => Giving(y)
      BY <3>2 DEF Giving
    <3> QED BY <3>1, <3>3, <3>4, WaitSame
  <2>2. CASE waiter[s] # None /\ fault' = "none"
    <3>1. /\ waiter' = [waiter EXCEPT ![s] = None]
          /\ target' = [target EXCEPT ![x] = u]
          /\ pc' = [pc EXCEPT ![x] = "giveCheck"]
          /\ UNCHANGED <<state, call>>
          /\ IF timeout[u] > 0 THEN timeout' = [timeout EXCEPT ![u] = 0] ELSE UNCHANGED timeout
      BY <1>8, <2>2 DEF GiveLocked, Break, Goto
    <3>2. u \in Tasks
      BY <1>0, <2>2
    <3> HIDE DEF u
    <3>3. /\ \A y \in Agents : pc'[y] = IF y = x THEN "giveCheck" ELSE pc[y]
          /\ \A y \in Agents : target'[y] = IF y = x THEN u ELSE target[y]
          /\ \A r \in Sems : waiter'[r] = IF r = s THEN None ELSE waiter[r]
          /\ \A v \in Tasks : v # u => timeout'[v] = timeout[v]
          /\ ~(timeout'[u] > 0)
      BY <1>0, <3>1, <3>2
    <3>4. \A y \in Agents : y # x => (Giving(y)' <=> Giving(y)) /\ target'[y] = target[y]
      BY <3>3 DEF Giving
    <3>5. \A r \in Sems : Parked(t, r) => Parked(t, r)'
      BY <1>0, <1>8, <3>1, <3>3 DEF Parked
    <3>6. \A r \in Sems : waiter'[r] = t => waiter[r] = t /\ r # s
      BY <1>0, <3>3
    <3>7. CASE t = u
      <4>1. waiter[s] = t
        BY <3>7 DEF u
      <4>2. state[t] = WAIT /\ Parked(t, s)
        BY <4>1 DEF WaitOf
      <4>3. \A r \in Sems : r # s => waiter[r] # t
        BY <4>2 DEF WaitOf, Parked
      <4>4. \A y \in Agents : Giving(y) => target[y] # t
        BY <4>1 DEF WaitOf
      <4>5. \A y \in Agents : Giving(y)' /\ target'[y] = t => y = x
        BY <3>4, <4>4
      <4>6. /\ \A r \in Sems : waiter'[r] # t
            /\ state'[t] = WAIT /\ ~(timeout'[t] > 0)
        BY <3>1, <3>3, <3>6, <3>7, <4>2, <4>3
      <4> QED BY <4>5, <4>6 DEF WaitOf
    <3>8. CASE t # u
      <4>1. state'[t] = state[t] /\ timeout'[t] = timeout[t]
        BY <3>1, <3>3, <3>8
      <4>2. \A y \in Agents : Giving(y)' /\ target'[y] = t => y # x /\ Giving(y) /\ target[y] = t
        BY <3>3, <3>4, <3>8
      <4> QED BY <3>5, <3>6, <4>1, <4>2 DEF WaitOf
    <3> QED BY <3>7, <3>8
  <2> QED BY <2>1, <2>2
<1>9. ASSUME NEW x \in Agents, GiveReady(x)
      PROVE  WaitOf(t)'
  <2> DEFINE u == target[x]
  <2>1. /\ pc[x] = "giveReady" /\ pc' = [pc EXCEPT ![x] = "switch"]
        /\ state' = [state EXCEPT ![u] = READY]
        /\ UNCHANGED <<waiter, call, target, timeout>>
    BY <1>9 DEF GiveReady, At, Goto, MakeReady, semVars, localVars
  <2>2. \A y \in Agents : Giving(y)' <=> Giving(y) /\ y # x
    BY <1>0, <2>1 DEF Giving
  <2>3. CASE t = u
    <3>1. \A s \in Sems : waiter[s] # t
      BY <2>1, <2>3 DEF WaitOf, Giving
    <3>2. \A y \in Agents : Giving(y) /\ y # x => target[y] # t
      BY <2>1, <2>3 DEF WaitOf, Giving
    <3> QED BY <2>1, <2>2, <3>1, <3>2 DEF WaitOf
  <2>4. CASE t # u
    <3>1. state'[t] = state[t]
      BY <1>0, <2>1, <2>4
    <3>2. \A s \in Sems : Parked(t, s) => Parked(t, s)'
      BY <1>0, <2>1 DEF Parked
    <3> QED BY <2>1, <2>2, <3>1, <3>2, WaitSame
  <2> QED BY <2>3, <2>4
<1>10. ASSUME NEW u \in Tasks, TaskNext(u)
       PROVE  WaitOf(t)'
  <2>1. CASE \E v \in Tasks : Create(u, v)
    BY <1>2, <2>1 DEF Create
  <2>2. CASE \E s \in Sems : Give(u, s)
    BY <1>0, <1>8, <2>2 DEF Give, At, Executes
  <2>3. CASE SelfSwitch(u)
    BY <1>0, <2>3, WaitSwitch DEF SelfSwitch
  <2>4. CASE TakeSwitch(u)
    BY <1>0, <2>4, WaitSwitch DEF TakeSwitch
  <2> QED BY <1>3, <1>4, <1>7, <1>10, <2>1, <2>2, <2>3, <2>4 DEF TaskNext
<1>11. ASSUME NEW x \in Agents, Switch(x)
       PROVE  WaitOf(t)'
  BY <1>11, WaitSwitch DEF Switch, Home
<1>12. CASE IsrNext
  <2>1. CASE \E s \in IsrSems : IsrGive(s)
    BY <1>0, <1>8, <2>1 DEF IsrGive
  <2> QED BY <1>5, <1>6, <1>12, <2>1 DEF IsrNext
<1>13. CASE IdleBoot
  BY <1>2, <1>13, TaskAssumption DEF IdleBoot
<1> QED BY <1>1, <1>5, <1>9, <1>10, <1>11, <1>12, <1>13 DEF Next, GiveNext

\* A task that nothing points at can be waiting for nobody.
LEMMA WaitForgotten ==
  ASSUME NEW t \in Tasks, ~Pointed(t)
  PROVE  WaitOf(t)
BY DEF WaitOf, Pointed

\* Who is not late is where the pointers to it say.
LateInv == \A t \in Tasks : t \notin late => WaitOf(t)

LEMMA LateStep ==
  ASSUME TypeInv, KernelInv, LateInv, [LateNext]_lateVars
  PROVE  LateInv'
<1>1. CASE UNCHANGED lateVars
  <2> SUFFICES ASSUME NEW t \in Tasks, t \notin late'
               PROVE  WaitOf(t)'
    BY DEF LateInv
  <2>1. WaitOf(t) /\ UNCHANGED vars
    BY <1>1 DEF LateInv, lateVars
  <2> QED BY <2>1, WaitSame DEF vars, semVars, localVars, Giving, Parked
<1>2. CASE LateNext
  <2> SUFFICES ASSUME NEW t \in Tasks, t \notin late'
               PROVE  WaitOf(t)'
    BY DEF LateInv
  <2>1. CASE ~Pointed(t)'
    BY <2>1 DEF WaitOf, Pointed
  <2>2. CASE t \notin late /\ ~TimerEnds(t)
    BY <1>2, <2>2, WaitStep DEF LateInv, LateNext
  <2> QED BY <1>2, <2>1, <2>2 DEF LateNext, Remember
<1> QED BY <1>1, <1>2

\* Untimed takes are in no list that the timer looks at.
UntimedInv == \A t \in Tasks : WaitOf(t) /\ (Taking(t) => ~(timeout[t] > 0))

LEMMA UntimedStep ==
  ASSUME TakesUntimed, TypeInv, KernelInv, UntimedInv, [Next]_vars
  PROVE  UntimedInv'
<1>0. /\ pc \in [Agents -> PCs] /\ Tasks \subseteq Agents /\ Isr \notin Tasks
      /\ timeout \in [Tasks -> Int] /\ TypeOK
      /\ \A x \in Agents : x \in Tasks \/ x = Isr
  BY TaskAssumption DEF TypeInv, TypeOK, Agents
<1> SUFFICES ASSUME NEW t \in Tasks
             PROVE  WaitOf(t)' /\ (Taking(t)' => ~(timeout'[t] > 0))
  BY DEF UntimedInv
<1>1. CASE UNCHANGED vars
  BY <1>1, WaitSame DEF UntimedInv, vars, semVars, localVars, Giving, Parked, Taking
<1>2. CASE Next
  <2>1. ~TimerEnds(t)
    BY <1>2, NextWhole DEF KernelInv, KernelGood, Consistent, UntimedInv, TimerEnds
  <2>2. WaitOf(t)'
    BY <2>1, WaitStep DEF UntimedInv
  <2>3. ASSUME Taking(t) => timeout'[t] = timeout[t] \/ timeout'[t] = 0, Taking(t)' => Taking(t)
        PROVE  Taking(t)' => ~(timeout'[t] > 0)
    BY <1>0, <2>3 DEF UntimedInv
  <2>4. ASSUME NEW c \in Tasks, NEW u \in Tasks, StartTask(c, u)
        PROVE  Taking(t)' => ~(timeout'[t] > 0)
    <3>1. /\ pc' = [pc EXCEPT ![c] = "switch", ![u] = "run"]
          /\ timeout' = [timeout EXCEPT ![u] = 0]
      BY <2>4 DEF StartTask
    <3> QED BY <1>0, <2>3, <3>1 DEF Taking
  <2>5. ASSUME NEW u \in Tasks, (\E n \in Delays : Delay(u, n)) \/ Yield(u) \/ Exit(u)
        PROVE  Taking(t)' => ~(timeout'[t] > 0)
    <3>1. /\ pc' = [pc EXCEPT ![u] = "selfSwitch"]
          /\ timeout' = timeout \/ \E n : timeout' = [timeout EXCEPT ![u] = n]
      BY <2>5 DEF Delay, Yield, Exit, Goto
    <3>2. pc'[u] = "selfSwitch" /\ (t # u => pc'[t] = pc[t] /\ timeout'[t] = timeout[t])
      BY <1>0, <3>1
    <3>3. CASE t = u
      BY <3>2, <3>3 DEF Taking
    <3>4. CASE t # u
      BY <2>3, <3>2, <3>4 DEF Taking
    <3> QED BY <3>3, <3>4
  <2>6. ASSUME NEW u \in Tasks, TakeWait(u)
        PROVE  Taking(t)' => ~(timeout'[t] > 0)
    <3>1. call[u].timeout \in TakeTimeouts \cup {0}
      BY <1>0 DEF TypeOK
    <3>2. ~(call[u].timeout > 0)
      <4>1. TakeTimeouts \subseteq Int
        BY CallAssumption
      <4>2. CASE call[u].timeout \in TakeTimeouts
        <5>1. call[u].timeout <= 0 /\ call[u].timeout \in Int
          BY <4>1, <4>2 DEF TakesUntimed
        <5> QED BY <5>1
      <4> QED BY <3>1, <4>2
    <3>3. /\ pc' = [pc EXCEPT ![u] = "takeSwitch"]
          /\ timeout' = [timeout EXCEPT ![u] = 0]
      BY <2>6, <3>2 DEF TakeWait, Goto
    <3>4. timeout'[u] = 0 /\ (t # u => pc'[t] = pc[t] /\ timeout'[t] = timeout[t])
      BY <1>0, <3>3
    <3>5. CASE t = u
      BY <3>4, <3>5
    <3>6. CASE t # u
      BY <2>3, <3>4, <3>6 DEF Taking
    <3> QED BY <3>5, <3>6
  <2>7. ASSUME NEW x \in Agents, NEW s \in Sems, GiveLocked(x, s)
        PROVE  Taking(t)' => ~(timeout'[t] > 0)
    <3>1. /\ pc' = pc \/ pc' = [pc EXCEPT ![x] = Home(x)] \/ pc' = [pc EXCEPT ![x] = "giveCheck"]
          /\ timeout' = timeout \/ \E u : timeout' = [timeout EXCEPT ![u] = 0]
      BY <2>7 DEF GiveLocked, Break, Goto
    <3> QED BY <1>0, <2>3, <3>1 DEF Taking, Home
  <2>8. CASE TickWake
    <3>1. /\ pc' = [pc EXCEPT ![Isr] = "tickWoke"]
          /\ timeout' = [timeout EXCEPT ![Head(sleep)] = 0]
      BY <2>8 DEF TickWake, Goto
    <3> QED BY <1>0, <2>2, <2>3, <3>1 DEF Taking
  <2>9. ASSUME UNCHANGED timeout, Taking(t)' => Taking(t)
        PROVE  Taking(t)' => ~(timeout'[t] > 0)
    BY <2>3, <2>9
  <2>10. ASSUME NEW u \in Tasks, TaskNext(u)
         PROVE  Taking(t)' => ~(timeout'[t] > 0)
    <3>1. CASE \/ \E s \in Sems, n \in TakeTimeouts : TakeCheck(u, s, n)
               \/ TakeFast(u) \/ TakeRecheck(u) \/ TakeReturn(u) \/ SelfSwitch(u)
      <4>1. /\ UNCHANGED timeout
            /\ \/ pc' = pc
               \/ \E where \in {"takeFast", "takeLock", "run"} : pc' = [pc EXCEPT ![u] = where]
        BY <3>1 DEF TakeCheck, TakeFast, TakeRecheck, TakeToken, TakeReturn, SelfSwitch,
                    TaskSwitch, Goto
      <4> QED BY <1>0, <2>9, <4>1 DEF Taking
    <3>2. CASE TakeSwitch(u)
      <4>1. UNCHANGED timeout /\ pc[u] = "takeSwitch" /\ pc' = [pc EXCEPT ![u] = "takeRet"]
        BY <3>2 DEF TakeSwitch, TaskSwitch, At, Goto
      <4> QED BY <1>0, <2>9, <4>1 DEF Taking
    <3>3. CASE \E v \in Tasks : Create(u, v)
      BY <2>4, <3>3 DEF Create
    <3>4. CASE \E s \in Sems : Give(u, s)
      BY <1>0, <2>7, <3>4 DEF Give
    <3> QED BY <2>5, <2>6, <2>10, <3>1, <3>2, <3>3, <3>4 DEF TaskNext
  <2>11. CASE \/ \E x \in Agents : GiveNext(x) \/ Switch(x) \/ SwitchFails(x)
              \/ TickStart \/ TickDone \/ IdleReap
    <3>1. /\ UNCHANGED timeout
          /\ \/ pc' = pc
             \/ \E x \in Agents, where \in PCs \ {"takeSwitch", "takeRet"} :
                  pc' = [pc EXCEPT ![x] = where]
      BY <1>0, <2>11 DEF GiveNext, GiveCheck, GiveReady, GiveReadyFails, Switch, TaskSwitch,
           SwitchFails, SwitchFault, Break, TickStart, TickDone, IdleReap, Goto, Home, PCs, Agents
    <3> QED BY <1>0, <2>2, <2>9, <3>1 DEF Taking
  <2>12. CASE \E s \in IsrSems : IsrGive(s)
    BY <2>2, <2>7, <2>12, CallAssumption DEF IsrGive, Agents
  <2>13. CASE IdleBoot
    BY <2>2, <2>4, <2>13, TaskAssumption DEF IdleBoot
  <2> QED BY <1>2, <2>2, <2>8, <2>10, <2>11, <2>12, <2>13 DEF Next, IsrNext
<1> QED BY <1>1, <1>2

LEMMA LateStart == Init => \A t \in Tasks : WaitOf(t)
BY TaskAssumption DEF Init, WaitOf, Giving, Agents

\* A step of LateSpec is a step of the kernel.
LEMMA LateIsNext == [LateNext]_lateVars => [Next]_vars
BY DEF LateNext, lateVars

\* A task that sleeps in xos_task_delay is woken by the tick handler at its
\* deadline, or earlier by a give of a semaphore that still points at it because
\* a take of its own has timed out; whatever is given where meanwhile, and for
\* any timeouts, nothing else ends its delay.
THEOREM DelaysNeverEarly ==
  ASSUME UptimeBelowWrap
  PROVE  LateSpec => DelayNotEarly
<1> DEFINE A == \A t \in Tasks :
                  /\ pc[t] \in {"run", "selfSwitch"}
                  /\ t \in Range(sleep) /\ t \notin Range(sleep')
                  => \/ ticks >= timeout[t]
                     \/ t \in late /\ \E s \in Sems : waiter[s] = t /\ waiter'[s] = None
<1>1. TypeInv /\ KernelInv /\ LateInv /\ [LateNext]_lateVars
        => TypeInv' /\ KernelInv' /\ LateInv'
  BY LateIsNext, TypeStep, KernelStep, LateStep
<1>2. ASSUME TypeInv, KernelInv, LateInv, Next,
             NEW t \in Tasks, t \in Range(sleep), t \notin Range(sleep'),
             pc[t] \in {"run", "selfSwitch"}
      PROVE  \/ ticks >= timeout[t]
             \/ t \in late /\ \E s \in Sems : waiter[s] = t /\ waiter'[s] = None
  <2> DEFINE Given == t \in late /\ \E s \in Sems : waiter[s] = t /\ waiter'[s] = None
  <2>0. TypeOK
    BY <1>2 DEF TypeInv
  <2>1. ASSUME NEW u \in Tasks, NEW n \in Delays \cup TakeTimeouts,
               sleep' = InsertOrdered(sleep, timeout, Deadline(n), u)
        PROVE  FALSE
    <3>1. Deadline(n) \in Int
      BY <2>0, CallAssumption, TickRange
    <3> QED BY <1>2, <2>0, <2>1, <3>1, SleepWith
  <2>2. ASSUME NEW x \in Agents, NEW s \in Sems, GiveLocked(x, s)
        PROVE  Given
    <3>1. /\ waiter[s] \in Tasks /\ timeout[waiter[s]] > 0
          /\ sleep' = Unlink(sleep, waiter[s])
          /\ waiter' = [waiter EXCEPT ![s] = None]
      BY <1>2, <2>0, <2>2 DEF GiveLocked, Break, listVars, TypeOK
    <3>2. waiter[s] = t
      <4>1. waiter[s] \in Range(sleep)
        BY <1>2, <3>1, NextWhole DEF KernelInv, KernelGood, Consistent
      <4> QED BY <1>2, <2>0, <3>1, <4>1, SleepWithout
    <3>3. ~Parked(t, s)
      BY <1>2 DEF Parked
    <3>4. t \in late
      BY <1>2, <3>2, <3>3 DEF LateInv, WaitOf
    <3>5. waiter'[s] = None
      BY <2>0, <3>1 DEF TypeOK
    <3> QED BY <3>2, <3>4, <3>5
  <2>3. CASE TickWake
    <3>1. /\ sleep # <<>> /\ sleep' = Tail(sleep) /\ Expired(Head(sleep)) /\ fault = "none"
      BY <2>3 DEF TickWake, Executes
    <3>2. t = Head(sleep)
      BY <1>2, <2>0, <3>1, SleepTail
    <3>3. timeout[t] > 0 /\ timeout[t] \in Int
      BY <1>2, <2>0, <3>1 DEF KernelInv, KernelGood, Consistent, TypeOK
    <3> QED BY <3>1, <3>2, <3>3 DEF Expired, Unsigned
  <2>4. CASE UNCHANGED sleep
    BY <1>2, <2>4
  <2>5. ASSUME NEW u \in Tasks, TaskNext(u)
        PROVE  ticks >= timeout[t] \/ Given
    <3>1. CASE \E n \in Delays : Delay(u, n)
      BY <2>1, <3>1 DEF Delay
    <3>2. CASE TakeWait(u)
      <4>1. sleep' = sleep \/ sleep' = InsertOrdered(sleep, timeout, Deadline(call[u].timeout), u)
        BY <3>2 DEF TakeWait
      <4>2. call[u].timeout \in TakeTimeouts \cup {0}
        BY <2>0 DEF TypeOK
      <4>3. Deadline(call[u].timeout) \in Int
        BY <2>0, <4>2, CallAssumption, TickRange
      <4> QED BY <1>2, <2>0, <4>1, <4>3, SleepWith
    <3>3. CASE \E s \in Sems : Give(u, s)
      BY <2>2, <3>3 DEF Give, Agents
    <3>4. CASE \/ \E v \in Tasks : Create(u, v)
               \/ Yield(u) \/ Exit(u)
               \/ \E s \in Sems, n \in TakeTimeouts : TakeCheck(u, s, n)
               \/ TakeFast(u) \/ TakeRecheck(u) \/ TakeReturn(u)
               \/ SelfSwitch(u) \/ TakeSwitch(u)
      BY <2>4, <3>4 DEF Create, StartTask, Yield, Exit, TakeCheck, TakeFast, TakeRecheck,
                        TakeToken, TakeReturn, SelfSwitch, TakeSwitch, TaskSwitch, listVars
    <3> QED BY <2>5, <3>1, <3>2, <3>3, <3>4 DEF TaskNext
  <2>6. CASE \/ \E x \in Agents : GiveNext(x) \/ Switch(x) \/ SwitchFails(x)
             \/ TickStart \/ TickDone \/ IdleBoot \/ IdleReap
    BY <2>4, <2>6 DEF GiveNext, GiveCheck, GiveReady, GiveReadyFails, Switch, SwitchFails,
                      SwitchFault, TaskSwitch, Break, TickStart, TickDone, IdleBoot,
                      StartTask, IdleReap, listVars
  <2>7. CASE \E s \in IsrSems : IsrGive(s)
    BY <2>2, <2>7, CallAssumption DEF IsrGive, Agents
  <2> QED BY <1>2, <2>3, <2>5, <2>6, <2>7 DEF Next, IsrNext
<1>3. TypeInv /\ KernelInv /\ LateInv /\ [LateNext]_lateVars => [A]_lateVars
  BY <1>2 DEF LateNext
<1>4. LateInit => TypeInv /\ KernelInv /\ LateInv
  BY TypeInit, KernelInit, LateStart DEF LateInit, LateInv
<1> QED BY <1>1, <1>3, <1>4, PTL DEF LateSpec, DelayNotEarly
-----------------------------------------------------------------------------
(* What breaks the kernel.                                                  *)

\* Nobody has run yet but IDLE, which starts the timer and creates XosUser.
Booting ==
  /\ current = Idle /\ sleep = <<>> /\ \A s \in Sems : waiter[s] = None
  /\ pc[Isr] \in {"off", "tick"}

HandlerPCs == {"off", "giveCheck", "giveReady", "tick", "tickWoke", "switch"}

\* The current task is linked only by a handler that has still to switch; there
\* is always a task to switch to, because IDLE never waits.
WindowGood ==
  /\ pc[Isr] \in HandlerPCs
  /\ current \in Range(ready) => pc[Isr] \in {"tickWoke", "switch"}
  /\ pc[Isr] \in {"tickWoke", "switch"} => ready # <<>>
  /\ pc[Idle] \in {"boot", "run", "switch"} /\ state[Idle] \in {RUN, READY}
  /\ pc[Idle] \in {"boot", "switch"} => Booting
  /\ pc[Idle] = "switch" => ready # <<>>
WindowInv == fault = "none" => WindowGood

\* A step that keeps the ready list, the current task and IDLE as they are.
LEMMA WindowSame ==
  ASSUME WindowGood, UNCHANGED <<ready, current>>,
         pc'[Isr] \in HandlerPCs,
         pc'[Isr] \in {"tickWoke", "switch"} => pc[Isr] \in {"tickWoke", "switch"},
         pc[Isr] \in {"tickWoke", "switch"} /\ current \in Range(ready) =>
           pc'[Isr] \in {"tickWoke", "switch"},
         pc'[Idle] = pc[Idle], state'[Idle] = state[Idle],
         Booting => UNCHANGED <<sleep, waiter>> /\ pc'[Isr] \in {"off", "tick"}
  PROVE  WindowGood'
BY DEF WindowGood, Booting

\* A switch leaves a current task that is in no list.
LEMMA WindowSwitch ==
  ASSUME UptimeBelowWrap, TypeInv, KernelGood, ReadyGood, WindowGood,
         NEW x, NEW where, NEW self, NEW next \in {"off", "run", "takeRet"},
         TaskSwitch(x, where, self, next),
         where \in {"switch", "selfSwitch", "takeSwitch"},
         where = "switch" => next # "takeRet",
         x = Isr => where = "switch" /\ next = "off",
         x # Isr => next # "off",
         self \/ where = "switch"
  PROVE  WindowGood'
<1>1. /\ Executes(x) /\ pc[x] = where /\ ready # <<>>
      /\ pc' = [pc EXCEPT ![x] = next]
      /\ UNCHANGED <<sleep, waiter>>
      /\ \/ UNCHANGED <<ready, state, current>> /\ Prio[current] < Prio[Head(ready)]
         \/ Dispatch
  BY DEF TaskSwitch, At, Goto, SwitchBreaks, StaysOnCpu, semVars
<1>0. TypeOK
  BY DEF TypeInv
<1>2. /\ x \in Agents /\ Isr \in Agents /\ Idle \in Agents /\ Isr # Idle
      /\ x = Isr \/ (x = current /\ pc[Isr] = "off" /\ x # Isr)
      /\ pc \in [Agents -> PCs] /\ ready \in Seq(Tasks) /\ current \in Tasks
      /\ Idle \in Tasks
  BY <1>0, <1>1, ExecutesWho, TaskAssumption DEF TypeOK, Agents
<1>3. \A y \in Agents : pc'[y] = IF y = x THEN next ELSE pc[y]
  BY <1>1, <1>2
<1>4. pc'[Isr] = "off"
  BY <1>2, <1>3
<1>5. pc'[Idle] = "run"
  <2>1. pc[Idle] \in {"boot", "switch"} => Booting
    BY DEF WindowGood
  <2>2. CASE x = Isr
    <3>1. pc[Idle] = "run"
      BY <1>1, <2>1, <2>2 DEF WindowGood, Booting
    <3> QED BY <1>2, <1>3, <2>2, <3>1
  <2>3. CASE x = Idle
    <3>1. where \in {"boot", "run", "switch"}
      BY <1>1, <2>3 DEF WindowGood
    <3>2. where = "switch" /\ next = "run"
      BY <1>2, <2>3, <3>1
    <3> QED BY <1>2, <1>3, <2>3, <3>2
  <2>4. CASE x # Isr /\ x # Idle
    <3>1. pc[Idle] = "run"
      BY <1>2, <2>1, <2>4 DEF WindowGood, Booting
    <3> QED BY <1>2, <1>3, <2>4, <3>1
  <2> QED BY <2>2, <2>3, <2>4
<1>6. current' \notin Range(ready')
  <2>1. CASE Dispatch
    <3>1. Consistent'
      BY SwitchGood DEF KernelGood
    <3>2. state'[current'] = RUN /\ current' \in Tasks
      <4>1. Head(ready) \in Tasks
        BY <1>1, <1>2, HeadLinked
      <4> QED BY <2>1, <4>1 DEF Dispatch
    <3> QED BY <3>1, <3>2 DEF Consistent, READY, RUN
  <2>2. CASE UNCHANGED <<ready, state, current>> /\ Prio[current] < Prio[Head(ready)]
    <3>1. \A t \in Range(ready) : t \in Tasks /\ Prio[Head(ready)] <= Prio[t]
      BY <1>1, <1>2, HeadLinked, TailSorted, RangeByPlace DEF ReadyGood
    <3>2. Head(ready) \in Tasks
      BY <1>1, <1>2, HeadLinked
    <3> QED BY <1>2, <2>2, <3>1, <3>2, PrioIsKey
  <2> QED BY <1>1, <2>1, <2>2
<1>7. state'[Idle] \in {RUN, READY}
  <2>1. state[Idle] \in {RUN, READY}
    BY DEF WindowGood
  <2>2. CASE Dispatch
    BY <1>2, <2>1, <2>2 DEF Dispatch
  <2> QED BY <1>1, <2>1, <2>2
<1> QED BY <1>4, <1>5, <1>6, <1>7 DEF WindowGood, HandlerPCs

\* A task that joins the ready list, while IDLE runs for the first time or
\* after it has.
LEMMA WindowReady ==
  ASSUME TypeOK, WindowGood, NEW t \in Tasks, MakeReady(t), UNCHANGED current,
         t = current \/ current \in Range(ready) => pc'[Isr] \in {"tickWoke", "switch"},
         pc'[Isr] \in HandlerPCs,
         pc'[Idle] \in {"run", "switch"},
         pc'[Idle] = "switch" => Booting'
  PROVE  WindowGood'
<1>1. /\ ready' = InsertOrdered(ready, Prio, Prio[t], t)
      /\ state' = [state EXCEPT ![t] = READY]
      /\ ready \in Seq(Tasks) /\ Prio[t] \in Int
  BY PrioIsKey DEF MakeReady, TypeOK
<1>2. /\ ready' # <<>>
      /\ \A y : y \in Range(ready') <=> y \in Range(ready) \/ y = t
  BY <1>1, PrioIsKey, InsertOrderedLinks
<1>3. state'[Idle] \in {RUN, READY}
  BY <1>1, TaskAssumption DEF WindowGood, TypeOK
<1> QED BY <1>2, <1>3 DEF WindowGood

LEMMA WindowStep ==
  ASSUME UptimeBelowWrap, TypeInv, KernelInv, ReadyInv, WindowInv, [Next]_vars
  PROVE  WindowInv'
<1> SUFFICES ASSUME fault' = "none"
             PROVE  WindowGood'
  BY DEF WindowInv
<1>0. /\ pc \in [Agents -> PCs] /\ Tasks \subseteq Agents /\ Isr \notin Tasks
      /\ Isr \in Agents /\ IsrSems \subseteq Sems /\ None \notin Tasks
      /\ Idle \in Tasks /\ User \in Tasks
      /\ state \in [Tasks -> {READY, RUN, WAIT, DEAD, FREE}]
      /\ \A x \in Agents : x \in Tasks \/ x = Isr
      /\ TypeOK
  BY TaskAssumption, CallAssumption DEF TypeInv, TypeOK, Agents
<1>1. CASE UNCHANGED vars
  <2>1. WindowGood
    BY <1>1 DEF vars, WindowInv
  <2> QED BY <1>1, <2>1, WindowSame DEF vars, semVars, Booting, WindowGood
<1>2. ASSUME NEW c \in Tasks, NEW t \in Tasks, StartTask(c, t),
             \/ c # Idle /\ At(c, "run")
             \/ c = Idle /\ At(c, "boot")
      PROVE  WindowGood'
  <2>1. /\ Executes(c) /\ MakeReady(t) /\ state[t] = FREE /\ WindowGood /\ KernelGood
        /\ pc[c] \in {"run", "boot"} /\ (pc[c] = "boot" => c = Idle)
        /\ pc' = [pc EXCEPT ![c] = "switch", ![t] = "run"]
        /\ UNCHANGED <<sleep, current, waiter>>
    BY <1>2 DEF StartTask, At, Executes, WindowInv, KernelInv, semVars
  <2>2. /\ c = current /\ pc[Isr] = "off" /\ state[c] = RUN
    BY <1>0, <2>1, CallerRuns, ExecutesWho
  <2>3. t # c /\ t # Idle
    BY <2>1, <2>2 DEF WindowGood, RUN, READY, FREE
  <2>4. /\ \A y \in Agents : pc'[y] = IF y = t THEN "run" ELSE IF y = c THEN "switch" ELSE pc[y]
    BY <1>0, <2>1
  <2>5. pc'[Isr] = "off"
    BY <1>0, <2>2, <2>4
  <2>6. CASE c = Idle
    <3>1. pc[Idle] = "boot"
      BY <1>2, <2>6 DEF At
    <3>2. Booting
      BY <2>1, <3>1 DEF WindowGood
    <3>3. pc'[Idle] = "switch"
      BY <1>0, <2>3, <2>4, <2>6
    <3> QED BY <1>0, <2>1, <2>2, <2>3, <2>5, <3>2, <3>3, WindowReady DEF Booting, WindowGood, HandlerPCs
  <2>7. CASE c # Idle
    <3>1. pc'[Idle] = "run"
      BY <1>0, <2>1, <2>2, <2>3, <2>4, <2>7 DEF WindowGood, Booting
    <3> QED BY <1>0, <2>1, <2>2, <2>3, <2>5, <3>1, WindowReady DEF WindowGood, HandlerPCs
  <2> QED BY <2>6, <2>7
<1>3. ASSUME NEW t \in Tasks,
             \/ \E n \in Delays : Delay(t, n)
             \/ Yield(t) \/ Exit(t)
             \/ \E s \in Sems, n \in TakeTimeouts : TakeCheck(t, s, n)
             \/ TakeFast(t) \/ TakeRecheck(t) \/ TakeWait(t) \/ TakeReturn(t)
      PROVE  WindowGood'
  <2>1. /\ Executes(t) /\ WindowGood /\ UNCHANGED <<ready, current>>
        /\ \/ pc[t] = "run" /\ t # Idle
           \/ pc[t] \in {"takeFast", "takeLock", "takeRet"}
        /\ pc' = pc \/ \E where : pc' = [pc EXCEPT ![t] = where]
        /\ state' = state \/ \E what : state' = [state EXCEPT ![t] = what]
    BY <1>3, CallAssumption
    DEF Delay, Yield, Exit, TakeCheck, TakeFast, TakeRecheck, TakeToken, TakeWait, TakeReturn,
        At, Executes, Goto, WindowInv, listVars
  <2>2. t = current /\ pc[Isr] = "off"
    BY <1>0, <2>1, ExecutesWho
  <2>3. t # Idle
    BY <2>1 DEF WindowGood
  <2>4. pc'[Isr] = pc[Isr] /\ pc'[Idle] = pc[Idle] /\ state'[Idle] = state[Idle]
    BY <1>0, <2>1, <2>3
  <2> QED BY <2>1, <2>2, <2>3, <2>4, WindowSame DEF Booting, HandlerPCs
<1>4. ASSUME NEW x \in Agents, NEW s \in Sems, GiveLocked(x, s), fault = "none",
             \/ x = Isr /\ pc[Isr] = "off"
             \/ x \in Tasks /\ x # Idle /\ Executes(x)
      PROVE  WindowGood'
  <2>1. /\ WindowGood /\ UNCHANGED <<ready, current, state>>
        /\ pc' = [pc EXCEPT ![x] = Home(x)] \/ pc' = [pc EXCEPT ![x] = "giveCheck"]
        /\ waiter[s] = None =>
             UNCHANGED <<sleep, waiter>> /\ pc' = [pc EXCEPT ![x] = Home(x)]
    BY <1>4 DEF GiveLocked, Break, Goto, WindowInv, listVars
  <2>2. pc[Isr] = "off" /\ x # Idle /\ (x \in Tasks => x = current)
    BY <1>0, <1>4, ExecutesWho
  <2>3. /\ pc'[Idle] = pc[Idle] /\ pc'[Isr] \in {"off", "giveCheck"}
        /\ waiter[s] = None => pc'[Isr] = "off"
    BY <1>0, <2>1, <2>2 DEF Home
  <2>4. Booting => UNCHANGED <<sleep, waiter>> /\ pc'[Isr] = "off"
    BY <2>1, <2>3 DEF Booting
  <2> QED BY <2>1, <2>2, <2>3, <2>4, WindowSame DEF HandlerPCs
<1>5. ASSUME NEW x \in Agents, GiveCheck(x)
      PROVE  WindowGood'
  <2>1. /\ WindowGood /\ UNCHANGED <<ready, current, state>> /\ pc[x] = "giveCheck"
        /\ Executes(x)
        /\ pc' = [pc EXCEPT ![x] = Home(x)] \/ pc' = [pc EXCEPT ![x] = "giveReady"]
    BY <1>5 DEF GiveCheck, At, Executes, Goto, WindowInv, listVars
  <2>2. x # Idle /\ ~Booting
    BY <1>0, <2>1, ExecutesWho DEF WindowGood, Booting
  <2>3. pc'[Idle] = pc[Idle] /\ (pc'[Isr] = pc[Isr] \/ pc'[Isr] \in {"off", "giveReady"})
    BY <1>0, <2>1, <2>2 DEF Home
  <2>4. pc[Isr] \in {"off", "giveCheck"}
    BY <1>0, <2>1, ExecutesWho
  <2> QED BY <2>1, <2>2, <2>3, <2>4, WindowSame DEF HandlerPCs
<1>6. ASSUME NEW x \in Agents, GiveReady(x)
      PROVE  WindowGood'
  <2>1. /\ WindowGood /\ KernelGood /\ UNCHANGED current /\ MakeReady(target[x])
        /\ Executes(x) /\ pc[x] = "giveReady"
        /\ pc' = [pc EXCEPT ![x] = "switch"]
    BY <1>6 DEF GiveReady, At, Executes, Goto, WindowInv, KernelInv
  <2>2. /\ target[x] \in Tasks /\ pc[Idle] = "run" /\ x # Idle
    BY <1>0, <2>1, ExecutesWho DEF TypeInv, WindowGood, Booting
  <2>3. pc'[Idle] = "run" /\ (x = Isr => pc'[Isr] = "switch")
    BY <1>0, <2>1, <2>2
  <2>4. x # Isr => target[x] # current /\ current \notin Range(ready)
    BY <1>0, <2>1, ExecutesWho DEF KernelGood, GiveWakes, WindowGood
  <2> QED BY <1>0, <2>1, <2>2, <2>3, <2>4, WindowReady DEF WindowGood, HandlerPCs
<1>7. ASSUME NEW x \in Agents, Switch(x)
      PROVE  WindowGood'
  <2>1. /\ KernelGood /\ ReadyGood /\ WindowGood /\ (x \in Tasks => x # Isr)
    BY <1>0, <1>7 DEF Switch, TaskSwitch, At, Executes, KernelInv, ReadyInv, WindowInv
  <2> QED BY <1>7, <2>1, WindowSwitch DEF Switch, Home
<1>8. ASSUME NEW t \in Tasks, SelfSwitch(t) \/ TakeSwitch(t)
      PROVE  WindowGood'
  <2>1. KernelGood /\ ReadyGood /\ WindowGood /\ t # Isr
    BY <1>0, <1>8 DEF SelfSwitch, TakeSwitch, TaskSwitch, At, Executes, KernelInv, ReadyInv,
                      WindowInv
  <2> QED BY <1>8, <2>1, WindowSwitch DEF SelfSwitch, TakeSwitch
<1>9. CASE TickStart \/ TickDone \/ IdleReap
  <2>1. /\ WindowGood /\ KernelGood /\ UNCHANGED <<ready, current, sleep, waiter>>
        /\ \/ pc[Isr] = "off" /\ pc' = [pc EXCEPT ![Isr] = "tick"]
           \/ pc[Isr] = "tick" /\ pc' = [pc EXCEPT ![Isr] = "off"]
           \/ pc[Isr] = "tickWoke" /\ pc' = [pc EXCEPT ![Isr] = "switch"]
           \/ pc' = pc
        /\ \/ UNCHANGED state
           \/ state' = [t \in Tasks |-> IF t \in dead THEN FREE ELSE state[t]]
    BY <1>9 DEF TickStart, TickDone, IdleReap, At, Executes, Goto, WindowInv, KernelInv,
                listVars, semVars
  <2>2. /\ pc'[Idle] = pc[Idle]
        /\ \/ pc'[Isr] = pc[Isr]
           \/ pc[Isr] \in {"off", "tick"} /\ pc'[Isr] \in {"off", "tick"}
           \/ pc[Isr] = "tickWoke" /\ pc'[Isr] = "switch"
    BY <1>0, <2>1
  <2>3. pc'[Isr] \in HandlerPCs
    BY <2>1, <2>2 DEF WindowGood, HandlerPCs
  <2>4. state'[Idle] = state[Idle]
    BY <1>0, <2>1 DEF WindowGood, KernelGood, Consistent, RUN, READY, DEAD
  <2> QED BY <2>1, <2>2, <2>3, <2>4, WindowSame DEF Booting, HandlerPCs
<1>10. CASE TickWake
  <2>1. /\ WindowGood /\ UNCHANGED current /\ MakeReady(Head(sleep)) /\ sleep # <<>>
        /\ pc' = [pc EXCEPT ![Isr] = "tickWoke"]
    BY <1>10 DEF TickWake, Executes, Goto, WindowInv
  <2>2. Head(sleep) \in Tasks
    BY <1>0, <2>1, SleepTail
  <2>3. pc'[Isr] = "tickWoke" /\ pc'[Idle] = "run"
    BY <1>0, <2>1 DEF WindowGood, Booting
  <2> QED BY <1>0, <2>1, <2>2, <2>3, WindowReady DEF HandlerPCs
<1>11. ASSUME NEW t \in Tasks, TaskNext(t)
       PROVE  WindowGood'
  <2>1. CASE \E u \in Tasks : Create(t, u)
    BY <1>2, <2>1 DEF Create
  <2>2. CASE \E s \in Sems : Give(t, s)
    BY <1>0, <1>4, <2>2, CallAssumption DEF Give, At, Executes
  <2> QED BY <1>3, <1>8, <1>11, <2>1, <2>2 DEF TaskNext
<1>12. CASE IsrNext
  <2>1. CASE \E s \in IsrSems : IsrGive(s)
    BY <1>0, <1>4, <2>1 DEF IsrGive
  <2> QED BY <1>9, <1>10, <1>12, <2>1 DEF IsrNext
<1>13. CASE IdleBoot
  BY <1>0, <1>2, <1>13 DEF IdleBoot
<1>14. \A x \in Agents : ~SwitchFails(x) /\ ~GiveReadyFails(x)
  BY DEF SwitchFails, SwitchFault, GiveReadyFails, Break
<1> QED BY <1>1, <1>5, <1>6, <1>7, <1>9, <1>11, <1>12, <1>13, <1>14 DEF Next, GiveNext

LEMMA WindowInit == Init => WindowInv
<1>1. Range(<<>>) = {}
  BY DEF Range
<1> QED BY <1>1, TaskAssumption DEF Init, WindowInv, WindowGood, Booting, Agents, HandlerPCs

\* The steps that break the kernel.
LEMMA WhoBreaks ==
  ASSUME TypeInv, Next, UNCHANGED fault => FALSE
  PROVE  /\ fault = "none"
         /\ \/ \E x \in Agents : SwitchFails(x) \/ GiveReadyFails(x)
            \/ \E s \in Sems :
                 waiter[s] # None /\ state[waiter[s]] = FREE /\ Break("freed")
<1>1. ASSUME NEW x \in Agents, NEW s \in Sems, GiveLocked(x, s)
      PROVE  waiter[s] # None /\ state[waiter[s]] = FREE /\ Break("freed")
  BY <1>1 DEF GiveLocked
<1>2. ASSUME NEW t \in Tasks, TaskNext(t)
      PROVE  /\ fault = "none"
             /\ \E s \in Sems :
                  waiter[s] # None /\ state[waiter[s]] = FREE /\ Break("freed")
  <2>1. CASE \E s \in Sems : Give(t, s)
    BY <1>1, <2>1 DEF Give, At, Executes, Agents
  <2>2. CASE \/ \E u \in Tasks : Create(t, u)
             \/ \E n \in Delays : Delay(t, n)
             \/ Yield(t) \/ Exit(t)
             \/ \E s \in Sems, n \in TakeTimeouts : TakeCheck(t, s, n)
    BY <2>2 DEF Create, StartTask, Delay, Yield, Exit, TakeCheck
  <2>3. CASE \/ TakeFast(t) \/ TakeRecheck(t) \/ TakeWait(t) \/ TakeReturn(t)
             \/ SelfSwitch(t) \/ TakeSwitch(t)
    BY <2>3 DEF TakeFast, TakeRecheck, TakeToken, TakeWait, TakeReturn,
                SelfSwitch, TakeSwitch, TaskSwitch
  <2> QED BY <1>2, <2>1, <2>2, <2>3 DEF TaskNext
<1>3. ASSUME NEW x \in Agents, GiveNext(x) \/ Switch(x) \/ SwitchFails(x)
      PROVE  fault = "none" /\ (SwitchFails(x) \/ GiveReadyFails(x))
  BY <1>3 DEF GiveNext, GiveCheck, GiveReady, GiveReadyFails, Switch, TaskSwitch,
              SwitchFails, SwitchFault, At, Executes
<1>4. CASE IsrNext
  <2>1. CASE \E s \in IsrSems : IsrGive(s)
    BY <1>1, <2>1, CallAssumption DEF IsrGive, Agents
  <2>2. CASE TickStart \/ TickWake \/ TickDone
    BY <2>2 DEF TickStart, TickWake, TickDone
  <2> QED BY <1>4, <2>1, <2>2 DEF IsrNext
<1>5. ~IdleBoot /\ ~IdleReap
  BY DEF IdleBoot, IdleReap, StartTask
<1>6. Isr \in Agents
  BY DEF Agents
<1> QED BY <1>2, <1>3, <1>4, <1>5, <1>6 DEF Next

\* A switch fails only when a handler has woken the current task before that
\* task has left its processor.
LEMMA SwitchFailsInWindow ==
  ASSUME TypeInv, KernelGood, ReadyGood, WindowGood,
         NEW x, NEW where, NEW self, SwitchFault(x, where, self),
         where \in {"switch", "selfSwitch", "takeSwitch"}
  PROVE  WokenInWindow'
<1>0. TypeOK
  BY DEF TypeInv
<1>1. /\ Executes(x) /\ pc[x] = where /\ SwitchBreaks(self)
      /\ fault' = IF ready = <<>> THEN "nullHead" ELSE "relink"
      /\ UNCHANGED <<ready, state, current, pc>>
  BY DEF SwitchFault, At, Break
<1>2. /\ x = Isr \/ (x = current /\ pc[Isr] = "off" /\ x # Isr)
      /\ x = Isr => pc[Isr] = "switch"
      /\ current \in Tasks /\ Idle \in Tasks
  BY <1>0, <1>1, ExecutesWho, TaskAssumption DEF TypeOK, WindowGood, HandlerPCs
<1>3. ready # <<>>
  <2>1. CASE x = Isr
    BY <1>2, <2>1 DEF WindowGood
  <2>2. CASE x # Isr /\ current = Idle
    BY <1>1, <1>2, <2>2 DEF WindowGood
  <2>3. CASE x # Isr /\ current # Idle
    <3>1. state[Idle] = READY
      BY <1>2, <2>3 DEF KernelGood, Consistent, WindowGood
    <3>2. Idle \in Range(ready)
      BY <1>2, <2>3, <3>1 DEF KernelGood, Consistent
    <3> QED BY <3>2 DEF Range
  <2> QED BY <2>1, <2>2, <2>3
<1>4. ~StaysOnCpu(self) /\ Requeues /\ Linked(current)
  BY <1>1, <1>3 DEF SwitchBreaks
<1>5. state[current] = READY /\ current \in Range(ready)
  <2>1. state[current] # RUN
    BY <1>2, <1>4 DEF Linked, KernelGood, Consistent, READY, RUN, WAIT, DEAD
  <2>2. state[current] = READY
    BY <1>4, <2>1 DEF Requeues
  <2> QED BY <1>2, <1>4, <2>2 DEF Linked, KernelGood, Consistent, READY, WAIT, DEAD
<1>6. pc[current] \in {"selfSwitch", "takeSwitch"}
  BY <1>5 DEF KernelGood, CurrentRuns, READY, RUN
<1>7. pc[Isr] = "switch"
  BY <1>2, <1>5 DEF WindowGood
<1> QED BY <1>1, <1>3, <1>5, <1>6, <1>7 DEF WokenInWindow

\* A handler runs to its end: nobody links the task that its give has found.
HandlerGives == Giving(Isr) => ~(timeout[target[Isr]] > 0)

LEMMA HandlerGivesStep ==
  ASSUME TypeInv, HandlerGives, [Next]_vars
  PROVE  HandlerGives'
<1>0. /\ pc \in [Agents -> PCs] /\ Tasks \subseteq Agents /\ Isr \notin Tasks /\ Isr \in Agents
      /\ timeout \in [Tasks -> Int] /\ target \in [Agents -> Tasks \cup {None}] /\ TypeOK
      /\ \A x \in Agents : x \in Tasks \/ x = Isr
      /\ waiter \in [Sems -> Tasks \cup {None}]
  BY TaskAssumption DEF TypeInv, TypeOK, Agents
<1>1. CASE UNCHANGED vars
  BY <1>1 DEF HandlerGives, vars, localVars, Giving
<1>2. ASSUME UNCHANGED <<timeout, target>>, Giving(Isr)' => Giving(Isr)
      PROVE  HandlerGives'
  BY <1>2 DEF HandlerGives
<1>3. ASSUME NEW t \in Tasks, TaskNext(t)
      PROVE  ~Giving(Isr)'
  <2>1. Executes(t)
    BY <1>3 DEF TaskNext, Create, Delay, Yield, Exit, TakeCheck, TakeFast, TakeRecheck,
                TakeToken, TakeWait, TakeReturn, Give, SelfSwitch, TakeSwitch, TaskSwitch, At
  <2>2. pc[Isr] = "off"
    BY <1>0, <2>1, ExecutesWho
  <2>3. CASE \E s \in Sems : Give(t, s)
    <3>1. \/ pc' = pc \/ pc' = [pc EXCEPT ![t] = Home(t)] \/ pc' = [pc EXCEPT ![t] = "giveCheck"]
      BY <2>3 DEF Give, GiveLocked, Break, Goto
    <3> QED BY <1>0, <2>2, <3>1 DEF Giving
  <2>4. CASE \E u \in Tasks : Create(t, u)
    <3>1. PICK u \in Tasks : pc' = [pc EXCEPT ![t] = "switch", ![u] = "run"]
      BY <2>4 DEF Create, StartTask
    <3> QED BY <1>0, <2>2, <3>1 DEF Giving
  <2>5. CASE \/ \E n \in Delays : Delay(t, n)
             \/ Yield(t) \/ Exit(t)
             \/ \E s \in Sems, n \in TakeTimeouts : TakeCheck(t, s, n)
             \/ TakeFast(t) \/ TakeRecheck(t) \/ TakeWait(t) \/ TakeReturn(t)
             \/ SelfSwitch(t) \/ TakeSwitch(t)
    <3>1. pc' = pc \/ \E where : pc' = [pc EXCEPT ![t] = where]
      BY <2>5 DEF Delay, Yield, Exit, TakeCheck, TakeFast, TakeRecheck, TakeToken, TakeWait,
                  TakeReturn, SelfSwitch, TakeSwitch, TaskSwitch, Goto
    <3> QED BY <1>0, <2>2, <3>1 DEF Giving
  <2> QED BY <1>3, <2>3, <2>4, <2>5 DEF TaskNext
<1>4. ASSUME NEW s \in Sems, GiveLocked(Isr, s), pc[Isr] = "off"
      PROVE  HandlerGives'
  <2>1. CASE waiter[s] = None \/ state[waiter[s]] = FREE
    <3>1. pc' = pc \/ pc' = [pc EXCEPT ![Isr] = Home(Isr)]
      BY <1>4, <2>1 DEF GiveLocked, Break, Goto
    <3> QED BY <1>0, <1>4, <3>1 DEF HandlerGives, Giving, Home
  <2>2. CASE waiter[s] # None /\ state[waiter[s]] # FREE
    <3>1. /\ target' = [target EXCEPT ![Isr] = waiter[s]] /\ waiter[s] \in Tasks
          /\ IF timeout[waiter[s]] > 0 THEN timeout' = [timeout EXCEPT ![waiter[s]] = 0]
                                       ELSE UNCHANGED timeout
      BY <1>0, <1>4, <2>2 DEF GiveLocked
    <3>2. target'[Isr] = waiter[s] /\ ~(timeout'[waiter[s]] > 0)
      BY <1>0, <3>1
    <3> QED BY <3>2 DEF HandlerGives
  <2> QED BY <2>1, <2>2
<1>5. ASSUME NEW x \in Agents, GiveNext(x) \/ Switch(x) \/ SwitchFails(x)
      PROVE  HandlerGives'
  <2>1. /\ UNCHANGED <<timeout, target>>
        /\ \/ pc' = pc
           \/ \E where \in PCs \ {"giveCheck", "giveReady"} : pc' = [pc EXCEPT ![x] = where]
           \/ pc[x] = "giveCheck" /\ pc' = [pc EXCEPT ![x] = "giveReady"]
    BY <1>5 DEF GiveNext, GiveCheck, GiveReady, GiveReadyFails, Switch, TaskSwitch, SwitchFails,
                SwitchFault, Break, At, Goto, Home, PCs, localVars
  <2> QED BY <1>0, <1>2, <2>1 DEF Giving
<1>6. CASE TickStart \/ TickWake \/ TickDone
  <2>1. \E where \in {"tick", "tickWoke", "switch", "off"} : pc' = [pc EXCEPT ![Isr] = where]
    BY <1>6 DEF TickStart, TickWake, TickDone, Goto
  <2> QED BY <1>0, <2>1 DEF HandlerGives, Giving
<1>7. CASE \E s \in IsrSems : IsrGive(s)
  BY <1>4, <1>7, CallAssumption DEF IsrGive
<1>8. CASE IdleBoot \/ IdleReap
  <2>1. Executes(Idle) /\ (pc' = pc \/ pc' = [pc EXCEPT ![Idle] = "switch", ![User] = "run"])
    BY <1>8 DEF IdleBoot, IdleReap, StartTask, At
  <2>2. pc[Isr] = "off"
    BY <1>0, <2>1, ExecutesWho, TaskAssumption
  <2> QED BY <1>0, <2>1, <2>2, TaskAssumption DEF HandlerGives, Giving
<1>9. (\E t \in Tasks : TaskNext(t)) => HandlerGives'
  BY <1>3 DEF HandlerGives
<1> QED BY <1>1, <1>5, <1>6, <1>7, <1>8, <1>9 DEF Next, IsrNext

\* The kernel breaks in two ways only: a handler wakes the current task between
\* the unlock of its blocking call and its _task_switch, so that the switch
\* links it twice; or a give works on a task whose take the timer has ended, and
\* finds its TCB freed, or links it after it has come back and waits again.  No
\* list is ever empty when a switch needs a task.
THEOREM BreaksNoOtherWay ==
  ASSUME UptimeBelowWrap
  PROVE  LateSpec => []BreaksTwoWays
<1> DEFINE Inv == /\ TypeInv /\ KernelInv /\ ReadyInv /\ LateInv /\ WindowInv
                  /\ HandlerGives
<1>1. Inv /\ [LateNext]_lateVars => Inv'
  BY LateIsNext, TypeStep, KernelStep, ReadyStep, LateStep, WindowStep, HandlerGivesStep
<1>2. ASSUME Inv, BreaksTwoWays, [LateNext]_lateVars
      PROVE  BreaksTwoWays'
  <2>1. CASE fault' = "none"
    BY <2>1 DEF BreaksTwoWays
  <2>2. CASE UNCHANGED lateVars
    BY <1>2, <2>2 DEF BreaksTwoWays, WokenInWindow, WokenLate, Linked, lateVars, vars, localVars
  <2>3. CASE LateNext /\ fault' # "none"
    <3>0. Next /\ Remember /\ fault = "none" /\ TypeOK
      BY <1>2, <2>3, NextWhole DEF LateNext, TypeInv
    <3>1. KernelGood /\ ReadyGood /\ WindowGood
      BY <1>2, <3>0 DEF KernelInv, ReadyInv, WindowInv
    <3>2. ASSUME NEW t \in Tasks, t \in late, Pointed(t)
          PROVE  UNCHANGED <<waiter, pc, target>> => t \in late'
      BY <3>0, <3>2 DEF Remember, Pointed, Giving
    <3>3. ASSUME NEW s \in Sems, waiter[s] # None, state[waiter[s]] = FREE, Break("freed")
          PROVE  \E t \in late' : WokenLate(t)'
      <4>1. waiter[s] \in Tasks
        BY <3>0, <3>3 DEF TypeOK
      <4>2. waiter[s] \in late
        BY <1>2, <3>3, <4>1 DEF LateInv, WaitOf, WAIT, FREE
      <4>3. waiter[s] \in late'
        BY <3>2, <3>3, <4>1, <4>2 DEF Pointed, Break
      <4> QED BY <3>3, <4>3 DEF WokenLate, Break
    <3>4. ASSUME NEW x \in Agents, GiveReadyFails(x)
          PROVE  \E t \in late' : WokenLate(t)'
      <4>0. PICK t \in Tasks : t = target[x]
        BY <1>2, <3>4 DEF GiveReadyFails, At, TypeInv
      <4>1. /\ Executes(x) /\ pc[x] = "giveReady" /\ target[x] = t
            /\ state[t] = FREE \/ Linked(t)
            /\ Break(IF state[t] = FREE THEN "freed" ELSE "relink")
        BY <3>4, <4>0 DEF GiveReadyFails, At
      <4>2. UNCHANGED <<ready, sleep, dead, state, current, waiter, pc, target>>
        BY <4>1 DEF Break
      <4>3. ~(state[t] = WAIT /\ ~(timeout[t] > 0))
        BY <3>1, <4>1 DEF Linked, KernelGood, Consistent, READY, WAIT, DEAD, FREE
      <4>4. t \in late
        BY <1>2, <4>1, <4>3 DEF LateInv, WaitOf, Giving
      <4>5. t \in late'
        BY <3>2, <4>1, <4>2, <4>4 DEF Pointed, Giving
      <4>6. CASE state[t] = FREE
        BY <4>1, <4>2, <4>5, <4>6 DEF WokenLate, Break
      <4>7. CASE state[t] # FREE
        <5>1. x # Isr
          <6>1. SUFFICES ASSUME x = Isr PROVE FALSE
            OBVIOUS
          <6>2. state[t] = WAIT
            BY <3>1, <4>1, <6>1 DEF KernelGood, GiveWakes
          <6>3. ~(timeout[t] > 0)
            BY <1>2, <4>1, <6>1 DEF HandlerGives, Giving
          <6> QED BY <4>3, <6>2, <6>3
        <5>2. x = current
          BY <3>0, <4>1, <5>1, ExecutesWho
        <5>3. Linked(t)'
          BY <4>1, <4>2, <4>7 DEF Linked
        <5> QED BY <4>1, <4>2, <4>5, <4>7, <5>2, <5>3 DEF WokenLate, Break
      <4> QED BY <4>6, <4>7
    <3>5. ASSUME NEW x \in Agents, SwitchFails(x)
          PROVE  WokenInWindow'
      BY <1>2, <3>1, <3>5, SwitchFailsInWindow DEF SwitchFails
    <3>6. /\ UNCHANGED fault => FALSE
      BY <2>3, <3>0
    <3> QED BY <1>2, <3>0, <3>3, <3>4, <3>5, <3>6, WhoBreaks DEF BreaksTwoWays
  <2> QED BY <1>2, <2>1, <2>2, <2>3
<1>3. LateInit => BreaksTwoWays
  BY DEF LateInit, Init, BreaksTwoWays
<1>4. Init => HandlerGives
  BY TaskAssumption DEF Init, HandlerGives, Giving, Agents
<1>5. LateInit => Inv
  BY <1>4, TypeInit, KernelInit, ReadyInit, LateStart, WindowInit DEF LateInit, LateInv
<1> QED BY <1>1, <1>2, <1>3, <1>5, PTL DEF LateSpec

\* The invariant itself, for every set of tasks and semaphores.
THEOREM KernelAlwaysGood ==
  ASSUME UptimeBelowWrap
  PROVE  Spec => []KernelInv
<1>1. TypeInv /\ KernelInv /\ [Next]_vars => TypeInv' /\ KernelInv'
  BY TypeStep, KernelStep
<1> QED BY TypeInit, KernelInit, <1>1, PTL DEF Spec
-----------------------------------------------------------------------------
(* Semaphores implement XosSemaphore.  What a task finds when its take ends *)
(* must have been put there by the give that woke it: a give still under    *)
(* way must not reach a task that has come back and waits again.            *)

\* A task takes one semaphore only.
OneSemaphore == \A r, s \in Sems : r # s => Takers[r] \cap Takers[s] = {}

\* A give works on a task that no semaphore points at.
GiverInv ==
  \A x \in Agents : Giving(x) => \A s \in Sems : waiter[s] # target[x]

\* Counts are what they say, and a semaphore points at its taker.
ValueInv ==
  /\ \A s \in Sems : waiter[s] \in Takers[s] \cup {None} /\ value[s] >= 0
  /\ \A t \in Tasks : pc[t] = "takeFast" => value[call[t].sem] > 0

\* What a task that waits will return: 0 once a give has cleared sem->tcb, -1
\* before, and a task that waits for ever cannot be woken before.
AnswerInv ==
  \A t \in Tasks, s \in Sems : Parked(t, s) =>
    /\ waiter[s] # t => retv[t] = 0
    /\ waiter[s] = t /\ call[t].timeout > 0 => retv[t] = -1
    /\ waiter[s] = t /\ ~(call[t].timeout > 0) => Blocked(t)

LEMMA TakersAreTasks ==
  /\ \A s \in Sems : Takers[s] \subseteq Tasks
  /\ None \notin Tasks /\ Isr \notin Tasks /\ Tasks \subseteq Agents /\ Isr \in Agents
  /\ IsrSems \subseteq Sems /\ \A x \in Agents : x \in Tasks \/ x = Isr
BY TaskAssumption, CallAssumption DEF Agents

LEMMA ValueSame ==
  ASSUME ValueInv, UNCHANGED <<value, waiter>>,
         \A t \in Tasks : pc'[t] = "takeFast" => pc[t] = "takeFast" /\ call'[t] = call[t]
  PROVE  ValueInv'
BY DEF ValueInv

\* The steps of xos_sem_take and xos_sem_give that a caller can notice.
SemAction ==
  \/ \E t \in Tasks :
       \/ \E s \in Sems, n \in TakeTimeouts : TakeCheck(t, s, n)
       \/ TakeFast(t) \/ TakeRecheck(t) \/ TakeWait(t) \/ TakeReturn(t)
  \/ \E x \in Agents, s \in Sems :
       /\ GiveLocked(x, s)
       /\ x \in Tasks => At(x, "run") /\ x \in Givers[s]
       /\ x = Isr => pc[Isr] = "off"

\* Every step but those of the semaphores leaves counts, waiters and arguments.
LEMMA CallSame ==
  ASSUME TypeInv, Next, ~SemAction
  PROVE  /\ UNCHANGED <<value, waiter, call, result>>
         /\ \A t \in Tasks :
              \/ pc'[t] = pc[t]
              \/ pc[t] = "takeSwitch" /\ pc'[t] = "takeRet"
              \/ ~InTake(t) /\ pc'[t] \notin {"takeFast", "takeLock", "takeSwitch", "takeRet"}
              \/ state[t] = FREE /\ pc'[t] = "run"
<1>0. pc \in [Agents -> PCs]
  BY DEF TypeInv, TypeOK
<1>1. ASSUME NEW c \in Tasks, NEW t \in Tasks, At(c, "run") \/ At(c, "boot"), StartTask(c, t)
      PROVE  /\ UNCHANGED <<value, waiter, call, result>>
             /\ \A u \in Tasks :
                  \/ pc'[u] = pc[u]
                  \/ ~InTake(u) /\ pc'[u] \notin {"takeFast", "takeLock", "takeSwitch", "takeRet"}
                  \/ state[u] = FREE /\ pc'[u] = "run"
  <2>1. /\ UNCHANGED <<value, waiter, call, result>> /\ state[t] = FREE
        /\ pc' = [pc EXCEPT ![c] = "switch", ![t] = "run"] /\ pc[c] \in {"run", "boot"}
    BY <1>1 DEF StartTask, At, semVars, localVars
  <2> QED BY <1>0, <2>1, TakersAreTasks DEF InTake
<1>2. ASSUME NEW x \in Agents,
             \/ \E n \in Delays : Delay(x, n)
             \/ Yield(x) \/ Exit(x) \/ SelfSwitch(x) \/ TakeSwitch(x)
             \/ GiveNext(x) \/ Switch(x) \/ SwitchFails(x)
      PROVE  /\ UNCHANGED <<value, waiter, call, result>>
             /\ \A u \in Tasks :
                  \/ pc'[u] = pc[u]
                  \/ pc[u] = "takeSwitch" /\ pc'[u] = "takeRet"
                  \/ ~InTake(u) /\ pc'[u] \notin {"takeFast", "takeLock", "takeSwitch", "takeRet"}
  <2>1. /\ UNCHANGED <<value, waiter, call, result>>
        /\ \/ pc' = pc
           \/ pc[x] = "takeSwitch" /\ pc' = [pc EXCEPT ![x] = "takeRet"]
           \/ /\ pc[x] \in {"run", "selfSwitch", "giveCheck", "giveReady", "switch"}
              /\ \E where \in {"off", "run", "selfSwitch", "giveReady", "switch"} :
                   pc' = [pc EXCEPT ![x] = where]
    BY <1>2 DEF Delay, Yield, Exit, SelfSwitch, TakeSwitch, TaskSwitch, GiveNext, GiveCheck,
                GiveReady, GiveReadyFails, Switch, SwitchFails, SwitchFault, Break, At, Goto,
                Home, semVars, localVars
  <2> QED BY <1>0, <2>1, TakersAreTasks DEF InTake
<1>3. CASE TickStart \/ TickWake \/ TickDone \/ IdleReap
  <2>1. /\ UNCHANGED <<value, waiter, call, result>>
        /\ pc' = pc \/ \E where : pc' = [pc EXCEPT ![Isr] = where]
    BY <1>3 DEF TickStart, TickWake, TickDone, IdleReap, Goto, semVars, localVars
  <2> QED BY <1>0, <2>1, TakersAreTasks
<1>4. ASSUME NEW t \in Tasks, TaskNext(t)
      PROVE  /\ UNCHANGED <<value, waiter, call, result>>
             /\ \A u \in Tasks :
                  \/ pc'[u] = pc[u]
                  \/ pc[u] = "takeSwitch" /\ pc'[u] = "takeRet"
                  \/ ~InTake(u) /\ pc'[u] \notin {"takeFast", "takeLock", "takeSwitch", "takeRet"}
                  \/ state[u] = FREE /\ pc'[u] = "run"
  <2>1. CASE \E u \in Tasks : Create(t, u)
    BY <1>1, <2>1 DEF Create
  <2>2. CASE \E s \in Sems : Give(t, s)
    BY <2>2, TakersAreTasks DEF Give, SemAction
  <2>3. CASE \/ \E n \in Delays : Delay(t, n)
             \/ Yield(t) \/ Exit(t) \/ SelfSwitch(t) \/ TakeSwitch(t)
    BY <1>2, <2>3, TakersAreTasks
  <2> QED BY <1>4, <2>1, <2>2, <2>3 DEF TaskNext, SemAction
<1>5. ~\E s \in IsrSems : IsrGive(s)
  BY TakersAreTasks DEF IsrGive, SemAction
<1>6. CASE IdleBoot
  BY <1>1, <1>6, TaskAssumption DEF IdleBoot
<1> QED BY <1>2, <1>3, <1>4, <1>5, <1>6 DEF Next, IsrNext

\* No other step moves a task into a take or out of one.
LEMMA TakeSame ==
  ASSUME TypeInv, ReadyInv, Next, ~SemAction
  PROVE  /\ UNCHANGED <<value, waiter, call, result>>
         /\ \A t \in Tasks :
              \/ pc'[t] = pc[t]
              \/ pc[t] = "takeSwitch" /\ pc'[t] = "takeRet"
              \/ /\ ~InTake(t)
                 /\ pc'[t] \notin {"takeFast", "takeLock", "takeSwitch", "takeRet"}
<1>1. ReadyGood
  BY NextWhole DEF ReadyInv
<1>2. \A t \in Tasks : state[t] = FREE => ~InTake(t)
  BY <1>1 DEF ReadyGood, InTake
<1> QED BY <1>2, CallSame

\* No other step wakes a task that is blocked but a give that works on it.
LEMMA BlockedSame ==
  ASSUME TypeInv, KernelInv, Next, ~SemAction, NEW t \in Tasks
  PROVE  /\ retv'[t] = retv[t] \/ state[t] = FREE
         /\ \/ Blocked(t) => state'[t] = WAIT /\ timeout'[t] = 0
            \/ \E x \in Agents : Giving(x) /\ target[x] = t
<1>0. /\ TypeOK /\ KernelGood
      /\ state \in [Tasks -> {READY, RUN, WAIT, DEAD, FREE}]
      /\ timeout \in [Tasks -> Int] /\ retv \in [Tasks -> {0, -1}]
  BY NextWhole DEF TypeInv, TypeOK, KernelInv
<1>1. ASSUME NEW c \in Tasks, NEW u \in Tasks, StartTask(c, u)
      PROVE  /\ retv'[t] = retv[t] \/ state[t] = FREE
             /\ Blocked(t) => state'[t] = WAIT /\ timeout'[t] = 0
  <2>1. /\ state[u] = FREE /\ retv' = [retv EXCEPT ![u] = 0]
        /\ timeout' = [timeout EXCEPT ![u] = 0] /\ state' = [state EXCEPT ![u] = READY]
    BY <1>1 DEF StartTask, MakeReady
  <2> QED BY <1>0, <2>1 DEF Blocked, WAIT, FREE
<1>2. ASSUME NEW u \in Tasks, \/ \E n \in Delays : Delay(u, n)
                              \/ Yield(u) \/ Exit(u)
      PROVE  /\ retv'[t] = retv[t]
             /\ Blocked(t) => state'[t] = WAIT /\ timeout'[t] = 0
  <2>1. /\ Executes(u) /\ pc[u] = "run" /\ UNCHANGED retv
        /\ \E w : state' = [state EXCEPT ![u] = w]
        /\ timeout' = timeout \/ \E n : timeout' = [timeout EXCEPT ![u] = n]
    BY <1>2 DEF Delay, Yield, Exit, At
  <2>2. state[u] = RUN
    BY <1>0, <2>1, CallerRuns
  <2> QED BY <1>0, <2>1, <2>2 DEF Blocked, WAIT, RUN
<1>3. ASSUME NEW x, NEW where, NEW self, NEW next, TaskSwitch(x, where, self, next)
      PROVE  /\ retv'[t] = retv[t]
             /\ Blocked(t) => state'[t] = WAIT /\ timeout'[t] = 0
  <2>1. UNCHANGED <<retv, timeout>> /\ (UNCHANGED state \/ (Dispatch /\ ready # <<>>))
    BY <1>3 DEF TaskSwitch, SwitchBreaks
  <2> QED BY <1>0, <2>1, SwitchBlocked DEF Blocked
<1>4. ASSUME NEW x \in Agents, GiveReady(x)
      PROVE  /\ retv'[t] = retv[t]
             /\ \/ Blocked(t) => state'[t] = WAIT /\ timeout'[t] = 0
                \/ Giving(x) /\ target[x] = t
  <2>1. /\ UNCHANGED <<retv, timeout>> /\ state' = [state EXCEPT ![target[x]] = READY]
        /\ Giving(x)
    BY <1>4 DEF GiveReady, MakeReady, At, Giving
  <2>2. target[x] # t => state'[t] = state[t]
    BY <1>0, <2>1
  <2> QED BY <2>1, <2>2 DEF Blocked
<1>5. CASE TickWake
  <2> DEFINE u == Head(sleep)
  <2>1. /\ sleep # <<>> /\ timeout' = [timeout EXCEPT ![u] = 0] /\ UNCHANGED retv
        /\ state' = [state EXCEPT ![u] = READY]
    BY <1>5 DEF TickWake, MakeReady
  <2>2. u \in Tasks /\ timeout[u] > 0
    BY <1>0, <2>1, SleepTail DEF KernelGood, Consistent
  <2> HIDE DEF u
  <2> QED BY <1>0, <2>1, <2>2 DEF Blocked
<1>6. CASE IdleReap
  <2>1. /\ UNCHANGED <<retv, timeout>>
        /\ state' = [u \in Tasks |-> IF u \in dead THEN FREE ELSE state[u]]
    BY <1>6 DEF IdleReap
  <2> QED BY <1>0, <2>1 DEF Blocked, KernelGood, Consistent, WAIT, DEAD
<1>7. CASE UNCHANGED <<retv, state, timeout>>
  BY <1>7 DEF Blocked
<1>8. ASSUME NEW u \in Tasks, TaskNext(u)
      PROVE  /\ retv'[t] = retv[t] \/ state[t] = FREE
             /\ Blocked(t) => state'[t] = WAIT /\ timeout'[t] = 0
  <2>1. CASE \E v \in Tasks : Create(u, v)
    BY <1>1, <2>1 DEF Create
  <2>2. CASE \E s \in Sems : Give(u, s)
    BY <2>2, TakersAreTasks DEF Give, SemAction
  <2>3. CASE SelfSwitch(u) \/ TakeSwitch(u)
    BY <1>3, <2>3 DEF SelfSwitch, TakeSwitch
  <2> QED BY <1>2, <1>8, <2>1, <2>2, <2>3 DEF TaskNext, SemAction
<1>9. ASSUME NEW x \in Agents, GiveNext(x) \/ Switch(x) \/ SwitchFails(x)
      PROVE  /\ retv'[t] = retv[t] \/ state[t] = FREE
             /\ \/ Blocked(t) => state'[t] = WAIT /\ timeout'[t] = 0
                \/ Giving(x) /\ target[x] = t
  <2>1. CASE GiveCheck(x) \/ GiveReadyFails(x) \/ SwitchFails(x)
    <3>1. UNCHANGED <<retv, state, timeout>>
      <4>1. CASE GiveCheck(x)
        BY <4>1 DEF GiveCheck
      <4>2. CASE GiveReadyFails(x)
        BY <4>2 DEF GiveReadyFails, Break
      <4>3. CASE SwitchFails(x)
        BY <4>3 DEF SwitchFails, SwitchFault, Break
      <4> QED BY <2>1, <4>1, <4>2, <4>3
    <3> QED BY <3>1 DEF Blocked
  <2>2. CASE Switch(x)
    BY <1>3, <2>2 DEF Switch
  <2> QED BY <1>4, <1>9, <2>1, <2>2 DEF GiveNext
<1>10. CASE TickStart \/ TickDone
  BY <1>7, <1>10 DEF TickStart, TickDone
<1>11. ~\E s \in IsrSems : IsrGive(s)
  BY TakersAreTasks DEF IsrGive, SemAction
<1>12. CASE IdleBoot
  BY <1>1, <1>12, TaskAssumption DEF IdleBoot
<1> QED BY <1>5, <1>6, <1>8, <1>9, <1>10, <1>11, <1>12 DEF Next, IsrNext

LEMMA ValueStep ==
  ASSUME OneTaker, TypeInv, ReadyInv, WakeupInv, ValueInv, [Next]_vars
  PROVE  ValueInv'
<1>0. /\ pc \in [Agents -> PCs] /\ value \in [Sems -> Int]
      /\ waiter \in [Sems -> Tasks \cup {None}]
  BY DEF TypeInv, TypeOK
<1>1. CASE UNCHANGED vars
  BY <1>1, ValueSame DEF vars, semVars
<1>2. CASE Next /\ ~SemAction
  <2>1. /\ UNCHANGED <<value, waiter, call>>
        /\ \A t \in Tasks : pc'[t] = "takeFast" => pc[t] = "takeFast"
    BY <1>2, TakeSame
  <2> QED BY <2>1, ValueSame
<1>3. ASSUME NEW t \in Tasks, NEW s \in Sems, NEW n \in TakeTimeouts, TakeCheck(t, s, n)
      PROVE  ValueInv'
  <2>1. /\ UNCHANGED <<value, waiter>>
        /\ call' = [call EXCEPT ![t] = [sem |-> s, timeout |-> n]]
        /\ \/ pc' = [pc EXCEPT ![t] = "takeFast"] /\ value[s] # 0
           \/ pc' = [pc EXCEPT ![t] = "takeLock"]
           \/ pc' = pc /\ pc[t] = "run"
    BY <1>3 DEF TakeCheck, At, Goto, semVars
  <2>2. /\ call'[t].sem = s /\ pc'[t] \in {"run", "takeFast", "takeLock"}
        /\ pc'[t] = "takeFast" => value[s] # 0
        /\ \A u \in Tasks : u # t => call'[u] = call[u] /\ pc'[u] = pc[u]
    BY <1>0, <2>1, TakersAreTasks DEF TypeInv, TypeOK
  <2>3. value[s] # 0 => value[s] > 0
    BY <1>0 DEF ValueInv
  <2> QED BY <2>1, <2>2, <2>3 DEF ValueInv
<1>4. ASSUME NEW t \in Tasks, TakeFast(t) \/ TakeRecheck(t)
      PROVE  ValueInv'
  <2> DEFINE s == call[t].sem
  <2>1. /\ pc[t] \in {"takeFast", "takeLock"} /\ UNCHANGED <<waiter, call>>
        /\ value' = [value EXCEPT ![s] = @ - 1]
        /\ pc' = [pc EXCEPT ![t] = "run"]
        /\ pc[t] = "takeFast" \/ value[s] # 0
    BY <1>4 DEF TakeFast, TakeRecheck, TakeToken, TokenSeen, At, Goto
  <2>2. s \in Sems /\ t \in Takers[s]
    BY <2>1 DEF WakeupInv, TakeInv, InTake
  <2>3. value[s] > 0
    BY <1>0, <2>1, <2>2 DEF ValueInv
  <2>4. ASSUME NEW u \in Tasks, pc'[u] = "takeFast"
        PROVE  pc[u] = "takeFast" /\ call[u].sem # s
    <3>1. u # t /\ pc[u] = "takeFast"
      BY <1>0, <2>1, <2>4, TakersAreTasks
    <3>2. call[u].sem \in Sems /\ u \in Takers[call[u].sem]
      BY <3>1 DEF WakeupInv, TakeInv, InTake
    <3> QED BY <2>2, <3>1, <3>2 DEF OneTaker
  <2>5. ASSUME NEW u \in Tasks, pc[u] = "takeFast"
        PROVE  call[u].sem \in Sems
    BY <2>5 DEF WakeupInv, TakeInv, InTake
  <2> HIDE DEF s
  <2>6. /\ \A r \in Sems : value'[r] = IF r = s THEN value[s] - 1 ELSE value[r]
        /\ \A r \in Sems : value'[r] \in Int
    BY <1>0, <2>1, <2>2
  <2>7. \A r \in Sems : value'[r] >= 0
    BY <1>0, <2>2, <2>3, <2>6 DEF ValueInv
  <2> QED BY <2>1, <2>4, <2>5, <2>6, <2>7 DEF ValueInv
<1>5. ASSUME NEW t \in Tasks, TakeWait(t)
      PROVE  ValueInv'
  <2>1. /\ pc[t] = "takeLock" /\ UNCHANGED <<value, call>>
        /\ waiter' = [waiter EXCEPT ![call[t].sem] = t]
        /\ pc' = [pc EXCEPT ![t] = "takeSwitch"]
    BY <1>5 DEF TakeWait, At, Goto, localVars
  <2>2. t \in Takers[call[t].sem]
    BY <2>1 DEF WakeupInv, TakeInv, InTake
  <2>3. /\ \A r \in Sems : waiter'[r] = IF r = call[t].sem THEN t ELSE waiter[r]
        /\ \A u \in Tasks : pc'[u] = "takeFast" => pc[u] = "takeFast"
    BY <1>0, <2>1, TakersAreTasks
  <2> QED BY <2>1, <2>2, <2>3 DEF ValueInv
<1>6. ASSUME NEW t \in Tasks, TakeReturn(t)
      PROVE  ValueInv'
  <2>1. UNCHANGED <<value, waiter, call>> /\ pc' = [pc EXCEPT ![t] = "run"]
    BY <1>6 DEF TakeReturn, Goto, semVars
  <2>2. \A u \in Tasks : pc'[u] = "takeFast" => pc[u] = "takeFast"
    BY <1>0, <2>1, TakersAreTasks
  <2> QED BY <2>1, <2>2, ValueSame
<1>7. ASSUME NEW x \in Agents, NEW s \in Sems, GiveLocked(x, s)
      PROVE  ValueInv'
  <2>1. /\ UNCHANGED call
        /\ \/ waiter' = [waiter EXCEPT ![s] = None] /\ UNCHANGED value
           \/ value' = [value EXCEPT ![s] = @ + 1] /\ UNCHANGED waiter
           \/ UNCHANGED <<value, waiter>>
        /\ \/ pc' = [pc EXCEPT ![x] = Home(x)] \/ pc' = [pc EXCEPT ![x] = "giveCheck"]
           \/ pc' = pc
    BY <1>7 DEF GiveLocked, Break, Goto, localVars
  <2>2. \A u \in Tasks : pc'[u] = "takeFast" => pc[u] = "takeFast"
    BY <1>0, <2>1, TakersAreTasks DEF Home
  <2>3. /\ \A r \in Sems : waiter'[r] \in {waiter[r], None}
        /\ \A r \in Sems : value'[r] = value[r] \/ value'[r] = value[r] + 1
    BY <1>0, <2>1
  <2>4. \A r \in Sems : value[r] \in Int
    BY <1>0
  <2>5. \A u \in Tasks : pc[u] = "takeFast" => call[u].sem \in Sems
    BY DEF WakeupInv, TakeInv, InTake
  <2>6. \A r \in Sems : waiter'[r] \in Takers[r] \cup {None} /\ value'[r] >= 0
    BY <2>3, <2>4 DEF ValueInv
  <2>7. \A u \in Tasks : pc'[u] = "takeFast" => value'[call'[u].sem] > 0
    <3> SUFFICES ASSUME NEW u \in Tasks, pc'[u] = "takeFast"
                 PROVE  value'[call'[u].sem] > 0
      OBVIOUS
    <3>1. value[call[u].sem] > 0 /\ call[u].sem \in Sems
      BY <2>2, <2>5 DEF ValueInv
    <3> QED BY <2>1, <2>3, <2>4, <3>1
  <2> QED BY <2>6, <2>7 DEF ValueInv
<1> QED BY <1>1, <1>2, <1>3, <1>4, <1>5, <1>6, <1>7 DEF SemAction

LEMMA AnswerSame ==
  ASSUME AnswerInv,
         \A t \in Tasks, s \in Sems :
           pc'[t] \in {"takeSwitch", "takeRet"} /\ call'[t].sem = s =>
             /\ Parked(t, s) /\ retv'[t] = retv[t] /\ call'[t] = call[t]
             /\ waiter'[s] = t <=> waiter[s] = t
             /\ waiter[s] = t /\ Blocked(t) => state'[t] = WAIT /\ timeout'[t] = 0
  PROVE  AnswerInv'
BY DEF AnswerInv, Parked, Blocked

LEMMA AnswerStep ==
  ASSUME OneTaker, OneSemaphore, TypeInv, KernelInv, ReadyInv, WakeupInv, ValueInv,
         GiverInv, AnswerInv, [Next]_vars
  PROVE  AnswerInv'
<1>0. /\ pc \in [Agents -> PCs] /\ state \in [Tasks -> {READY, RUN, WAIT, DEAD, FREE}]
      /\ waiter \in [Sems -> Tasks \cup {None}] /\ timeout \in [Tasks -> Int]
      /\ retv \in [Tasks -> {0, -1}]
      /\ TypeOK
  BY DEF TypeInv, TypeOK
<1>100. ASSUME NEW t \in Tasks, NEW s \in Sems, Parked(t, s)
        PROVE  t \in Takers[s]
  BY <1>100 DEF WakeupInv, TakeInv, InTake, Parked
<1>1. CASE UNCHANGED vars
  <2>1. UNCHANGED <<pc, call, retv, waiter, state, timeout>>
    BY <1>1 DEF vars, semVars
  <2> QED BY <2>1, AnswerSame DEF Parked, Blocked
<1>2. CASE Next /\ ~SemAction
  <2> SUFFICES ASSUME NEW t \in Tasks, NEW s \in Sems,
                      pc'[t] \in {"takeSwitch", "takeRet"}, call'[t].sem = s
               PROVE  /\ Parked(t, s) /\ retv'[t] = retv[t] /\ call'[t] = call[t]
                      /\ waiter'[s] = t <=> waiter[s] = t
                      /\ waiter[s] = t /\ Blocked(t) => state'[t] = WAIT /\ timeout'[t] = 0
    BY AnswerSame
  <2>1. UNCHANGED <<waiter, call>> /\ Parked(t, s)
    BY <1>2, TakeSame DEF Parked
  <2>2. state[t] # FREE
    BY <1>2, <2>1, NextWhole DEF ReadyInv, ReadyGood, Parked
  <2>3. waiter[s] = t => ~\E x \in Agents : Giving(x) /\ target[x] = t
    BY DEF GiverInv
  <2> QED BY <1>2, <2>1, <2>2, <2>3, BlockedSame
<1>3. ASSUME NEW t \in Tasks,
             \/ \E s \in Sems, n \in TakeTimeouts : TakeCheck(t, s, n)
             \/ TakeFast(t) \/ TakeRecheck(t) \/ TakeReturn(t)
      PROVE  AnswerInv'
  <2>1. /\ UNCHANGED <<waiter, retv, state, timeout>>
        /\ \/ pc' = pc /\ pc[t] = "run"
           \/ \E where \in {"run", "takeFast", "takeLock"} : pc' = [pc EXCEPT ![t] = where]
        /\ call' = call \/ \E c : call' = [call EXCEPT ![t] = c]
    BY <1>3 DEF TakeCheck, TakeFast, TakeRecheck, TakeToken, TakeReturn, At, Goto, semVars
  <2>2. /\ pc'[t] \notin {"takeSwitch", "takeRet"}
        /\ \A u \in Tasks : u # t => pc'[u] = pc[u] /\ call'[u] = call[u]
    BY <1>0, <2>1, TakersAreTasks DEF TypeOK
  <2> QED BY <2>1, <2>2, AnswerSame DEF Parked, Blocked
<1>4. ASSUME NEW t \in Tasks, TakeWait(t)
      PROVE  AnswerInv'
  <2> DEFINE s == call[t].sem
             n == call[t].timeout
  <2>1. /\ Executes(t) /\ pc[t] = "takeLock" /\ UNCHANGED call
        /\ waiter' = [waiter EXCEPT ![s] = t]
        /\ pc' = [pc EXCEPT ![t] = "takeSwitch"]
        /\ state' = [state EXCEPT ![t] = WAIT]
        /\ \/ n > 0 /\ retv' = [retv EXCEPT ![t] = -1]
              /\ timeout' = [timeout EXCEPT ![t] = Deadline(n)]
           \/ ~(n > 0) /\ UNCHANGED retv /\ timeout' = [timeout EXCEPT ![t] = 0]
    BY <1>4 DEF TakeWait, At, Goto, localVars
  <2>2. s \in Sems /\ t \in Takers[s]
    BY <2>1 DEF WakeupInv, TakeInv, InTake
  <2> HIDE DEF s, n
  <2>3. /\ waiter'[s] = t /\ \A r \in Sems : r # s => waiter'[r] = waiter[r]
        /\ pc'[t] = "takeSwitch" /\ \A u \in Tasks : u # t => pc'[u] = pc[u]
        /\ state'[t] = WAIT /\ \A u \in Tasks : u # t => state'[u] = state[u]
        /\ \A u \in Tasks : u # t => timeout'[u] = timeout[u] /\ retv'[u] = retv[u]
        /\ n > 0 => retv'[t] = -1
        /\ ~(n > 0) => timeout'[t] = 0
    BY <1>0, <2>1, <2>2, TakersAreTasks
  <2>4. ASSUME NEW u \in Tasks, NEW r \in Sems,
               pc'[u] \in {"takeSwitch", "takeRet"}, call'[u].sem = r
        PROVE  /\ waiter'[r] # u => retv'[u] = 0
               /\ waiter'[r] = u /\ call'[u].timeout > 0 => retv'[u] = -1
               /\ waiter'[r] = u /\ ~(call'[u].timeout > 0) =>
                    state'[u] = WAIT /\ timeout'[u] = 0
    <3>1. CASE u = t
      <4>1. r = s /\ call'[u].timeout = n
        BY <2>1, <2>4, <3>1 DEF s, n
      <4> QED BY <2>3, <3>1, <4>1
    <3>2. CASE u # t
      <4>1. Parked(u, r)
        BY <2>1, <2>3, <2>4, <3>2 DEF Parked
      <4>2. r # s
        BY <1>100, <2>2, <3>2, <4>1 DEF OneTaker
      <4> QED BY <2>1, <2>3, <3>2, <4>1, <4>2 DEF AnswerInv, Blocked
    <3> QED BY <3>1, <3>2
  <2> QED BY <2>4 DEF AnswerInv, Parked, Blocked
<1>5. ASSUME NEW x \in Agents, NEW s \in Sems, GiveLocked(x, s)
      PROVE  AnswerInv'
  <2> DEFINE t == waiter[s]
  <2>1. /\ UNCHANGED <<state, call>>
        /\ \/ UNCHANGED <<waiter, retv, timeout>>
           \/ /\ t # None
              /\ waiter' = [waiter EXCEPT ![s] = None]
              /\ retv' = [retv EXCEPT ![t] = 0]
              /\ timeout' = timeout \/ timeout' = [timeout EXCEPT ![t] = 0]
        /\ \/ pc' = [pc EXCEPT ![x] = Home(x)] \/ pc' = [pc EXCEPT ![x] = "giveCheck"]
           \/ pc' = pc
    BY <1>5 DEF GiveLocked, Break, Goto, localVars
  <2>2. \A u \in Tasks : pc'[u] \in {"takeSwitch", "takeRet"} => pc'[u] = pc[u]
    BY <1>0, <2>1, TakersAreTasks DEF Home
  <2>3. CASE UNCHANGED <<waiter, retv, timeout>>
    BY <2>1, <2>2, <2>3, AnswerSame DEF Parked, Blocked
  <2>4. CASE /\ t # None
             /\ waiter' = [waiter EXCEPT ![s] = None]
             /\ retv' = [retv EXCEPT ![t] = 0]
             /\ timeout' = timeout \/ timeout' = [timeout EXCEPT ![t] = 0]
    <3>1. t \in Tasks /\ t \in Takers[s]
      BY <1>0, <2>4 DEF ValueInv
    <3> HIDE DEF t
    <3>2. /\ waiter'[s] = None /\ \A r \in Sems : r # s => waiter'[r] = waiter[r]
          /\ retv'[t] = 0 /\ \A u \in Tasks : u # t => retv'[u] = retv[u]
          /\ \A u \in Tasks : u # t => timeout'[u] = timeout[u]
      BY <1>0, <2>4, <3>1
    <3>3. ASSUME NEW u \in Tasks, NEW r \in Sems,
                 pc'[u] \in {"takeSwitch", "takeRet"}, call'[u].sem = r
          PROVE  /\ waiter'[r] # u => retv'[u] = 0
                 /\ waiter'[r] = u /\ call'[u].timeout > 0 => retv'[u] = -1
                 /\ waiter'[r] = u /\ ~(call'[u].timeout > 0) =>
                      state'[u] = WAIT /\ timeout'[u] = 0
      <4>1. Parked(u, r) /\ u \in Takers[r]
        BY <1>100, <2>1, <2>2, <3>3 DEF Parked
      <4>2. CASE u = t
        <5>1. r = s
          BY <3>1, <4>1, <4>2 DEF OneSemaphore
        <5>2. waiter'[r] # u
          BY <3>1, <3>2, <4>2, <5>1, TakersAreTasks
        <5> QED BY <3>2, <4>2, <5>2
      <4>3. CASE u # t
        <5>1. r # s
          BY <3>1, <4>1, <4>3 DEF OneTaker
        <5> QED BY <2>1, <3>2, <4>1, <4>3, <5>1 DEF AnswerInv, Blocked
      <4> QED BY <4>2, <4>3
    <3> QED BY <3>3 DEF AnswerInv, Parked, Blocked
  <2> QED BY <2>1, <2>3, <2>4
<1> QED BY <1>1, <1>2, <1>3, <1>4, <1>5 DEF SemAction

\* What a caller can tell of the semaphores depends on this much.
LEMMA AbsSame ==
  ASSUME TypeInv, UNCHANGED <<value, waiter>>,
         \A t \in Tasks :
           /\ InTake(t) => call'[t] = call[t]
           /\ \/ pc'[t] = pc[t]
              \/ pc[t] = "takeSwitch" /\ pc'[t] = "takeRet"
              \/ /\ ~InTake(t)
                 /\ pc'[t] \notin {"takeFast", "takeLock", "takeSwitch", "takeRet"}
  PROVE  UNCHANGED <<absTokens, absTaking, absPhase, absDeaf>>
<1>1. \A t \in Tasks : InTake(t)' <=> InTake(t)
  BY DEF InTake
<1>2. \A t \in Tasks, s \in Sems : Parked(t, s)' <=> Parked(t, s)
  BY DEF InTake, Parked
<1>3. \A s \in Sems : Delivered(s)' <=> Delivered(s)
  BY <1>2, TakersAreTasks DEF Delivered
<1>4. \A s \in Sems : Stale(s)' <=> Stale(s)
  <2>1. \A s \in Sems : waiter[s] # None => waiter[s] \in Tasks
    BY DEF TypeInv, TypeOK
  <2> QED BY <1>2, <2>1 DEF Stale
<1>5. absTokens' = absTokens
  BY <1>3 DEF absTokens
<1>6. absTaking' = absTaking
  BY <1>1 DEF absTaking
<1>7. absPhase' = absPhase
  BY DEF absPhase, InTake
<1>8. absDeaf' = absDeaf
  <2>1. \A s \in Sems : Stale(s)' = Stale(s)
    BY <1>4 DEF Stale
  <2> QED BY <2>1, Zenon DEF absDeaf
<1> QED BY <1>5, <1>6, <1>7, <1>8

\* One semaphore, or one task, changes in the abstract state.
LEMMA DeafExcept ==
  ASSUME NEW s \in Sems, NEW b \in BOOLEAN, Stale(s)' = b,
         \A r \in Sems : r # s => Stale(r)' = Stale(r)
  PROVE  absDeaf' = [absDeaf EXCEPT ![s] = b]
<1>1. \A r \in Sems : Stale(r)' = IF r = s THEN b ELSE Stale(r)
  OBVIOUS
<1>2. absDeaf' = [r \in Sems |-> IF r = s THEN b ELSE Stale(r)]
  BY <1>1, Zenon DEF absDeaf
<1>3. [absDeaf EXCEPT ![s] = b] = [r \in Sems |-> IF r = s THEN b ELSE Stale(r)]
  BY Zenon DEF absDeaf
<1> QED BY <1>2, <1>3

LEMMA TokensExcept ==
  ASSUME NEW s \in Sems, NEW n,
         value'[s] + (IF Delivered(s)' THEN 1 ELSE 0) = n,
         \A r \in Sems : r # s => value'[r] = value[r] /\ (Delivered(r)' <=> Delivered(r))
  PROVE  absTokens' = [absTokens EXCEPT ![s] = n]
BY DEF absTokens

\* The only task that could have been given a token of s is its taker.
LEMMA DeliveredToTaker ==
  ASSUME OneTaker, NEW s \in Sems, NEW t \in Takers[s]
  PROVE  Delivered(s) <=> Parked(t, s) /\ waiter[s] # t
BY DEF OneTaker, Delivered

\* xos_sem_take looks at sem->value.
LEMMA CheckImplements ==
  ASSUME OneTaker, TypeInv, ValueInv, NEW t \in Tasks, NEW s \in Sems, NEW n \in TakeTimeouts,
         TakeCheck(t, s, n)
  PROVE  Sem!Ask(t, s) \/ Sem!TryFails(t, s)
<1>0. /\ pc \in [Agents -> PCs] /\ value \in [Sems -> Int]
      /\ waiter \in [Sems -> Tasks \cup {None}] /\ s # None
  BY TaskAssumption DEF TypeInv, TypeOK
<1>1. /\ pc[t] = "run" /\ t \in Takers[s] /\ UNCHANGED <<value, waiter>>
      /\ call' = [call EXCEPT ![t] = [sem |-> s, timeout |-> n]]
      /\ \/ pc' = [pc EXCEPT ![t] = "takeFast"] /\ UNCHANGED result
         \/ pc' = [pc EXCEPT ![t] = "takeLock"] /\ UNCHANGED result
         \/ pc' = pc /\ value[s] = 0 /\ result' = [result EXCEPT ![t] = -1]
  BY DEF TakeCheck, At, Goto, semVars
<1>2. /\ call'[t].sem = s /\ pc'[t] \in {"run", "takeFast", "takeLock"}
      /\ \A u \in Tasks : u # t => call'[u] = call[u] /\ pc'[u] = pc[u]
  BY <1>0, <1>1, TakersAreTasks DEF TypeInv, TypeOK
<1>3. \A u \in Tasks, r \in Sems : Parked(u, r)' <=> Parked(u, r)
  BY <1>1, <1>2 DEF Parked
<1>4. \A r \in Sems : Delivered(r)' <=> Delivered(r)
  BY <1>1, <1>3, TakersAreTasks DEF Delivered
<1>5. \A r \in Sems : Stale(r)' = Stale(r)
  BY <1>0, <1>1, <1>3 DEF Stale
<1>6. absTokens' = absTokens
  BY <1>1, <1>4 DEF absTokens
<1>7. absDeaf' = absDeaf
  BY <1>5, Zenon DEF absDeaf
<1>8. absPhase' = absPhase
  BY <1>1, <1>2 DEF absPhase
<1>9. absTaking[t] = None
  BY <1>1 DEF absTaking, InTake
<1>10. CASE pc'[t] \in {"takeFast", "takeLock"} /\ UNCHANGED result
  <2>1. absTaking' = [absTaking EXCEPT ![t] = s]
    BY <1>2, <1>10 DEF absTaking, InTake
  <2> QED BY <1>6, <1>7, <1>8, <1>9, <1>10, <2>1 DEF Sem!Ask
<1>11. CASE pc' = pc /\ value[s] = 0 /\ result' = [result EXCEPT ![t] = -1]
  <2>1. absTaking' = absTaking
    BY <1>1, <1>2, <1>11 DEF absTaking, InTake
  <2>2. ~Delivered(s)
    BY <1>1, DeliveredToTaker DEF Parked
  <2>3. absTokens[s] = 0
    BY <1>11, <2>2 DEF absTokens
  <2> QED BY <1>6, <1>7, <1>8, <1>9, <1>11, <2>1, <2>3 DEF Sem!TryFails
<1> QED BY <1>0, <1>1, <1>10, <1>11, TakersAreTasks

\* A take that needs no wait, or finds the token at its second look.
LEMMA TokenImplements ==
  ASSUME OneTaker, TypeInv, WakeupInv, ValueInv, NEW t \in Tasks,
         NEW s, s = call[t].sem, TakeFast(t) \/ TakeRecheck(t)
  PROVE  s \in Sems /\ Sem!Succeed(t, s)
<1>0. /\ pc \in [Agents -> PCs] /\ value \in [Sems -> Int]
      /\ waiter \in [Sems -> Tasks \cup {None}]
  BY DEF TypeInv, TypeOK
<1>1. /\ pc[t] \in {"takeFast", "takeLock"} /\ UNCHANGED <<waiter, call>>
      /\ value' = [value EXCEPT ![s] = @ - 1]
      /\ result' = [result EXCEPT ![t] = 0]
      /\ pc' = [pc EXCEPT ![t] = "run"]
      /\ pc[t] = "takeFast" \/ value[s] # 0
  BY DEF TakeFast, TakeRecheck, TakeToken, TokenSeen, At, Goto
<1>2. s \in Sems /\ t \in Takers[s]
  BY <1>1 DEF WakeupInv, TakeInv, InTake
<1>3. value[s] > 0
  BY <1>0, <1>1, <1>2 DEF ValueInv
<1>4. absTaking[t] = s /\ absPhase[t] = "asked"
  BY <1>1 DEF absTaking, absPhase, InTake
<1>5. pc'[t] = "run" /\ \A u \in Tasks : u # t => pc'[u] = pc[u]
  BY <1>0, <1>1, TakersAreTasks
<1>6. \A u \in Tasks, r \in Sems : Parked(u, r)' <=> Parked(u, r)
  BY <1>1, <1>5 DEF Parked
<1>7. \A r \in Sems : Delivered(r)' <=> Delivered(r)
  BY <1>1, <1>6, TakersAreTasks DEF Delivered
<1>8. \A r \in Sems : Stale(r)' = Stale(r)
  BY <1>0, <1>1, <1>6 DEF Stale
<1>9. absTokens[s] > 0 /\ absTokens' = [absTokens EXCEPT ![s] = @ - 1]
  <2>1. /\ value'[s] = value[s] - 1 /\ value[s] \in Int
        /\ \A r \in Sems : r # s => value'[r] = value[r]
    BY <1>0, <1>1, <1>2
  <2>2. absTokens[s] = value[s] + IF Delivered(s) THEN 1 ELSE 0
    BY <1>2 DEF absTokens
  <2>3. value'[s] + (IF Delivered(s)' THEN 1 ELSE 0) = absTokens[s] - 1
    <3>1. CASE Delivered(s)
      BY <1>2, <1>7, <2>1, <2>2, <3>1
    <3>2. CASE ~Delivered(s)
      BY <1>2, <1>7, <2>1, <2>2, <3>2
    <3> QED BY <3>1, <3>2
  <2>4. absTokens' = [absTokens EXCEPT ![s] = absTokens[s] - 1]
    BY <1>2, <1>7, <2>1, <2>3, TokensExcept
  <2> QED BY <1>3, <2>1, <2>2, <2>4
<1>10. absTaking' = [absTaking EXCEPT ![t] = None]
  BY <1>1, <1>5 DEF absTaking, InTake
<1>11. absPhase' = [absPhase EXCEPT ![t] = "asked"]
  BY <1>1, <1>5 DEF absPhase
<1>12. absDeaf' = absDeaf
  BY <1>8, Zenon DEF absDeaf
<1>13. Sem!Succeed(t, s)
  BY <1>1, <1>4, <1>9, <1>10, <1>11, <1>12 DEF Sem!Succeed
<1> QED BY <1>2, <1>13

\* A take that waits: the second look has seen no token.
LEMMA WaitImplements ==
  ASSUME OneTaker, TypeInv, WakeupInv, NEW t \in Tasks, NEW s, s = call[t].sem,
         NEW timed \in BOOLEAN, timed <=> call[t].timeout > 0, TakeWait(t)
  PROVE  s \in Sems /\ Sem!Park(t, s, timed)
<1>0. /\ pc \in [Agents -> PCs] /\ value \in [Sems -> Int]
      /\ waiter \in [Sems -> Tasks \cup {None}]
  BY DEF TypeInv, TypeOK
<1>1. /\ pc[t] = "takeLock" /\ value[s] = 0 /\ UNCHANGED <<value, call, result>>
      /\ waiter' = [waiter EXCEPT ![s] = t]
      /\ pc' = [pc EXCEPT ![t] = "takeSwitch"]
  BY DEF TakeWait, TokenSeen, At, Goto, localVars
<1>2. s \in Sems /\ t \in Takers[s]
  BY <1>1 DEF WakeupInv, TakeInv, InTake
<1>3. /\ pc'[t] = "takeSwitch" /\ \A u \in Tasks : u # t => pc'[u] = pc[u]
      /\ waiter'[s] = t /\ \A r \in Sems : r # s => waiter'[r] = waiter[r]
  BY <1>0, <1>1, <1>2, TakersAreTasks
<1>4. /\ \A u \in Tasks, r \in Sems : u # t \/ r # s => (Parked(u, r)' <=> Parked(u, r))
      /\ Parked(t, s)' /\ ~Parked(t, s)
  BY <1>1, <1>3 DEF Parked
<1>5. ~Delivered(s) /\ ~Delivered(s)'
  BY <1>2, <1>3, <1>4, DeliveredToTaker DEF OneTaker, Delivered
<1>6. \A r \in Sems : r # s => (Delivered(r)' <=> Delivered(r)) /\ Stale(r)' = Stale(r)
  <2> SUFFICES ASSUME NEW r \in Sems, r # s
               PROVE  (Delivered(r)' <=> Delivered(r)) /\ Stale(r)' = Stale(r)
    OBVIOUS
  <2>1. waiter'[r] = waiter[r] /\ waiter[r] \in Tasks \cup {None}
    BY <1>0, <1>3
  <2>2. \A u \in Tasks : Parked(u, r)' <=> Parked(u, r)
    BY <1>4
  <2>3. Delivered(r)' <=> Delivered(r)
    BY <2>1, <2>2, TakersAreTasks DEF Delivered
  <2>4. Stale(r)' = Stale(r)
    BY <2>1, <2>2 DEF Stale
  <2> QED BY <2>3, <2>4
<1>7. absTaking[t] = s /\ absPhase[t] = "asked" /\ absTokens[s] = 0
  BY <1>1, <1>2, <1>5 DEF absTaking, absPhase, absTokens, InTake
<1>8. absTokens' = absTokens
  BY <1>1, <1>5, <1>6 DEF absTokens
<1>9. absTaking' = absTaking
  BY <1>1, <1>3 DEF absTaking, InTake
<1>10. absPhase' = [absPhase EXCEPT ![t] = IF timed THEN "parkedTimed" ELSE "parked"]
  BY <1>1, <1>3 DEF absPhase
<1>11. absDeaf' = [absDeaf EXCEPT ![s] = FALSE]
  <2>1. Stale(s)' = FALSE
    BY <1>3, <1>4 DEF Stale
  <2> QED BY <1>2, <1>6, <2>1, DeafExcept
<1> QED BY <1>1, <1>2, <1>7, <1>8, <1>9, <1>10, <1>11 DEF Sem!Park

\* A take that waited comes back: with the token of a give, or at its deadline.
LEMMA ReturnImplements ==
  ASSUME OneTaker, TypeInv, KernelInv, WakeupInv, ValueInv, AnswerInv, NEW t \in Tasks,
         NEW s, s = call[t].sem, TakeReturn(t)
  PROVE  s \in Sems /\ (Sem!Succeed(t, s) \/ Sem!TimeOut(t, s))
<1>0. /\ pc \in [Agents -> PCs] /\ value \in [Sems -> Int]
      /\ waiter \in [Sems -> Tasks \cup {None}] /\ TypeOK
  BY DEF TypeInv, TypeOK
<1>1. /\ Executes(t) /\ fault = "none" /\ pc[t] = "takeRet"
      /\ UNCHANGED <<value, waiter, call>>
      /\ result' = [result EXCEPT ![t] = retv[t]]
      /\ pc' = [pc EXCEPT ![t] = "run"]
  BY DEF TakeReturn, At, Executes, Goto, semVars
<1>2. s \in Sems /\ t \in Takers[s] /\ Parked(t, s)
  BY <1>1 DEF WakeupInv, TakeInv, InTake, Parked
<1>3. ~Blocked(t)
  BY <1>0, <1>1, CallerRuns DEF KernelInv, Blocked, RUN, WAIT
<1>4. pc'[t] = "run" /\ \A u \in Tasks : u # t => pc'[u] = pc[u]
  BY <1>0, <1>1, TakersAreTasks
<1>5. /\ \A u \in Tasks, r \in Sems : u # t \/ r # s => (Parked(u, r)' <=> Parked(u, r))
      /\ ~Parked(t, s)'
  BY <1>1, <1>4 DEF Parked
<1>6. /\ ~Delivered(s)'
      /\ Delivered(s) <=> waiter[s] # t
  BY <1>1, <1>2, <1>4, <1>5, DeliveredToTaker DEF OneTaker, Delivered
<1>7. \A r \in Sems : r # s => (Delivered(r)' <=> Delivered(r)) /\ Stale(r)' = Stale(r)
  <2> SUFFICES ASSUME NEW r \in Sems, r # s
               PROVE  (Delivered(r)' <=> Delivered(r)) /\ Stale(r)' = Stale(r)
    OBVIOUS
  <2>1. waiter'[r] = waiter[r] /\ waiter[r] \in Tasks \cup {None}
    BY <1>0, <1>1
  <2>2. \A u \in Tasks : Parked(u, r)' <=> Parked(u, r)
    BY <1>5
  <2>3. Delivered(r)' <=> Delivered(r)
    BY <2>1, <2>2, TakersAreTasks DEF Delivered
  <2>4. Stale(r)' = Stale(r)
    BY <2>1, <2>2 DEF Stale
  <2> QED BY <2>3, <2>4
<1>8. absTaking[t] = s /\ absTaking' = [absTaking EXCEPT ![t] = None]
  BY <1>1, <1>4 DEF absTaking, InTake
<1>9. absPhase' = [absPhase EXCEPT ![t] = "asked"]
  BY <1>1, <1>4 DEF absPhase
<1>10. CASE waiter[s] # t
  <2>1. retv[t] = 0
    BY <1>2, <1>10 DEF AnswerInv
  <2>2. waiter[s] = None
    BY <1>2, <1>10 DEF ValueInv, OneTaker
  <2>3. Stale(s)' = Stale(s)
    BY <1>1, <2>2 DEF Stale
  <2>4. absDeaf' = absDeaf
    <3>1. \A r \in Sems : Stale(r)' = Stale(r)
      BY <1>7, <2>3
    <3> QED BY <3>1, Zenon DEF absDeaf
  <2>5. value[s] \in Int /\ value[s] >= 0
    BY <1>0, <1>2 DEF ValueInv
  <2>6. absTokens[s] = value[s] + 1
    BY <1>2, <1>6, <1>10 DEF absTokens
  <2>7. value'[s] + (IF Delivered(s)' THEN 1 ELSE 0) = absTokens[s] - 1
    BY <1>1, <1>6, <2>5, <2>6
  <2>8. absTokens' = [absTokens EXCEPT ![s] = absTokens[s] - 1]
    BY <1>1, <1>2, <1>7, <2>7, TokensExcept
  <2> QED BY <1>1, <1>2, <1>8, <1>9, <2>1, <2>4, <2>5, <2>6, <2>8 DEF Sem!Succeed
<1>11. CASE waiter[s] = t
  <2>1. call[t].timeout > 0
    BY <1>2, <1>3, <1>11 DEF AnswerInv
  <2>2. retv[t] = -1
    BY <1>2, <1>11, <2>1 DEF AnswerInv
  <2>3. value[s] = 0
    BY <1>2, <1>11 DEF WakeupInv, NoLostWakeup
  <2>4. absTokens[s] = 0 /\ absTokens' = absTokens
    BY <1>1, <1>2, <1>6, <1>7, <1>11, <2>3 DEF absTokens
  <2>5. absDeaf' = [absDeaf EXCEPT ![s] = TRUE]
    <3>1. Stale(s)' = TRUE
      BY <1>1, <1>5, <1>11, TakersAreTasks DEF Stale
    <3> QED BY <1>2, <1>7, <3>1, DeafExcept
  <2>6. absPhase[t] = "parkedTimed"
    BY <1>1, <2>1 DEF absPhase
  <2> QED BY <1>1, <1>2, <1>8, <1>9, <2>2, <2>4, <2>5, <2>6 DEF Sem!TimeOut
<1> QED BY <1>10, <1>11

\* A give adds a token, or is spent on the task that gave up.
LEMMA GiveImplements ==
  ASSUME OneTaker, TypeInv, ValueInv, NEW x \in Agents, NEW s \in Sems, GiveLocked(x, s),
         x \in Tasks => pc[x] = "run"
  PROVE  \/ Sem!Give(s) \/ Sem!LostGive(s)
         \/ UNCHANGED <<absTokens, absTaking, absPhase, absDeaf, result>>
<1>0. /\ pc \in [Agents -> PCs] /\ value \in [Sems -> Int]
      /\ waiter \in [Sems -> Tasks \cup {None}]
  BY DEF TypeInv, TypeOK
<1>1. /\ UNCHANGED <<call, result>>
      /\ \/ /\ waiter[s] = None /\ value' = [value EXCEPT ![s] = @ + 1] /\ UNCHANGED waiter
         \/ /\ waiter[s] # None /\ waiter' = [waiter EXCEPT ![s] = None] /\ UNCHANGED value
         \/ UNCHANGED <<value, waiter, pc>>
      /\ \/ pc' = [pc EXCEPT ![x] = Home(x)] \/ pc' = [pc EXCEPT ![x] = "giveCheck"]
         \/ pc' = pc
  BY DEF GiveLocked, Break, Goto, localVars
<1>2. \A u \in Tasks :
        \/ pc'[u] = pc[u]
        \/ /\ ~InTake(u)
           /\ pc'[u] \notin {"takeFast", "takeLock", "takeSwitch", "takeRet"}
  BY <1>0, <1>1, TakersAreTasks DEF InTake, Home
<1>3. absTaking' = absTaking /\ absPhase' = absPhase
  <2>1. \A u \in Tasks : InTake(u)' <=> InTake(u)
    BY <1>2 DEF InTake
  <2>2. absTaking' = absTaking
    BY <1>1, <2>1 DEF absTaking
  <2>3. \A u \in Tasks :
          pc'[u] \notin {"takeSwitch", "takeRet"} <=> pc[u] \notin {"takeSwitch", "takeRet"}
    BY <1>2 DEF InTake
  <2>4. absPhase' = absPhase
    BY <1>1, <2>3 DEF absPhase
  <2> QED BY <2>2, <2>4
<1>4. \A u \in Tasks, r \in Sems : Parked(u, r)' <=> Parked(u, r)
  BY <1>1, <1>2 DEF Parked, InTake
<1>5. ASSUME NEW r \in Sems, waiter'[r] = waiter[r]
      PROVE  (Delivered(r)' <=> Delivered(r)) /\ Stale(r)' = Stale(r)
  <2>1. waiter[r] \in Tasks \cup {None}
    BY <1>0
  <2>2. Delivered(r)' <=> Delivered(r)
    BY <1>4, <1>5, TakersAreTasks DEF Delivered
  <2>3. Stale(r)' = Stale(r)
    BY <1>4, <1>5, <2>1 DEF Stale
  <2> QED BY <2>2, <2>3
<1>6. CASE waiter[s] = None /\ value' = [value EXCEPT ![s] = @ + 1] /\ UNCHANGED waiter
  <2>1. /\ value'[s] = value[s] + 1 /\ value[s] \in Int
        /\ \A r \in Sems : r # s => value'[r] = value[r]
    BY <1>0, <1>6
  <2>2. absTokens[s] = value[s] + IF Delivered(s) THEN 1 ELSE 0
    BY DEF absTokens
  <2>3. value'[s] + (IF Delivered(s)' THEN 1 ELSE 0) = absTokens[s] + 1
    <3>1. CASE Delivered(s)
      BY <1>5, <1>6, <2>1, <2>2, <3>1
    <3>2. CASE ~Delivered(s)
      BY <1>5, <1>6, <2>1, <2>2, <3>2
    <3> QED BY <3>1, <3>2
  <2>4. absTokens' = [absTokens EXCEPT ![s] = absTokens[s] + 1]
    BY <1>5, <1>6, <2>1, <2>3, TokensExcept
  <2>5. absDeaf' = absDeaf
    <3>1. \A r \in Sems : Stale(r)' = Stale(r)
      BY <1>5, <1>6
    <3> QED BY <3>1, Zenon DEF absDeaf
  <2>6. ~absDeaf[s]
    BY <1>6 DEF absDeaf, Stale
  <2> QED BY <1>1, <1>3, <2>4, <2>5, <2>6 DEF Sem!Give
<1>7. ASSUME waiter[s] # None, waiter' = [waiter EXCEPT ![s] = None], UNCHANGED value
      PROVE  Sem!Give(s) \/ Sem!LostGive(s)
  <2>1. /\ waiter'[s] = None /\ \A r \in Sems : r # s => waiter'[r] = waiter[r]
        /\ value[s] \in Int
    BY <1>0, <1>7
  <2>2. Stale(s)' = FALSE
    BY <2>1 DEF Stale
  <2>3. /\ waiter[s] \in Tasks /\ waiter[s] \in Takers[s] /\ waiter[s] # None
    BY <1>0, <1>7 DEF ValueInv
  <2>4. ~Delivered(s)
    BY <2>3, DeliveredToTaker
  <2>5. PICK t \in Takers[s] : t = waiter[s]
    BY <2>3
  <2>6. Delivered(s)' <=> Parked(t, s)
    <3>1. Delivered(s)' <=> Parked(t, s)' /\ waiter'[s] # t
      BY <2>5 DEF OneTaker, Delivered
    <3> QED BY <1>4, <2>1, <2>3, <2>5, <3>1
  <2>7. absDeaf[s] = ~Parked(t, s)
    BY <2>3, <2>5 DEF absDeaf, Stale
  <2>8. absDeaf' = [absDeaf EXCEPT ![s] = FALSE]
    BY <1>5, <2>1, <2>2, DeafExcept
  <2>9. absTokens[s] = value[s]
    BY <2>1, <2>4 DEF absTokens
  <2>10. CASE Parked(t, s)
    <3>1. value'[s] + (IF Delivered(s)' THEN 1 ELSE 0) = absTokens[s] + 1
      BY <1>7, <2>6, <2>9, <2>10
    <3>2. absTokens' = [absTokens EXCEPT ![s] = absTokens[s] + 1]
      BY <1>5, <1>7, <2>1, <3>1, TokensExcept
    <3>3. absDeaf' = absDeaf
      <4>1. Stale(s) = FALSE
        BY <2>5, <2>10 DEF Stale
      <4>2. \A r \in Sems : Stale(r)' = Stale(r)
        BY <1>5, <2>1, <2>2, <4>1
      <4> QED BY <4>2, Zenon DEF absDeaf
    <3> QED BY <1>1, <1>3, <2>7, <2>10, <3>2, <3>3 DEF Sem!Give
  <2>11. CASE ~Parked(t, s)
    <3>1. absTokens' = absTokens
      BY <1>5, <1>7, <2>1, <2>4, <2>6, <2>11 DEF absTokens
    <3> QED BY <1>1, <1>3, <2>7, <2>8, <2>11, <3>1 DEF Sem!LostGive
  <2> QED BY <2>10, <2>11
<1>8. CASE UNCHANGED <<value, waiter, pc>>
  BY <1>1, <1>8, AbsSame
<1> QED BY <1>1, <1>6, <1>7, <1>8

\* A step that is neither is no step of a semaphore.
LEMMA SemStep ==
  ASSUME OneTaker, TypeInv, KernelInv, ReadyInv, WakeupInv, ValueInv, AnswerInv, [Next]_vars
  PROVE  [Sem!Next]_(Sem!semVars)
<1>1. CASE UNCHANGED vars
  <2>1. UNCHANGED <<value, waiter, pc, call, result>>
    BY <1>1 DEF vars, semVars
  <2> QED BY <2>1, AbsSame DEF Sem!semVars
<1>2. CASE Next /\ ~SemAction
  <2>1. /\ UNCHANGED <<value, waiter, call, result>>
        /\ \A t \in Tasks :
             \/ pc'[t] = pc[t]
             \/ pc[t] = "takeSwitch" /\ pc'[t] = "takeRet"
             \/ /\ ~InTake(t)
                /\ pc'[t] \notin {"takeFast", "takeLock", "takeSwitch", "takeRet"}
    BY <1>2, TakeSame
  <2>2. UNCHANGED <<absTokens, absTaking, absPhase, absDeaf>>
    BY <2>1, AbsSame
  <2> QED BY <2>1, <2>2 DEF Sem!semVars
<1>3. ASSUME NEW t \in Tasks, NEW s \in Sems, NEW n \in TakeTimeouts, TakeCheck(t, s, n)
      PROVE  Sem!Next
  BY <1>3, CheckImplements DEF Sem!Next
<1>4. ASSUME NEW t \in Tasks, TakeFast(t) \/ TakeRecheck(t)
      PROVE  Sem!Next
  BY <1>4, TokenImplements DEF Sem!Next
<1>5. ASSUME NEW t \in Tasks, TakeWait(t)
      PROVE  Sem!Next
  <2>1. PICK timed \in BOOLEAN : timed <=> call[t].timeout > 0
    <3>1. CASE call[t].timeout > 0
      BY <3>1
    <3>2. CASE ~(call[t].timeout > 0)
      BY <3>2
    <3> QED BY <3>1, <3>2
  <2>2. call[t].sem \in Sems /\ Sem!Park(t, call[t].sem, timed)
    BY <1>5, <2>1, WaitImplements
  <2> QED BY <2>2 DEF Sem!Next
<1>6. ASSUME NEW t \in Tasks, TakeReturn(t)
      PROVE  Sem!Next
  BY <1>6, ReturnImplements DEF Sem!Next
<1>7. ASSUME NEW x \in Agents, NEW s \in Sems, GiveLocked(x, s), x \in Tasks => At(x, "run")
      PROVE  [Sem!Next]_(Sem!semVars)
  <2>1. x \in Tasks => pc[x] = "run"
    BY <1>7 DEF At
  <2>2. \/ Sem!Give(s) \/ Sem!LostGive(s)
        \/ UNCHANGED <<absTokens, absTaking, absPhase, absDeaf, result>>
    BY <1>7, <2>1, GiveImplements
  <2> QED BY <2>2 DEF Sem!Next, Sem!semVars
<1> QED BY <1>1, <1>2, <1>3, <1>4, <1>5, <1>6, <1>7 DEF SemAction

LEMMA SemInit == Init => Sem!Init
<1> SUFFICES ASSUME Init PROVE Sem!Init
  OBVIOUS
<1>1. /\ value = [s \in Sems |-> 0] /\ waiter = [s \in Sems |-> None]
      /\ result = [t \in Tasks |-> 0]
      /\ \A t \in Tasks : pc[t] \in {"run", "boot"}
  BY TaskAssumption DEF Init, Agents
<1>2. \A s \in Sems : ~Delivered(s) /\ Stale(s) = FALSE
  BY <1>1, TakersAreTasks DEF Delivered, Stale, Parked
<1>3. absTokens = [s \in Sems |-> 0]
  BY <1>1, <1>2 DEF absTokens
<1>4. absTaking = [t \in Tasks |-> None] /\ absPhase = [t \in Tasks |-> "asked"]
  BY <1>1 DEF absTaking, absPhase, InTake
<1>5. absDeaf = [s \in Sems |-> FALSE]
  BY <1>2, Zenon DEF absDeaf
<1> QED BY <1>1, <1>3, <1>4, <1>5 DEF Sem!Init

LEMMA ContractInit ==
  Init => WakeupInv /\ ValueInv /\ AnswerInv /\ GiverInv
BY TaskAssumption
DEF Init, WakeupInv, TakeInv, NoLostWakeup, Parked, InTake, ValueInv, AnswerInv, GiverInv,
    Giving, Agents

\* Only xos_sem_give starts a give, and it chooses the target.
LEMMA GivingSame ==
  ASSUME TypeInv, Next, ~SemAction, NEW x \in Agents,
         pc'[x] \in {"giveCheck", "giveReady"}
  PROVE  Giving(x) /\ target'[x] = target[x]
<1>0. pc \in [Agents -> PCs]
  BY DEF TypeInv, TypeOK
<1>1. ASSUME NEW c \in Tasks, NEW t \in Tasks, StartTask(c, t)
      PROVE  Giving(x) /\ target'[x] = target[x]
  <2>1. UNCHANGED target /\ pc' = [pc EXCEPT ![c] = "switch", ![t] = "run"]
    BY <1>1 DEF StartTask, localVars
  <2> QED BY <2>1 DEF Giving, TypeInv, TypeOK
<1>2. ASSUME NEW y \in Agents,
             \/ \E n \in Delays : Delay(y, n)
             \/ Yield(y) \/ Exit(y) \/ SelfSwitch(y) \/ TakeSwitch(y)
             \/ GiveNext(y) \/ Switch(y) \/ SwitchFails(y)
      PROVE  Giving(x) /\ target'[x] = target[x]
  <2>1. /\ UNCHANGED target
        /\ \/ pc' = pc
           \/ Giving(y) /\ \E where : pc' = [pc EXCEPT ![y] = where]
           \/ \E where \in {"off", "run", "selfSwitch", "takeRet"} :
                   pc' = [pc EXCEPT ![y] = where]
    BY <1>2 DEF Delay, Yield, Exit, SelfSwitch, TakeSwitch, TaskSwitch, GiveNext, GiveCheck,
                GiveReady, GiveReadyFails, Switch, SwitchFails, SwitchFault, Break, At, Goto,
                Home, localVars, Giving
  <2> QED BY <2>1 DEF Giving, TypeInv, TypeOK
<1>3. CASE TickStart \/ TickWake \/ TickDone \/ IdleReap
  <2>1. /\ UNCHANGED target
        /\ \/ pc' = pc
           \/ \E where \in {"off", "tick", "tickWoke", "switch"} : pc' = [pc EXCEPT ![Isr] = where]
    BY <1>3 DEF TickStart, TickWake, TickDone, IdleReap, Goto, localVars
  <2> QED BY <2>1 DEF Giving, TypeInv, TypeOK
<1>4. ASSUME NEW t \in Tasks, TaskNext(t)
      PROVE  Giving(x) /\ target'[x] = target[x]
  <2>1. CASE \E u \in Tasks : Create(t, u)
    BY <1>1, <2>1 DEF Create
  <2>2. CASE \E s \in Sems : Give(t, s)
    BY <2>2, TakersAreTasks DEF Give, SemAction
  <2>3. CASE \/ \E n \in Delays : Delay(t, n)
             \/ Yield(t) \/ Exit(t) \/ SelfSwitch(t) \/ TakeSwitch(t)
    BY <1>2, <2>3, TakersAreTasks
  <2> QED BY <1>4, <2>1, <2>2, <2>3 DEF TaskNext, SemAction
<1>5. ~\E s \in IsrSems : IsrGive(s)
  BY TakersAreTasks DEF IsrGive, SemAction
<1>6. CASE IdleBoot
  BY <1>1, <1>6, TaskAssumption DEF IdleBoot
<1> QED BY <1>2, <1>3, <1>4, <1>5, <1>6 DEF Next, IsrNext
-----------------------------------------------------------------------------
(* Takes with deadlines.  A give reads tcb->state after its unlock, so it   *)
(* must be the only one that can wake the task it has found: a handler runs *)
(* to its end, and a task wakes only somebody who would preempt it at once. *)

\* t is the most urgent of all tasks, and never offers its place.
OnTop(t) == t \notin Yielders /\ \A u \in Tasks \ {t} : Prio[t] < Prio[u]

\* A semaphore that tasks give is taken by the most urgent task; a semaphore
\* that only handlers give may be taken by any.
GiversBelow ==
  \A s \in Sems : Givers[s] # {} =>
    /\ \A t \in Takers[s] : OnTop(t)
    /\ \A x \in Givers[s] : Prio[x] < Prio[Idle]

\* Somebody is on the way to a _task_switch that lets the most urgent task in.
SwitchComes == pc[Isr] \in {"tickWoke", "switch"} \/ pc[current] = "switch"

Blocking(t) == pc[t] \in {"selfSwitch", "takeSwitch"}

\* The most urgent task is dispatched as soon as it is ready, so it reaches the
\* _task_switch of a blocking call before anybody else runs.
TopInv ==
  \A t \in Tasks : OnTop(t) =>
    /\ t \in Range(ready) => SwitchComes
    /\ Blocking(t) => t = current /\ (state[t] \in {WAIT, DEAD} \/ t \in Range(ready))

LEMMA TopIsFirst ==
  ASSUME NEW t \in Tasks, OnTop(t), NEW u \in Tasks, Prio[u] <= Prio[t]
  PROVE  u = t
BY PrioIsKey DEF OnTop

LEMMA TopSame ==
  ASSUME TopInv, UNCHANGED <<ready, current>>,
         \A t \in Tasks : state[t] \in {WAIT, DEAD} => state'[t] \in {WAIT, DEAD},
         \A t \in Tasks : Blocking(t)' => Blocking(t),
         SwitchComes => SwitchComes'
  PROVE  TopInv'
BY DEF TopInv, OnTop

\* Who the processor goes to, and what becomes of the lists.
LEMMA DispatchMoves ==
  ASSUME TypeOK, Consistent, Sorted(ready, Prio), ready # <<>>,
         ~(Requeues /\ Linked(current)), Dispatch, UNCHANGED <<sleep, dead, timeout>>
  PROVE  /\ current' \in Range(ready) /\ current' \in Tasks /\ state[current'] = READY
         /\ \A u \in Range(ready) : Prio[current'] <= Prio[u]
         /\ \A u \in Range(ready') :
              /\ u # current'
              /\ u \in Range(ready) \/ (Requeues /\ u = current)
         /\ \A u \in Tasks : state'[u] = IF u = current' THEN RUN
                                         ELSE IF u = current /\ Requeues THEN READY
                                         ELSE state[u]
<1> DEFINE high == Head(ready)
           queue == IF Requeues THEN InsertOrdered(ready, Prio, Prio[current], current)
                    ELSE ready
<1>1. ready \in Seq(Tasks) /\ current \in Tasks
  BY DEF TypeOK
<1>2. /\ high \in Tasks /\ high \in Range(ready)
      /\ \A t \in Range(ready) : Prio[high] <= Prio[t]
  BY <1>1, HeadLinked, TailSorted
<1>3. /\ queue \in Seq(Tasks) /\ high \in Range(queue)
      /\ \A x : x \in Range(queue) => x \in Range(ready) \/ (Requeues /\ x = current)
  BY <1>1, <1>2, ReadyWith
<1>4. /\ ready' = Unlink(queue, high) /\ current' = high
      /\ \A t \in Tasks : state'[t] = IF t = high THEN RUN
                                      ELSE IF t = current /\ Requeues THEN READY
                                      ELSE state[t]
  BY DEF Dispatch
<1> HIDE DEF queue, high
<1>5. \A x \in Range(ready') : x \in Range(queue)
  BY <1>3, <1>4, UnlinkFrom
<1>6. Consistent' /\ state'[current'] = RUN /\ ready' \in Seq(Tasks)
  BY DispatchConsistent, DispatchShape
<1>7. \A u \in Range(ready') : u \in Tasks
  BY <1>6, RangeByPlace
<1>8. \A u \in Range(ready') : u # current'
  BY <1>6, <1>7 DEF Consistent, READY, RUN
<1>9. state[high] = READY
  BY <1>2 DEF Consistent
<1> QED BY <1>2, <1>3, <1>4, <1>5, <1>8, <1>9

\* A switch leaves the most urgent task out of the ready list.
LEMMA TopSwitch ==
  ASSUME TypeInv, KernelInv, ReadyInv, TopInv, NEW x \in Agents, NEW where, NEW self,
         NEW next \in {"off", "run", "takeRet"}, TaskSwitch(x, where, self, next),
         self = (where # "switch"), where \in {"selfSwitch", "takeSwitch"} => x \in Tasks,
         where \in {"switch", "selfSwitch", "takeSwitch"}
  PROVE  TopInv'
<1>0. /\ TypeOK /\ pc \in [Agents -> PCs] /\ ready \in Seq(Tasks) /\ current \in Tasks
      /\ KernelGood /\ ReadyGood /\ Consistent
  BY DEF TypeInv, TypeOK, TaskSwitch, At, Executes, KernelInv, KernelGood, ReadyInv
<1>1. /\ Executes(x) /\ pc[x] = where /\ pc' = [pc EXCEPT ![x] = next] /\ ready # <<>>
      /\ UNCHANGED <<sleep, dead, timeout>>
      /\ x \in Tasks => x = current
      /\ x \in Tasks \/ x = Isr
  BY <1>0, ExecutesWho DEF TaskSwitch, At, Goto, SwitchBreaks
<1>2. \A y \in Agents : pc'[y] = IF y = x THEN next ELSE pc[y]
  BY <1>0, <1>1
<1> SUFFICES ASSUME NEW t \in Tasks, OnTop(t)
             PROVE  /\ t \in Range(ready') => SwitchComes'
                    /\ Blocking(t)' => /\ t = current'
                                       /\ state'[t] \in {WAIT, DEAD} \/ t \in Range(ready')
  BY DEF TopInv, OnTop
<1>3. Blocking(t)' => Blocking(t) /\ t # x
  BY <1>2, TakersAreTasks DEF Blocking
<1>4. CASE StaysOnCpu(self)
  <2>1. ~self /\ Prio[current] < Prio[Head(ready)] /\ UNCHANGED <<ready, state, current>>
    BY <1>4 DEF StaysOnCpu, TaskSwitch
  <2>2. t \notin Range(ready)
    <3>1. SUFFICES ASSUME t \in Range(ready) PROVE FALSE
      OBVIOUS
    <3>2. Head(ready) \in Tasks /\ Prio[Head(ready)] <= Prio[t]
      BY <1>0, <1>1, <3>1, HeadLinked, TailSorted DEF ReadyGood
    <3>3. Prio[current] <= Prio[t]
      BY <1>0, <2>1, <3>2, PrioIsKey
    <3>4. current = t /\ Head(ready) = t
      BY <1>0, <3>2, <3>3, TopIsFirst
    <3> QED BY <2>1, <3>4, PrioIsKey
  <2> QED BY <1>3, <2>1, <2>2 DEF TopInv
<1>5. CASE ~StaysOnCpu(self)
  <2>1. /\ Dispatch /\ ~(Requeues /\ Linked(current))
        /\ ~self => ~(Prio[current] < Prio[Head(ready)])
    BY <1>1, <1>5 DEF TaskSwitch, SwitchBreaks, StaysOnCpu
  <2>2. /\ current' \in Range(ready) /\ current' \in Tasks /\ state[current'] = READY
        /\ \A u \in Range(ready) : Prio[current'] <= Prio[u]
        /\ \A u \in Range(ready') :
             /\ u # current'
             /\ u \in Range(ready) \/ (Requeues /\ u = current)
    BY <1>0, <1>1, <2>1, DispatchMoves DEF ReadyGood
  <2>3. current' = Head(ready)
    BY <2>1 DEF Dispatch
  <2>4. ~self /\ t = current => current' = t
    <3>1. ~self => Prio[current'] <= Prio[current]
      BY <1>0, <2>1, <2>2, <2>3, PrioIsKey
    <3> QED BY <2>2, <3>1, TopIsFirst
  <2>5. t \notin Range(ready')
    <3>1. SUFFICES ASSUME t \in Range(ready') PROVE FALSE
      OBVIOUS
    <3>2. t # current'
      BY <2>2, <3>1
    <3>3. t \notin Range(ready)
      BY <2>2, <3>2, TopIsFirst
    <3>4. Requeues /\ t = current /\ self
      BY <2>2, <2>4, <3>1, <3>2, <3>3
    <3>5. x = t /\ Blocking(t)
      BY <1>1, <3>4 DEF Blocking
    <3>6. state[t] \in {WAIT, DEAD}
      BY <3>3, <3>5 DEF TopInv
    <3> QED BY <3>4, <3>6 DEF Requeues, READY, RUN, WAIT, DEAD
  <2>6. ~Blocking(t)'
    <3>1. SUFFICES ASSUME Blocking(t)' PROVE FALSE
      OBVIOUS
    <3>2. t = current /\ t # x /\ (state[t] \in {WAIT, DEAD} \/ t \in Range(ready))
      BY <1>3, <3>1 DEF TopInv
    <3>3. x \notin Tasks /\ ~self
      BY <1>1, <3>2
    <3>4. current' = t /\ state[t] = READY
      BY <2>2, <2>4, <3>2, <3>3
    <3> QED BY <2>1, <2>2, <3>2, <3>4 DEF Requeues, Linked
  <2> QED BY <2>5, <2>6
<1> QED BY <1>4, <1>5

LEMMA TopStep ==
  ASSUME UptimeBelowWrap, TypeInv, KernelInv, ReadyInv, TopInv, [Next]_vars
  PROVE  TopInv'
<1>0. /\ TypeOK /\ pc \in [Agents -> PCs] /\ current \in Tasks
      /\ state \in [Tasks -> {READY, RUN, WAIT, DEAD, FREE}]
  BY DEF TypeInv, TypeOK
<1>1. CASE UNCHANGED vars
  BY <1>1, TopSame DEF vars, SwitchComes, Blocking
<1>2. ASSUME NEW c \in Tasks, NEW u \in Tasks, Executes(c), pc[c] \in {"run", "boot"},
             StartTask(c, u)
      PROVE  TopInv'
  <2>1. /\ c = current /\ UNCHANGED current
        /\ pc' = [pc EXCEPT ![c] = "switch", ![u] = "run"] /\ state[u] = FREE
    BY <1>0, <1>2, ExecutesWho DEF StartTask
  <2>2. c # u
    BY <1>0, <1>2, <2>1, CallerRuns DEF KernelInv, Executes, RUN, FREE
  <2>3. SwitchComes'
    BY <1>0, <2>1, <2>2, TakersAreTasks DEF SwitchComes
  <2>4. \A t \in Tasks : Blocking(t)' => Blocking(t)
    BY <1>0, <2>1, TakersAreTasks DEF Blocking
  <2>5. \A t \in Tasks : OnTop(t) => ~Blocking(t)'
    BY <1>2, <2>1, <2>4 DEF TopInv, Blocking
  <2> QED BY <2>3, <2>5 DEF TopInv, OnTop
<1>3. ASSUME NEW u \in Tasks, Executes(u), pc[u] \in {"run", "takeLock"},
             NEW where \in {"selfSwitch", "takeSwitch"}, pc' = [pc EXCEPT ![u] = where],
             UNCHANGED <<ready, current>>, state'[u] \in {WAIT, DEAD} \/ u \in Yielders
      PROVE  TopInv'
  <2>1. u = current /\ pc[Isr] = "off" /\ ~SwitchComes
    BY <1>0, <1>3, ExecutesWho DEF SwitchComes
  <2>2. \A t \in Tasks : pc'[t] = IF t = u THEN where ELSE pc[t]
    BY <1>0, <1>3, TakersAreTasks
  <2>3. ASSUME NEW t \in Tasks, OnTop(t)
        PROVE  t \notin Range(ready') /\ (Blocking(t)' => t = u)
    BY <1>3, <2>1, <2>2, <2>3 DEF TopInv, Blocking
  <2> QED BY <1>3, <2>1, <2>3 DEF TopInv, OnTop, Blocking
<1>4. ASSUME NEW u \in Tasks, \/ \E n \in Delays : Delay(u, n)
                              \/ Yield(u) \/ Exit(u) \/ TakeWait(u)
      PROVE  TopInv'
  <2>1. /\ Executes(u) /\ pc[u] \in {"run", "takeLock"} /\ UNCHANGED <<ready, current>>
        /\ \E where \in {"selfSwitch", "takeSwitch"} : pc' = [pc EXCEPT ![u] = where]
        /\ u \in Yielders \/ \E w \in {WAIT, DEAD} : state' = [state EXCEPT ![u] = w]
    <3>1. CASE \E n \in Delays : Delay(u, n)
      BY <3>1 DEF Delay, At, Goto
    <3>2. CASE Yield(u)
      BY <3>2 DEF Yield, At, Goto, listVars
    <3>3. CASE Exit(u)
      BY <3>3 DEF Exit, At, Goto
    <3>4. CASE TakeWait(u)
      BY <3>4 DEF TakeWait, At, Goto
    <3> QED BY <1>4, <3>1, <3>2, <3>3, <3>4
  <2>2. state'[u] \in {WAIT, DEAD} \/ u \in Yielders
    BY <1>0, <2>1
  <2> QED BY <1>3, <2>1, <2>2
<1>5. ASSUME NEW x \in Agents, Executes(x) \/ (x = Isr /\ pc[Isr] = "off"),
             x = Isr => pc[Isr] \notin {"tickWoke", "switch"},
             x \in Tasks => pc[x] # "switch",
             NEW where \in PCs \ {"selfSwitch", "takeSwitch"},
             pc' = [pc EXCEPT ![x] = where] \/ pc' = pc,
             UNCHANGED <<ready, state, current>>
      PROVE  TopInv'
  <2>1. \A t \in Tasks : Blocking(t)' => Blocking(t)
    BY <1>0, <1>5, TakersAreTasks DEF Blocking
  <2>2. SwitchComes => SwitchComes'
    <3>1. CASE x \in Tasks
      <4>1. ~SwitchComes
        BY <1>0, <1>5, <3>1, ExecutesWho, TakersAreTasks DEF SwitchComes
      <4> QED BY <4>1
    <3>2. CASE x = Isr
      <4>1. pc'[current] = pc[current] /\ pc[Isr] \notin {"tickWoke", "switch"}
        BY <1>0, <1>5, <3>2, TakersAreTasks
      <4> QED BY <1>5, <4>1 DEF SwitchComes
    <3> QED BY <3>1, <3>2, TakersAreTasks
  <2> QED BY <1>5, <2>1, <2>2, TopSame
<1>6. ASSUME NEW u \in Tasks,
             \/ \E s \in Sems, n \in TakeTimeouts : TakeCheck(u, s, n)
             \/ TakeFast(u) \/ TakeRecheck(u) \/ TakeReturn(u)
      PROVE  TopInv'
  <2>1. /\ Executes(u) /\ pc[u] # "switch" /\ UNCHANGED <<ready, state, current>>
        /\ pc' = pc \/ \E where \in {"run", "takeFast", "takeLock"} :
                         pc' = [pc EXCEPT ![u] = where]
    BY <1>6 DEF TakeCheck, TakeFast, TakeRecheck, TakeReturn, TakeToken, At, Goto, listVars
  <2>2. \E where \in PCs \ {"selfSwitch", "takeSwitch"} :
          pc' = [pc EXCEPT ![u] = where] \/ pc' = pc
    BY <2>1 DEF PCs
  <2> QED BY <1>5, <2>1, <2>2, TakersAreTasks
<1>7. ASSUME NEW x \in Agents, NEW s \in Sems, GiveLocked(x, s),
             x \in Tasks => At(x, "run"), x = Isr => pc[Isr] = "off"
      PROVE  TopInv'
  <2>1. /\ UNCHANGED <<ready, state, current>>
        /\ pc' = pc \/ \E where \in {"off", "run", "giveCheck"} :
                         pc' = [pc EXCEPT ![x] = where]
    BY <1>7 DEF GiveLocked, Goto, Home, Break, listVars
  <2>2. \E where \in PCs \ {"selfSwitch", "takeSwitch"} :
          pc' = [pc EXCEPT ![x] = where] \/ pc' = pc
    BY <2>1 DEF PCs
  <2> QED BY <1>5, <1>7, <2>1, <2>2, TakersAreTasks DEF At
<1>8. ASSUME NEW x \in Agents, GiveCheck(x)
      PROVE  TopInv'
  <2>1. /\ Executes(x) /\ pc[x] = "giveCheck" /\ UNCHANGED <<ready, state, current>>
        /\ \E where \in {"off", "run", "giveReady"} : pc' = [pc EXCEPT ![x] = where]
    BY <1>8 DEF GiveCheck, At, Goto, Home, listVars
  <2>2. \E where \in PCs \ {"selfSwitch", "takeSwitch"} :
          pc' = [pc EXCEPT ![x] = where] \/ pc' = pc
    BY <2>1 DEF PCs
  <2> QED BY <1>5, <2>1, <2>2
<1>9. ASSUME NEW u \in Tasks, MakeReady(u), UNCHANGED current, SwitchComes',
             \A t \in Tasks : Blocking(t)' => Blocking(t)
      PROVE  TopInv'
  <2>1. /\ \A x : x \in Range(ready') <=> x \in Range(ready) \/ x = u
        /\ \A t \in Tasks : state'[t] = IF t = u THEN READY ELSE state[t]
    BY <1>0, <1>9, ReadyWith DEF MakeReady
  <2> QED BY <1>9, <2>1 DEF TopInv, OnTop
<1>10. ASSUME NEW x \in Agents, GiveReady(x)
       PROVE  TopInv'
  <2>1. /\ Executes(x) /\ pc[x] = "giveReady" /\ MakeReady(target[x]) /\ UNCHANGED current
        /\ pc' = [pc EXCEPT ![x] = "switch"] /\ target[x] \in Tasks
        /\ x = current \/ x = Isr
    BY <1>0, <1>10, ExecutesWho, TakersAreTasks DEF GiveReady, At, Goto, TypeInv
  <2>2. SwitchComes' /\ \A t \in Tasks : Blocking(t)' => Blocking(t)
    BY <1>0, <2>1, TakersAreTasks DEF SwitchComes, Blocking
  <2> QED BY <1>9, <2>1, <2>2
<1>11. CASE TickWake
  <2>1. /\ sleep # <<>> /\ MakeReady(Head(sleep)) /\ UNCHANGED current
        /\ pc' = [pc EXCEPT ![Isr] = "tickWoke"]
    BY <1>11 DEF TickWake, Goto
  <2>2. Head(sleep) \in Tasks
    BY <1>0, <2>1, SleepTail
  <2>3. SwitchComes' /\ \A t \in Tasks : Blocking(t)' => Blocking(t)
    BY <1>0, <2>1, TakersAreTasks DEF SwitchComes, Blocking
  <2> QED BY <1>9, <2>1, <2>2, <2>3
<1>12. CASE TickStart \/ TickDone
  <2>1. /\ UNCHANGED <<ready, state, current>>
        /\ \/ pc' = [pc EXCEPT ![Isr] = "tick"] /\ pc[Isr] = "off"
           \/ pc' = [pc EXCEPT ![Isr] = "off"] /\ pc[Isr] = "tick"
           \/ pc' = [pc EXCEPT ![Isr] = "switch"]
    BY <1>12 DEF TickStart, TickDone, Goto, listVars
  <2>2. \A t \in Tasks : pc'[t] = pc[t]
    BY <1>0, <2>1, TakersAreTasks
  <2>3. SwitchComes => SwitchComes'
    BY <1>0, <2>1, <2>2, TakersAreTasks DEF SwitchComes
  <2> QED BY <2>1, <2>2, <2>3, TopSame DEF Blocking
<1>13. CASE IdleReap
  <2>1. /\ Executes(Idle) /\ pc[Idle] = "run" /\ UNCHANGED <<ready, current, pc>>
    BY <1>13 DEF IdleReap, At
  <2>2. current = Idle
    BY <1>0, <2>1, ExecutesWho, TaskAssumption
  <2>3. \A t \in Tasks : OnTop(t) => ~Blocking(t)
    BY <2>1, <2>2 DEF TopInv, Blocking
  <2> QED BY <2>1, <2>3 DEF TopInv, OnTop, Blocking, SwitchComes
<1>14. ASSUME NEW x \in Agents, Switch(x)
       PROVE  TopInv'
  <2>1. TaskSwitch(x, "switch", FALSE, Home(x)) /\ Home(x) \in {"off", "run", "takeRet"}
    BY <1>14 DEF Switch, Home
  <2> QED BY <2>1, TopSwitch
<1>15. ASSUME NEW t \in Tasks, SelfSwitch(t) \/ TakeSwitch(t)
       PROVE  TopInv'
  <2>1. CASE SelfSwitch(t)
    BY <2>1, TopSwitch, TakersAreTasks DEF SelfSwitch
  <2>2. CASE TakeSwitch(t)
    BY <2>2, TopSwitch, TakersAreTasks DEF TakeSwitch
  <2> QED BY <1>15, <2>1, <2>2
<1>16. ASSUME NEW x \in Agents, GiveReadyFails(x) \/ SwitchFails(x)
       PROVE  TopInv'
  <2>1. UNCHANGED <<ready, state, current, pc>>
    BY <1>16 DEF GiveReadyFails, SwitchFails, SwitchFault, Break
  <2> QED BY <2>1, TopSame DEF SwitchComes, Blocking
<1>17. ASSUME NEW t \in Tasks, TaskNext(t)
       PROVE  TopInv'
  <2>1. CASE \E u \in Tasks : Create(t, u)
    BY <1>2, <2>1 DEF Create, At
  <2>2. CASE \E s \in Sems : Give(t, s)
    BY <1>7, <2>2, TakersAreTasks DEF Give
  <2> QED BY <1>4, <1>6, <1>15, <1>17, <2>1, <2>2 DEF TaskNext
<1>18. CASE \E s \in IsrSems : IsrGive(s)
  BY <1>7, <1>18, TakersAreTasks DEF IsrGive
<1>19. CASE IdleBoot
  BY <1>2, <1>19, TaskAssumption DEF IdleBoot, At
<1> QED BY <1>1, <1>8, <1>10, <1>11, <1>12, <1>13, <1>14, <1>16, <1>17, <1>18, <1>19
        DEF Next, GiveNext, IsrNext

LEMMA TopInit == Init => TopInv
<1> SUFFICES ASSUME Init PROVE TopInv
  OBVIOUS
<1>1. ready = <<>> /\ \A t \in Tasks : pc[t] \in {"run", "boot"}
  BY TakersAreTasks DEF Init
<1>2. Range(ready) = {}
  BY <1>1 DEF Range
<1> QED BY <1>1, <1>2 DEF TopInv, Blocking

\* Between the unlock of a give and its read of tcb->state nobody else can wake
\* the task it works on, nor free it.
HeldInv ==
  \A x \in Agents : Giving(x) =>
    /\ \A s \in Sems : waiter[s] # target[x]
    /\ \A y \in Agents : Giving(y) /\ y # x => target[y] # target[x]
    /\ x \in Tasks =>
         /\ Prio[x] < Prio[Idle] /\ current # Idle /\ state[x] \in {RUN, READY}
         /\ target[x] # x =>
              state[target[x]] \in {WAIT, DEAD} /\ ~(timeout[target[x]] > 0)

LEMMA HeldSame ==
  ASSUME HeldInv, UNCHANGED <<waiter, current, state, timeout>>,
         \A x \in Agents : Giving(x)' => Giving(x) /\ target'[x] = target[x]
  PROVE  HeldInv'
BY DEF HeldInv

\* The task that gives, and the one it has found, while the processor goes to
\* another: it does not go to IDLE.
LEMMA HeldSwitch ==
  ASSUME TypeInv, KernelInv, ReadyInv, HeldInv, NEW y \in Agents, NEW where, NEW self, NEW next,
         TaskSwitch(y, where, self, next), self = (where # "switch"),
         where \in {"selfSwitch", "takeSwitch"} => y \in Tasks,
         where \in {"switch", "selfSwitch", "takeSwitch"},
         NEW x \in Tasks, Giving(x)
  PROVE  /\ current' # Idle /\ state'[x] \in {RUN, READY}
         /\ target[x] # x =>
              state'[target[x]] \in {WAIT, DEAD} /\ ~(timeout'[target[x]] > 0)
<1>0. /\ TypeOK /\ ready \in Seq(Tasks) /\ current \in Tasks /\ KernelGood /\ ReadyGood
      /\ Consistent /\ x \in Agents /\ target[x] \in Tasks
  BY TakersAreTasks
  DEF TypeInv, TypeOK, TaskSwitch, At, Executes, KernelInv, KernelGood, ReadyInv, Giving
<1>1. /\ pc[y] = where /\ UNCHANGED <<sleep, dead, timeout>> /\ ready # <<>>
      /\ y \in Tasks => y = current
  BY <1>0, ExecutesWho DEF TaskSwitch, At, SwitchBreaks
<1>2. /\ Prio[x] < Prio[Idle] /\ current # Idle /\ state[x] \in {RUN, READY}
      /\ target[x] # x => state[target[x]] \in {WAIT, DEAD} /\ ~(timeout[target[x]] > 0)
  BY <1>0 DEF HeldInv
<1>3. CASE StaysOnCpu(self)
  <2>1. UNCHANGED <<state, current>>
    BY <1>3 DEF TaskSwitch
  <2> QED BY <1>1, <1>2, <2>1
<1>4. CASE ~StaysOnCpu(self)
  <2>1. /\ Dispatch /\ ~(Requeues /\ Linked(current))
        /\ ~self => ~(Prio[current] < Prio[Head(ready)])
    BY <1>1, <1>4 DEF TaskSwitch, SwitchBreaks, StaysOnCpu
  <2>2. /\ current' \in Range(ready) /\ current' \in Tasks /\ state[current'] = READY
        /\ \A u \in Range(ready) : Prio[current'] <= Prio[u]
        /\ \A u \in Tasks : state'[u] = IF u = current' THEN RUN
                                        ELSE IF u = current /\ Requeues THEN READY
                                        ELSE state[u]
    BY <1>0, <1>1, <2>1, DispatchMoves DEF ReadyGood
  <2>3. current' = Head(ready)
    BY <2>1 DEF Dispatch
  <2>4. Prio[current'] <= Prio[x]
    <3>1. CASE x = current
      <4>1. y = Isr /\ ~self
        BY <1>1, <3>1, TakersAreTasks DEF Giving
      <4> QED BY <1>0, <2>1, <2>2, <2>3, <3>1, <4>1, PrioIsKey
    <3>2. CASE x # current
      <4>1. x \in Range(ready)
        BY <1>0, <1>2, <3>2 DEF Consistent, RUN, READY
      <4> QED BY <2>2, <4>1
    <3> QED BY <3>1, <3>2
  <2>5. current' # Idle
    <3>1. SUFFICES ASSUME current' = Idle PROVE FALSE
      OBVIOUS
    <3>2. Prio[Idle] <= Prio[x] /\ Prio[x] \in Int /\ Prio[Idle] \in Int
      BY <2>2, <2>4, <3>1, PrioIsKey
    <3> QED BY <1>2, <3>2
  <2>6. state'[x] \in {RUN, READY}
    BY <1>2, <2>2
  <2>7. target[x] # x => state'[target[x]] \in {WAIT, DEAD}
    BY <1>0, <1>2, <2>2 DEF Requeues, READY, RUN, WAIT, DEAD
  <2> QED BY <1>1, <1>2, <2>5, <2>6, <2>7
<1> QED BY <1>3, <1>4

\* Nothing but another step of a semaphore changes what a give has found.
LEMMA HeldOthers ==
  ASSUME UptimeBelowWrap, TypeInv, KernelInv, ReadyInv, HeldInv, Next, ~SemAction,
         NEW x \in Tasks, Giving(x), Giving(x)'
  PROVE  /\ current' # Idle /\ state'[x] \in {RUN, READY}
         /\ target[x] # x =>
              state'[target[x]] \in {WAIT, DEAD} /\ ~(timeout'[target[x]] > 0)
<1>0. /\ TypeOK /\ KernelGood /\ Consistent /\ x \in Agents /\ target[x] \in Tasks
      /\ pc \in [Agents -> PCs] /\ current \in Tasks
      /\ state \in [Tasks -> {READY, RUN, WAIT, DEAD, FREE}]
      /\ timeout \in [Tasks -> Int]
  BY NextWhole, TakersAreTasks DEF TypeInv, TypeOK, KernelInv, KernelGood, Giving
<1>1. /\ current # Idle /\ state[x] \in {RUN, READY}
      /\ target[x] # x => state[target[x]] \in {WAIT, DEAD} /\ ~(timeout[target[x]] > 0)
  BY <1>0 DEF HeldInv
<1> DEFINE Kept == /\ current' # Idle /\ state'[x] \in {RUN, READY}
                   /\ target[x] # x =>
                        state'[target[x]] \in {WAIT, DEAD} /\ ~(timeout'[target[x]] > 0)
<1>2. ASSUME NEW c \in Tasks, NEW u \in Tasks, StartTask(c, u)
      PROVE  Kept
  <2>1. /\ state[u] = FREE /\ UNCHANGED current
        /\ timeout' = [timeout EXCEPT ![u] = 0] /\ state' = [state EXCEPT ![u] = READY]
    BY <1>2 DEF StartTask, MakeReady
  <2> QED BY <1>0, <1>1, <2>1 DEF WAIT, DEAD, FREE, READY, RUN
<1>3. ASSUME NEW u \in Tasks, \/ \E n \in Delays : Delay(u, n)
                              \/ Yield(u) \/ Exit(u)
      PROVE  Kept
  <2>1. /\ Executes(u) /\ pc[u] = "run" /\ UNCHANGED current
        /\ \E w : state' = [state EXCEPT ![u] = w]
        /\ timeout' = timeout \/ \E n : timeout' = [timeout EXCEPT ![u] = n]
    BY <1>3 DEF Delay, Yield, Exit, At
  <2>2. state[u] = RUN /\ u # x
    BY <1>0, <2>1, CallerRuns DEF Giving
  <2>3. target[x] # x => target[x] # u
    BY <1>1, <2>2 DEF WAIT, DEAD, RUN
  <2> QED BY <1>0, <1>1, <2>1, <2>2, <2>3
<1>4. ASSUME NEW u \in Tasks, SelfSwitch(u) \/ TakeSwitch(u)
      PROVE  Kept
  <2>1. CASE SelfSwitch(u)
    BY <2>1, HeldSwitch, TakersAreTasks DEF SelfSwitch
  <2>2. CASE TakeSwitch(u)
    BY <2>2, HeldSwitch, TakersAreTasks DEF TakeSwitch
  <2> QED BY <1>4, <2>1, <2>2
<1>14. ASSUME NEW y \in Agents, Switch(y)
       PROVE  Kept
  BY <1>14, HeldSwitch DEF Switch
<1>5. ASSUME UNCHANGED <<current, state, timeout>>
      PROVE  Kept
  BY <1>1, <1>5
<1>6. ASSUME NEW y \in Agents, GiveReady(y)
      PROVE  Kept
  <2>1. /\ UNCHANGED <<timeout, current>> /\ state' = [state EXCEPT ![target[y]] = READY]
        /\ pc[y] = "giveReady" /\ pc' = [pc EXCEPT ![y] = "switch"]
    BY <1>6 DEF GiveReady, MakeReady, At, Goto
  <2>2. y # x
    BY <1>0, <2>1 DEF Giving
  <2>3. target[y] # target[x]
    BY <1>0, <2>1, <2>2 DEF HeldInv, Giving
  <2>4. \A u \in Tasks : state'[u] = IF u = target[y] THEN READY ELSE state[u]
    BY <1>0, <2>1
  <2> QED BY <1>0, <1>1, <2>1, <2>3, <2>4
<1>7. ASSUME TickWake
      PROVE  Kept
  <2> DEFINE u == Head(sleep)
  <2>1. /\ sleep # <<>> /\ timeout' = [timeout EXCEPT ![u] = 0] /\ UNCHANGED current
        /\ state' = [state EXCEPT ![u] = READY]
    BY <1>7 DEF TickWake, MakeReady
  <2>2. u \in Tasks /\ timeout[u] > 0
    BY <1>0, <2>1, SleepTail DEF Consistent
  <2> HIDE DEF u
  <2>3. /\ \A v \in Tasks : state'[v] = IF v = u THEN READY ELSE state[v]
        /\ \A v \in Tasks : timeout'[v] = IF v = u THEN 0 ELSE timeout[v]
    BY <1>0, <2>1
  <2> QED BY <1>0, <1>1, <2>1, <2>2, <2>3
<1>8. ~IdleReap
  BY <1>0, <1>1, ExecutesWho, TaskAssumption DEF IdleReap, At
<1>9. ASSUME NEW y \in Agents, GiveCheck(y) \/ GiveReadyFails(y) \/ SwitchFails(y)
      PROVE  Kept
  BY <1>5, <1>9 DEF GiveCheck, GiveReadyFails, SwitchFails, SwitchFault, Break
<1>10. ASSUME TickStart \/ TickDone
       PROVE  Kept
  BY <1>5, <1>10 DEF TickStart, TickDone
<1>11. ASSUME NEW u \in Tasks, TaskNext(u)
       PROVE  Kept
  <2>1. CASE \E v \in Tasks : Create(u, v)
    BY <1>2, <2>1 DEF Create
  <2>2. CASE \E s \in Sems : Give(u, s)
    BY <2>2, TakersAreTasks DEF Give, SemAction
  <2> QED BY <1>3, <1>4, <1>11, <2>1, <2>2, TakersAreTasks DEF TaskNext, SemAction
<1>12. ~\E s \in IsrSems : IsrGive(s)
  BY TakersAreTasks DEF IsrGive, SemAction
<1>13. ASSUME IdleBoot
       PROVE  Kept
  BY <1>2, <1>13, TaskAssumption DEF IdleBoot
<1> HIDE DEF Kept
<1>15. ASSUME NEW y \in Agents, GiveNext(y) \/ Switch(y) \/ SwitchFails(y)
       PROVE  Kept
  BY <1>6, <1>9, <1>14, <1>15 DEF GiveNext
<1>16. ASSUME IsrNext
       PROVE  Kept
  BY <1>7, <1>10, <1>12, <1>16 DEF IsrNext
<1>17. Kept
  BY <1>8, <1>11, <1>13, <1>15, <1>16 DEF Next
<1> QED BY <1>17 DEF Kept

LEMMA HeldStep ==
  ASSUME UptimeBelowWrap, OneSemaphore, GiversBelow, TypeInv, KernelInv, ReadyInv, ValueInv,
         TopInv, HeldInv, [Next]_vars
  PROVE  HeldInv'
<1>0. /\ TypeOK /\ pc \in [Agents -> PCs] /\ target \in [Agents -> Tasks \cup {None}]
      /\ waiter \in [Sems -> Tasks \cup {None}] /\ timeout \in [Tasks -> Int]
      /\ state \in [Tasks -> {READY, RUN, WAIT, DEAD, FREE}] /\ current \in Tasks
      /\ \A x \in Agents : Giving(x) => target[x] \in Tasks
  BY DEF TypeInv, TypeOK, Giving
<1>1. CASE UNCHANGED vars
  BY <1>1, HeldSame DEF vars, semVars, localVars, Giving
<1>2. CASE Next /\ ~SemAction
  <2>1. UNCHANGED waiter
    BY <1>2, TakeSame
  <2>2. \A x \in Agents : Giving(x)' => Giving(x) /\ target'[x] = target[x]
    BY <1>2, GivingSame DEF Giving
  <2>3. ASSUME NEW x \in Tasks, Giving(x)'
        PROVE  /\ current' # Idle /\ state'[x] \in {RUN, READY}
               /\ target'[x] # x =>
                    state'[target'[x]] \in {WAIT, DEAD} /\ ~(timeout'[target'[x]] > 0)
    <3>1. Giving(x) /\ target'[x] = target[x]
      BY <2>2, <2>3, TakersAreTasks
    <3> QED BY <1>2, <2>3, <3>1, HeldOthers
  <2> QED BY <2>1, <2>2, <2>3 DEF HeldInv
<1>3. ASSUME NEW t \in Tasks,
             \/ \E s \in Sems, n \in TakeTimeouts : TakeCheck(t, s, n)
             \/ TakeFast(t) \/ TakeRecheck(t) \/ TakeReturn(t)
      PROVE  HeldInv'
  <2>1. /\ UNCHANGED <<waiter, current, state, timeout, target>>
        /\ pc' = pc \/ \E where \in {"takeFast", "takeLock", "run"} :
                         pc' = [pc EXCEPT ![t] = where]
    BY <1>3 DEF TakeCheck, TakeFast, TakeRecheck, TakeReturn, TakeToken, At, Goto, semVars
  <2>2. \A x \in Agents : Giving(x)' => Giving(x)
    BY <1>0, <2>1 DEF Giving
  <2> QED BY <2>1, <2>2, HeldSame
<1>4. ASSUME NEW t \in Tasks, TakeWait(t)
      PROVE  HeldInv'
  <2>1. /\ Executes(t) /\ pc[t] = "takeLock" /\ UNCHANGED <<current, target>>
        /\ waiter' = [waiter EXCEPT ![call[t].sem] = t]
        /\ state' = [state EXCEPT ![t] = WAIT]
        /\ \E n : timeout' = [timeout EXCEPT ![t] = n]
        /\ pc' = [pc EXCEPT ![t] = "takeSwitch"]
    BY <1>4 DEF TakeWait, At, Goto, localVars
  <2>2. t = current /\ state[t] = RUN /\ pc[Isr] = "off"
    BY <1>0, <2>1, CallerRuns, ExecutesWho DEF KernelInv, Executes
  <2>3. \A x \in Agents : Giving(x)' => Giving(x) /\ x \in Tasks /\ x # t
    BY <1>0, <2>1, <2>2, TakersAreTasks DEF Giving
  <2>4. /\ \A s \in Sems : waiter'[s] \in {waiter[s], t}
        /\ \A u \in Tasks : u # t => state'[u] = state[u] /\ timeout'[u] = timeout[u]
    BY <1>0, <2>1
  <2>5. \A x \in Agents : Giving(x)' => target[x] # t
    <3> SUFFICES ASSUME NEW x \in Agents, Giving(x)' PROVE target[x] # t
      OBVIOUS
    <3>1. Giving(x) /\ x \in Tasks /\ x # t
      BY <2>3
    <3>2. target[x] # x => state[target[x]] \in {WAIT, DEAD}
      BY <3>1 DEF HeldInv
    <3> QED BY <2>2, <3>1, <3>2 DEF WAIT, DEAD, RUN
  <2> QED BY <1>0, <2>1, <2>3, <2>4, <2>5 DEF HeldInv
<1>5. ASSUME NEW x \in Agents, NEW s \in Sems, GiveLocked(x, s),
             x \in Tasks => At(x, "run") /\ x \in Givers[s], x = Isr => pc[Isr] = "off"
      PROVE  HeldInv'
  <2>1. UNCHANGED <<current, state>> /\ ~Giving(x)
    BY <1>5, TakersAreTasks DEF GiveLocked, Break, At, Giving
  <2>2. CASE waiter[s] = None \/ state[waiter[s]] = FREE
    <3>1. /\ UNCHANGED <<waiter, timeout, target>>
          /\ pc' = [pc EXCEPT ![x] = Home(x)] \/ pc' = pc
      BY <1>5, <2>2 DEF GiveLocked, Goto, Break, localVars
    <3>2. \A y \in Agents : Giving(y)' => Giving(y)
      BY <1>0, <3>1 DEF Giving, Home
    <3> QED BY <2>1, <3>1, <3>2, HeldSame
  <2>3. CASE waiter[s] # None /\ state[waiter[s]] # FREE
    <3>1. /\ waiter' = [waiter EXCEPT ![s] = None] /\ pc' = [pc EXCEPT ![x] = "giveCheck"]
          /\ target' = [target EXCEPT ![x] = waiter[s]]
          /\ IF timeout[waiter[s]] > 0 THEN timeout' = [timeout EXCEPT ![waiter[s]] = 0]
                                       ELSE UNCHANGED timeout
      BY <1>5, <2>3 DEF GiveLocked, Goto
    <3>2. PICK t \in Tasks : t = waiter[s] /\ t \in Takers[s]
      BY <1>0, <2>3, TakersAreTasks DEF ValueInv
    <3>3. /\ target'[x] = t
          /\ \A y \in Agents : y # x => target'[y] = target[y] /\ (Giving(y)' => Giving(y))
          /\ waiter'[s] = None /\ \A r \in Sems : r # s => waiter'[r] = waiter[r]
      BY <1>0, <3>1, <3>2 DEF Giving
    <3>4. \A r \in Sems : waiter'[r] # t
      <4> SUFFICES ASSUME NEW r \in Sems, waiter'[r] = t PROVE FALSE
        OBVIOUS
      <4>1. r # s
        BY <3>3, TakersAreTasks
      <4>2. t \in Takers[r]
        BY <3>3, <4>1, TakersAreTasks DEF ValueInv
      <4> QED BY <3>2, <4>1, <4>2 DEF OneSemaphore
    <3>5. \A u \in Tasks : timeout'[u] > 0 => timeout[u] > 0 /\ u # t
      <4>1. CASE timeout[t] > 0
        <5>1. timeout' = [timeout EXCEPT ![t] = 0]
          BY <3>1, <3>2, <4>1
        <5> QED BY <1>0, <5>1, TimeoutCleared
      <4>2. CASE ~(timeout[t] > 0)
        BY <3>1, <3>2, <4>2
      <4> QED BY <4>1, <4>2
    <3>6. ASSUME NEW y \in Agents, Giving(y)', y # x
          PROVE  /\ \A r \in Sems : waiter'[r] # target'[y]
                 /\ target'[y] # t
                 /\ y \in Tasks =>
                      /\ Prio[y] < Prio[Idle] /\ current' # Idle /\ state'[y] \in {RUN, READY}
                      /\ target'[y] # y =>
                           /\ state'[target'[y]] \in {WAIT, DEAD}
                           /\ ~(timeout'[target'[y]] > 0)
      <4>1. Giving(y) /\ target'[y] = target[y] /\ target[y] \in Tasks
        BY <1>0, <3>3, <3>6
      <4>2. \A r \in Sems : waiter'[r] # target[y]
        BY <3>3, <4>1, TakersAreTasks DEF HeldInv
      <4>3. target[y] # t
        BY <3>2, <4>1 DEF HeldInv
      <4> QED BY <2>1, <3>5, <4>1, <4>2, <4>3 DEF HeldInv
    <3>7. ASSUME x \in Tasks
          PROVE  /\ Prio[x] < Prio[Idle] /\ current' # Idle /\ state'[x] \in {RUN, READY}
                 /\ t # x => state'[t] \in {WAIT, DEAD} /\ ~(timeout'[t] > 0)
      <4>1. /\ Executes(x) /\ pc[x] = "run" /\ x \in Givers[s]
        BY <1>5, <3>7 DEF At
      <4>2. x = current /\ state[x] = RUN /\ pc[Isr] = "off"
        BY <1>0, <3>7, <4>1, CallerRuns, ExecutesWho DEF KernelInv, Executes
      <4>3. Prio[x] < Prio[Idle] /\ OnTop(t) /\ x # Idle
        BY <3>2, <4>1, CallAssumption DEF GiversBelow
      <4>4. t \notin Range(ready)
        BY <4>1, <4>2, <4>3 DEF TopInv, SwitchComes
      <4>5. t # x => state[t] \in {WAIT, DEAD}
        <5>1. Consistent
          BY <4>1 DEF Executes, KernelInv, KernelGood
        <5> QED BY <1>0, <2>3, <3>2, <4>2, <4>4, <5>1 DEF Consistent
      <4> QED BY <2>1, <3>5, <4>2, <4>3, <4>5
    <3> QED BY <3>3, <3>4, <3>6, <3>7 DEF HeldInv
  <2> QED BY <2>2, <2>3
<1> QED BY <1>1, <1>2, <1>3, <1>4, <1>5 DEF SemAction

LEMMA HeldInit == Init => HeldInv
BY TakersAreTasks, TaskAssumption DEF Init, HeldInv, Giving, Agents

\* A give under way works on a task that no semaphore points at.
LEMMA GiversApart ==
  ASSUME UptimeBelowWrap, OneTaker, OneSemaphore, TakesUntimed \/ GiversBelow
  PROVE  Spec => [](TypeInv /\ KernelInv /\ ReadyInv /\ WakeupInv /\ ValueInv /\ GiverInv)
<1>1. /\ TypeInv /\ [Next]_vars => TypeInv'
      /\ TypeInv /\ KernelInv /\ [Next]_vars => KernelInv'
      /\ TypeInv /\ KernelInv /\ ReadyInv /\ [Next]_vars => ReadyInv'
      /\ OneTaker /\ TypeInv /\ WakeupInv /\ [Next]_vars => WakeupInv'
      /\ TypeInv /\ ReadyInv /\ WakeupInv /\ ValueInv /\ [Next]_vars => ValueInv'
  BY TypeStep, KernelStep, ReadyStep, WakeupStep, ValueStep
<1>2. CASE TakesUntimed
  <2>1. TypeInv /\ KernelInv /\ UntimedInv /\ [Next]_vars => UntimedInv'
    BY <1>2, UntimedStep
  <2>2. TypeInv /\ UntimedInv => GiverInv
    BY DEF TypeInv, UntimedInv, WaitOf, GiverInv, Giving
  <2>3. Init => UntimedInv
    BY LateStart, TaskAssumption DEF Init, UntimedInv, Taking, Agents
  <2> QED BY <1>1, <2>1, <2>2, <2>3, TypeInit, KernelInit, ReadyInit, ContractInit,
             PTL DEF Spec
<1>3. CASE GiversBelow
  <2>1. /\ TypeInv /\ KernelInv /\ ReadyInv /\ TopInv /\ [Next]_vars => TopInv'
        /\ OneSemaphore /\ TypeInv /\ KernelInv /\ ReadyInv /\ ValueInv /\ TopInv /\ HeldInv
             /\ [Next]_vars => HeldInv'
    BY <1>3, TopStep, HeldStep
  <2>2. HeldInv => GiverInv
    BY DEF HeldInv, GiverInv
  <2> QED BY <1>1, <2>1, <2>2, TypeInit, KernelInit, ReadyInit, TopInit, HeldInit,
             ContractInit, PTL DEF Spec
<1> QED BY <1>2, <1>3

\* The semaphores keep the contract of XosSemaphore (xos_sem_take, xos_sem_give),
\* when each has one taker and each taker one semaphore, for any number of tasks
\* and handlers, if no take has a deadline, or if a taker that tasks wake is the
\* most urgent task (handlers may wake any).
THEOREM ContractKept ==
  ASSUME UptimeBelowWrap, OneTaker, OneSemaphore, TakesUntimed \/ GiversBelow
  PROVE  Spec => Contract
<1>1. Spec => [](TypeInv /\ KernelInv /\ ReadyInv /\ WakeupInv /\ ValueInv /\ GiverInv)
  BY GiversApart
<1>2. TypeInv /\ KernelInv /\ ReadyInv /\ WakeupInv /\ ValueInv /\ GiverInv /\ AnswerInv
        /\ [Next]_vars => AnswerInv'
  BY AnswerStep
<1>3. TypeInv /\ KernelInv /\ ReadyInv /\ WakeupInv /\ ValueInv /\ AnswerInv /\ [Next]_vars
        => [Sem!Next]_(Sem!semVars)
  BY SemStep
<1>4. Init => Sem!Init /\ AnswerInv
  BY SemInit, ContractInit
<1> QED BY <1>1, <1>2, <1>3, <1>4, PTL DEF Spec, Contract, Sem!Spec
=============================================================================
