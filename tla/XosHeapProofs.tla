---------------------------- MODULE XosHeapProofs ---------------------------
(***************************************************************************)
(* Until it breaks, the heap of XosHeap is tiled by its blocks, its free   *)
(* neighbours are merged and its free list is exact and has no cycle, for  *)
(* every size of the heap, any number of tasks and any requests.           *)
(***************************************************************************)
EXTENDS XosHeap, TLAPS

\* The addresses as numbers.
LEMMA Layout ==
  /\ Units \in Nat /\ Head = 0 /\ First = 2 /\ Tail \in Nat /\ Tail >= 6
  /\ Addr = 0..Tail /\ Null \in Int /\ Null < 0 /\ Null \notin Addr
  /\ Head \in Addr /\ First \in Addr /\ Tail \in Addr
  /\ \A s \in Sizes : s \in Nat /\ s > 0
BY HeapAssumption DEF Head, First, Tail, Addr

Words == [Addr -> Addr \cup {Null}]
-----------------------------------------------------------------------------
(* Blocks one behind the other, from the head to the tail.                 *)

TilesIn(B, nx, pv) ==
  /\ nx[Tail] = Null
  /\ \A a \in B \ {Tail} :
       /\ nx[a] \in B /\ a + 2 <= nx[a] /\ pv[nx[a]] = a
       /\ \A b \in B : b <= a \/ nx[a] <= b
  /\ \A a \in B \ {Head} : pv[a] \in B \ {Tail} /\ nx[pv[a]] = a

\* A block that is merged into the one before it (xos_free).
LEMMA CutTile ==
  ASSUME NEW B \in SUBSET Addr, Head \in B, Tail \in B,
         NEW nx, NEW pv, TilesIn(B, nx, pv),
         NEW x \in B \ {Head, Tail},
         NEW nx2, NEW pv2,
         \A a \in B \ {x} :
           /\ nx2[a] = IF a = pv[x] THEN nx[x] ELSE nx[a]
           /\ pv2[a] = IF a = nx[x] THEN pv[x] ELSE pv[a]
  PROVE  TilesIn(B \ {x}, nx2, pv2)
<1>a. \A b \in B : b \in Int
  BY Layout
<1>b. nx[x] \in B /\ x + 2 <= nx[x] /\ pv[nx[x]] = x
  BY DEF TilesIn
<1>c. pv[x] \in B /\ pv[x] # Tail /\ nx[pv[x]] = x
  BY DEF TilesIn
<1>d. pv[x] + 2 <= nx[pv[x]]
  BY <1>c DEF TilesIn
<1>1. /\ nx[x] \in B /\ x + 2 <= nx[x] /\ pv[nx[x]] = x
      /\ pv[x] \in B /\ pv[x] # Tail /\ nx[pv[x]] = x /\ pv[x] + 2 <= x
      /\ \A b \in B : b \in Int
  BY <1>a, <1>b, <1>c, <1>d
<1>2. nx2[Tail] = Null
  BY <1>1 DEF TilesIn
<1>3. ASSUME NEW a \in (B \ {x}) \ {Tail}
      PROVE  /\ nx2[a] \in B \ {x} /\ a + 2 <= nx2[a] /\ pv2[nx2[a]] = a
             /\ \A b \in B \ {x} : b <= a \/ nx2[a] <= b
  <2>1. CASE a = pv[x]
    <3>1. nx2[a] = nx[x]
      BY <2>1
    <3>2. pv2[nx2[a]] = a
      BY <1>1, <2>1, <3>1
    <3>3. ASSUME NEW b \in B \ {x}
          PROVE  b <= a \/ nx2[a] <= b
      <4>1. b <= a \/ x <= b
        BY <1>1, <2>1 DEF TilesIn
      <4>2. b <= x \/ nx[x] <= b
        BY DEF TilesIn
      <4> QED BY <1>1, <3>1, <4>1, <4>2
    <3> QED BY <1>1, <2>1, <3>1, <3>2, <3>3
  <2>2. CASE a # pv[x]
    <3>1. /\ nx2[a] = nx[a] /\ nx[a] \in B /\ a + 2 <= nx[a] /\ pv[nx[a]] = a
          /\ \A b \in B : b <= a \/ nx[a] <= b
      BY <2>2 DEF TilesIn
    <3>2. nx[a] # x /\ nx[a] # nx[x]
      BY <1>1, <2>2, <3>1
    <3> QED BY <3>1, <3>2
  <2> QED BY <2>1, <2>2
<1>4. ASSUME NEW a \in (B \ {x}) \ {Head}
      PROVE  pv2[a] \in (B \ {x}) \ {Tail} /\ nx2[pv2[a]] = a
  <2>1. CASE a = nx[x]
    BY <1>1, <2>1
  <2>2. CASE a # nx[x]
    <3>1. pv2[a] = pv[a] /\ pv[a] \in B \ {Tail} /\ nx[pv[a]] = a
      BY <2>2 DEF TilesIn
    <3>2. pv[a] # x /\ pv[a] # pv[x]
      BY <1>1, <2>2, <3>1
    <3> QED BY <3>1, <3>2
  <2> QED BY <2>1, <2>2
<1> QED BY <1>2, <1>3, <1>4 DEF TilesIn

\* A block that is split in two (xos_malloc).
LEMMA SplitTile ==
  ASSUME NEW B \in SUBSET Addr, Head \in B, Tail \in B,
         NEW nx, NEW pv, TilesIn(B, nx, pv),
         NEW x \in B \ {Tail}, NEW y \in Addr, x + 2 <= y, y + 2 <= nx[x],
         NEW nx2, NEW pv2,
         \A a \in B \cup {y} :
           /\ nx2[a] = IF a = y THEN nx[x] ELSE IF a = x THEN y ELSE nx[a]
           /\ pv2[a] = IF a = nx[x] THEN y ELSE IF a = y THEN x ELSE pv[a]
  PROVE  TilesIn(B \cup {y}, nx2, pv2)
<1>1. /\ nx[x] \in B /\ x + 2 <= nx[x] /\ pv[nx[x]] = x
      /\ \A b \in B : b <= x \/ nx[x] <= b
      /\ \A b \in B : b \in Int
      /\ x \in Int /\ y \in Int
  BY Layout DEF TilesIn
<1>2. y \notin B /\ x # y /\ nx[x] # y
  <2>1. nx[x] \in Int
    BY <1>1
  <2> QED BY <1>1, <2>1
<1>3. nx2[Tail] = Null
  BY <1>2 DEF TilesIn
<1>4. ASSUME NEW a \in (B \cup {y}) \ {Tail}
      PROVE  /\ nx2[a] \in B \cup {y} /\ a + 2 <= nx2[a] /\ pv2[nx2[a]] = a
             /\ \A b \in B \cup {y} : b <= a \/ nx2[a] <= b
  <2>1. CASE a = y
    <3>1. nx2[a] = nx[x] /\ pv2[nx[x]] = y
      BY <1>1, <2>1
    <3>2. ASSUME NEW b \in B
          PROVE  b <= y \/ nx[x] <= b
      <4>1. b \in Int /\ (b <= x \/ nx[x] <= b)
        BY <1>1
      <4> QED BY <1>1, <4>1
    <3> QED BY <1>1, <2>1, <3>1, <3>2
  <2>2. CASE a = x
    <3>1. nx2[a] = y /\ pv2[y] = x
      BY <1>2, <2>2
    <3>2. ASSUME NEW b \in B
          PROVE  b <= x \/ y <= b
      <4>1. b \in Int /\ nx[x] \in Int /\ (b <= x \/ nx[x] <= b)
        BY <1>1
      <4> QED BY <1>1, <4>1
    <3> QED BY <1>1, <2>2, <3>1, <3>2
  <2>3. CASE a # x /\ a # y
    <3>0. a \in B
      BY <2>3
    <3>1. /\ nx2[a] = nx[a] /\ nx[a] \in B /\ a + 2 <= nx[a] /\ pv[nx[a]] = a
          /\ \A b \in B : b <= a \/ nx[a] <= b
      BY <2>3 DEF TilesIn
    <3>2. pv2[nx[a]] = a
      BY <1>1, <1>2, <2>3, <3>1
    <3>3. y <= a \/ nx[a] <= y
      <4>1. (a <= x \/ nx[x] <= a) /\ (x <= a \/ nx[a] <= x)
        BY <1>1, <3>0, <3>1
      <4>2. a \in Int /\ nx[a] \in Int /\ nx[x] \in Int
        BY <1>1, <3>0, <3>1
      <4> QED BY <1>1, <2>3, <3>1, <4>1, <4>2
    <3> QED BY <3>1, <3>2, <3>3
  <2> QED BY <2>1, <2>2, <2>3
<1>5. ASSUME NEW a \in (B \cup {y}) \ {Head}
      PROVE  pv2[a] \in (B \cup {y}) \ {Tail} /\ nx2[pv2[a]] = a
  <2>1. CASE a = y
    <3>1. pv2[a] = x /\ nx2[x] = y
      BY <1>2, <2>1
    <3> QED BY <2>1, <3>1
  <2>2. CASE a = nx[x]
    <3>1. pv2[a] = y /\ nx2[y] = nx[x]
      BY <1>1, <2>2
    <3>2. y # Tail
      BY <1>2
    <3> QED BY <2>2, <3>1, <3>2
  <2>3. CASE a # y /\ a # nx[x]
    <3>1. pv2[a] = pv[a] /\ pv[a] \in B \ {Tail} /\ nx[pv[a]] = a
      BY <2>3 DEF TilesIn
    <3>2. pv[a] # x /\ pv[a] # y
      BY <1>2, <2>3, <3>1
    <3> QED BY <3>1, <3>2
  <2> QED BY <2>1, <2>2, <2>3
<1> QED BY <1>3, <1>4, <1>5 DEF TilesIn
-----------------------------------------------------------------------------
(* The free list: the blocks of F in the order of their ranks.             *)

ListIn(F, f, b, rank) ==
  \A m \in F \cup {Head} :
    /\ f[m] # Null => f[m] \in F /\ b[f[m]] = m /\ rank[m] < rank[f[m]]
    /\ m # Head => b[m] \in F \cup {Head} /\ f[b[m]] = m

Listed(F, f, b) == \E rank \in [Addr -> Int] : ListIn(F, f, b, rank)

\* One block takes the place of another (the split, the merge with the next block).
LEMMA SwapListed ==
  ASSUME NEW F \in SUBSET (Addr \ {Head}), NEW f, NEW b, Listed(F, f, b),
         NEW x \in F, NEW y \in Addr \ {Head}, y \notin F,
         NEW f2, NEW b2,
         \A a \in (F \ {x}) \cup {y, Head} :
           /\ f2[a] = IF a = b[x] THEN y ELSE IF a = y THEN f[x] ELSE f[a]
           /\ b2[a] = IF a = f[x] THEN y ELSE IF a = y THEN b[x] ELSE b[a]
  PROVE  Listed((F \ {x}) \cup {y}, f2, b2)
<1>1. PICK rank \in [Addr -> Int] : ListIn(F, f, b, rank)
  BY DEF Listed
<1> DEFINE rank2 == [rank EXCEPT ![y] = rank[x]]
           G == (F \ {x}) \cup {y}
<1>2. \A a \in F \cup {Head} :
        /\ f[a] # Null => f[a] \in F /\ b[f[a]] = a /\ rank[a] < rank[f[a]]
        /\ a # Head => b[a] \in F \cup {Head} /\ f[b[a]] = a
  BY <1>1 DEF ListIn
<1>3. /\ Head \in Addr /\ Null \notin Addr
      /\ \A a \in F \cup {Head} : a \in Addr /\ rank[a] \in Int
  BY Layout
<1>4. f[x] # x /\ b[x] # x /\ b[x] # y /\ f[x] # y
  BY <1>2, <1>3
<1>5. /\ rank2 \in [Addr -> Int] /\ rank2[y] = rank[x]
      /\ \A a \in F \cup {Head} : rank2[a] = rank[a]
  BY <1>3
<1> HIDE DEF rank2
<1>6. ASSUME NEW m \in G \cup {Head}
      PROVE  /\ f2[m] # Null => f2[m] \in G /\ b2[f2[m]] = m /\ rank2[m] < rank2[f2[m]]
             /\ m # Head => b2[m] \in G \cup {Head} /\ f2[b2[m]] = m
  <2>1. CASE m = y
    <3>1. f2[m] = f[x] /\ b2[m] = b[x]
      BY <1>4, <2>1
    <3>2. f[x] # Null => f[x] \in G /\ b2[f[x]] = y /\ rank[x] < rank2[f[x]]
      BY <1>2, <1>4, <1>5
    <3>3. b[x] \in G \cup {Head} /\ f2[b[x]] = y
      BY <1>2, <1>4
    <3> QED BY <1>5, <2>1, <3>1, <3>2, <3>3
  <2>2. CASE m # y
    <3>1. m \in F \cup {Head} /\ m # x
      BY <1>2, <2>2
    <3>2. CASE m = b[x]
      <4>1. f2[m] = y /\ b2[y] = b[x] /\ rank[m] < rank[x]
        BY <1>2, <1>3, <1>4, <3>1, <3>2
      <4>2. m # Head => b2[m] = b[m] /\ b[m] \in F \cup {Head} /\ b[m] # x /\ f[b[m]] = m
        BY <1>2, <1>3, <1>4, <2>2, <3>1, <3>2
      <4>3. m # Head => b[m] # b[x]
        BY <1>2, <1>4, <3>1, <3>2, <4>2
      <4> QED BY <1>5, <2>2, <3>1, <3>2, <4>1, <4>2, <4>3
    <3>3. CASE m # b[x]
      <4>1. f2[m] = f[m]
        BY <2>2, <3>1, <3>3
      <4>2. f[m] # Null => f[m] \in F /\ f[m] # x /\ f[m] # f[x] /\ b[f[m]] = m
        BY <1>2, <3>1, <3>3
      <4>3. f[m] # Null => b2[f[m]] = m
        BY <2>2, <4>2
      <4>4. f[m] # Null => rank2[m] < rank2[f[m]]
        BY <1>2, <1>5, <3>1, <4>2
      <4>5. m # Head => b2[m] \in G \cup {Head} /\ f2[b2[m]] = m
        <5>1. CASE m = f[x]
          BY <1>2, <1>4, <2>2, <3>1, <5>1
        <5>2. CASE m # f[x] /\ m # Head
          <6>1. b2[m] = b[m] /\ b[m] \in F \cup {Head} /\ f[b[m]] = m
            BY <1>2, <2>2, <3>1, <5>2
          <6>2. b[m] # x /\ b[m] # b[x] /\ b[m] # y
            BY <1>2, <1>3, <3>1, <5>2, <6>1
          <6> QED BY <6>1, <6>2
        <5> QED BY <5>1, <5>2
      <4> QED BY <4>1, <4>2, <4>3, <4>4, <4>5
    <3> QED BY <3>2, <3>3
  <2> QED BY <2>1, <2>2
<1>7. ListIn(G, f2, b2, rank2)
  BY <1>6 DEF ListIn
<1> QED BY <1>5, <1>7 DEF Listed

\* A block leaves the list (the allocation of a whole block).
LEMMA DropListed ==
  ASSUME NEW F \in SUBSET (Addr \ {Head}), NEW f, NEW b, Listed(F, f, b),
         NEW x \in F, NEW f2, NEW b2,
         \A a \in (F \ {x}) \cup {Head} :
           /\ f2[a] = IF a = b[x] THEN f[x] ELSE f[a]
           /\ b2[a] = IF a = f[x] THEN b[x] ELSE b[a]
  PROVE  Listed(F \ {x}, f2, b2)
<1>1. PICK rank \in [Addr -> Int] : ListIn(F, f, b, rank)
  BY DEF Listed
<1> DEFINE G == F \ {x}
<1>2. \A a \in F \cup {Head} :
        /\ f[a] # Null => f[a] \in F /\ b[f[a]] = a /\ rank[a] < rank[f[a]]
        /\ a # Head => b[a] \in F \cup {Head} /\ f[b[a]] = a
  BY <1>1 DEF ListIn
<1>3. /\ Head \in Addr /\ Null \notin Addr
      /\ \A a \in F \cup {Head} : a \in Addr /\ rank[a] \in Int
  BY Layout
<1>4. f[x] # x /\ b[x] # x /\ x # Head /\ rank[b[x]] < rank[x]
  BY <1>2, <1>3
<1>5. ASSUME NEW m \in G \cup {Head}
      PROVE  /\ f2[m] # Null => f2[m] \in G /\ b2[f2[m]] = m /\ rank[m] < rank[f2[m]]
             /\ m # Head => b2[m] \in G \cup {Head} /\ f2[b2[m]] = m
  <2>1. m \in F \cup {Head} /\ m # x
    BY <1>4
  <2>2. CASE m = b[x]
    <3>1. f2[m] = f[x]
      BY <2>2
    <3>2. f[x] # Null => f[x] \in G /\ b2[f[x]] = m
      BY <1>2, <1>4, <2>2
    <3>3. f[x] # Null => rank[m] < rank[f[x]]
      <4>1. rank[m] \in Int /\ rank[x] \in Int /\ (f[x] # Null => rank[f[x]] \in Int)
        BY <1>2, <1>3, <2>1
      <4>2. rank[m] < rank[x] /\ (f[x] # Null => rank[x] < rank[f[x]])
        BY <1>2, <1>4, <2>2
      <4> QED BY <4>1, <4>2
    <3>4. m # Head => b[m] \in F \cup {Head} /\ f[b[m]] = m /\ b[m] # x /\ b[m] # b[x]
      <4>1. m # Head => b[m] \in F \cup {Head} /\ f[b[m]] = m /\ rank[b[m]] < rank[m]
        BY <1>2, <1>3, <2>1
      <4>2. rank[m] \in Int /\ rank[x] \in Int /\ rank[m] < rank[x]
        BY <1>3, <1>4, <2>1, <2>2
      <4> QED BY <2>2, <4>1, <4>2
    <3>5. m # Head => m # f[x]
      <4>1. f[x] # Null => rank[x] < rank[f[x]] /\ rank[f[x]] \in Int
        BY <1>2, <1>3
      <4>2. rank[m] \in Int /\ rank[x] \in Int /\ rank[m] < rank[x] /\ m # Null
        BY <1>3, <1>4, <2>1, <2>2
      <4> QED BY <4>1, <4>2
    <3> QED BY <3>1, <3>2, <3>3, <3>4, <3>5
  <2>3. CASE m # b[x]
    <3>1. f2[m] = f[m]
      BY <2>3
    <3>2. f[m] # Null => /\ f[m] \in F /\ f[m] # x /\ f[m] # f[x] /\ b[f[m]] = m
                         /\ rank[m] < rank[f[m]]
      BY <1>2, <2>1, <2>3
    <3>3. f[m] # Null => b2[f[m]] = m
      BY <3>2
    <3>4. m # Head => b2[m] \in G \cup {Head} /\ f2[b2[m]] = m
      <4>1. CASE m = f[x]
        <5>1. b2[m] = b[x] /\ b[x] \in G \cup {Head} /\ f2[b[x]] = f[x]
          BY <1>2, <1>4, <4>1
        <5> QED BY <4>1, <5>1
      <4>2. CASE m # f[x] /\ m # Head
        <5>1. b2[m] = b[m] /\ b[m] \in F \cup {Head} /\ f[b[m]] = m
          BY <1>2, <2>1, <4>2
        <5>2. b[m] # x /\ b[m] # b[x]
          BY <1>2, <2>1, <4>2, <5>1
        <5> QED BY <5>1, <5>2
      <4> QED BY <4>1, <4>2
    <3> QED BY <3>1, <3>2, <3>3, <3>4
  <2> QED BY <2>2, <2>3
<1>6. ListIn(G, f2, b2, rank)
  BY <1>5 DEF ListIn
<1> QED BY <1>6 DEF Listed

\* A block becomes the first of a list that is not empty (xos_free).
LEMMA PushListed ==
  ASSUME NEW F \in SUBSET (Addr \ {Head}), NEW f, NEW b, Listed(F, f, b),
         f[Head] # Null, NEW y \in Addr \ {Head}, y \notin F,
         NEW f2, NEW b2,
         \A a \in F \cup {y, Head} :
           /\ f2[a] = IF a = Head THEN y ELSE IF a = y THEN f[Head] ELSE f[a]
           /\ b2[a] = IF a = f[Head] THEN y ELSE IF a = y THEN Head ELSE b[a]
  PROVE  Listed(F \cup {y}, f2, b2)
<1>1. PICK rank \in [Addr -> Int] : ListIn(F, f, b, rank)
  BY DEF Listed
<1> DEFINE rank2 == [rank EXCEPT ![y] = rank[Head], ![Head] = rank[Head] - 1]
<1>2. \A a \in F \cup {Head} :
        /\ f[a] # Null => f[a] \in F /\ b[f[a]] = a /\ rank[a] < rank[f[a]]
        /\ a # Head => b[a] \in F \cup {Head} /\ f[b[a]] = a
  BY <1>1 DEF ListIn
<1>3. /\ Head \in Addr /\ Null \notin Addr
      /\ \A a \in F \cup {Head} : a \in Addr /\ rank[a] \in Int
  BY Layout
<1>4. /\ rank2 \in [Addr -> Int] /\ rank2[y] = rank[Head] /\ rank2[Head] = rank[Head] - 1
      /\ \A a \in F : rank2[a] = rank[a]
  BY <1>3
<1> HIDE DEF rank2
<1>5. ASSUME NEW m \in F \cup {y, Head}
      PROVE  /\ f2[m] # Null => f2[m] \in F \cup {y} /\ b2[f2[m]] = m /\ rank2[m] < rank2[f2[m]]
             /\ m # Head => b2[m] \in F \cup {y, Head} /\ f2[b2[m]] = m
  <2>1. CASE m = Head
    <3>1. f2[m] = y /\ b2[y] = Head
      BY <1>2, <2>1
    <3>2. rank2[m] < rank2[y]
      BY <1>3, <1>4, <2>1
    <3> QED BY <2>1, <3>1, <3>2
  <2>2. CASE m = y
    <3>1. f2[m] = f[Head] /\ f[Head] \in F /\ b2[f[Head]] = y /\ b2[m] = Head /\ f2[Head] = y
      BY <1>2, <2>2
    <3>2. rank2[m] < rank2[f[Head]]
      BY <1>2, <1>4, <2>2, <3>1
    <3> QED BY <2>2, <3>1, <3>2
  <2>3. CASE m # Head /\ m # y
    <3>1. m \in F /\ f2[m] = f[m]
      BY <2>3
    <3>2. f[m] # Null => f[m] \in F /\ f[m] # f[Head] /\ b[f[m]] = m /\ rank[m] < rank[f[m]]
      BY <1>2, <2>3, <3>1
    <3>3. f[m] # Null => b2[f[m]] = m
      BY <3>2
    <3>4. f[m] # Null => rank2[m] < rank2[f[m]]
      BY <1>4, <3>1, <3>2
    <3>5. b2[m] \in F \cup {y, Head} /\ f2[b2[m]] = m
      <4>1. CASE m = f[Head]
        <5>1. b2[m] = y /\ f2[y] = f[Head]
          BY <4>1
        <5> QED BY <4>1, <5>1
      <4>2. CASE m # f[Head]
        <5>1. b2[m] = b[m] /\ b[m] \in F \cup {Head} /\ f[b[m]] = m
          BY <1>2, <2>3, <3>1, <4>2
        <5>2. b[m] # Head /\ b[m] # y
          BY <4>2, <5>1
        <5> QED BY <5>1, <5>2
      <4> QED BY <4>1, <4>2
    <3> QED BY <3>1, <3>2, <3>3, <3>4, <3>5
  <2> QED BY <2>1, <2>2, <2>3
<1>6. ListIn(F \cup {y}, f2, b2, rank2)
  BY <1>5 DEF ListIn
<1> QED BY <1>4, <1>6 DEF Listed
-----------------------------------------------------------------------------
(* The inductive invariant.                                                *)

\* The block that a scan has chosen is free and larger than the request; only
\* the task that holds the lock scans.
ScanFits ==
  /\ \A t \in Tasks : pc[t] # "run" => size[t] \in Sizes
  /\ \A t, u \in Tasks : pc[t] = "scan" /\ pc[u] = "scan" => t = u
  /\ \A t \in Tasks : pc[t] = "scan" /\ fit # Null =>
       fit \in FreeBlocks /\ size[t] < BlockSize(fit)

HeapGood == Tiles /\ Merged /\ Listed(FreeBlocks, nf, pf) /\ ScanFits

HeapInv == TypeOK /\ (fault = "none" => HeapGood)

\* The conjuncts of TypeOK, in two parts.
LocalsTyped ==
  /\ pc \in [Tasks -> {"run", "entered", "scan"}]
  /\ seen \in [Tasks -> Addr \cup {Null}]
  /\ size \in [Tasks -> Sizes \cup {0}]
  /\ cursor \in Addr \cup {Null} /\ fit \in Addr \cup {Null}
  /\ fault \in {"none", "stale", "nullFree", "apart"}

MemoryTyped ==
  /\ blocks \subseteq Addr /\ used \subseteq blocks /\ live \subseteq used
  /\ next \in Words /\ prev \in Words /\ nf \in Words /\ pf \in Words

LEMMA TypeParts == TypeOK <=> MemoryTyped /\ LocalsTyped
BY DEF TypeOK, MemoryTyped, LocalsTyped, Words

\* The blocks that are never freed, and that the others lie between.
Edges ==
  /\ {Head, First, Tail} \subseteq blocks
  /\ First \in used \ live /\ Head \notin used /\ Tail \notin used
  /\ next[Head] = First

LEMMA TilesParts == Tiles <=> Edges /\ TilesIn(blocks, next, prev)
BY DEF Tiles, Edges, TilesIn

\* A block between two others.
LEMMA BlockLies ==
  ASSUME MemoryTyped, Tiles, NEW m \in blocks, m # Head, m # Tail
  PROVE  /\ m \in Addr /\ m \in Int
         /\ next[m] \in blocks /\ next[m] \in Addr /\ next[m] # Null /\ next[m] # Head
         /\ m + 2 <= next[m] /\ prev[next[m]] = m
         /\ prev[m] \in blocks /\ prev[m] \in Addr /\ prev[m] # Null /\ prev[m] # Tail
         /\ prev[m] + 2 <= m /\ next[prev[m]] = m
         /\ next[m] # m /\ prev[m] # m /\ next[m] # prev[m]
<1>1. /\ blocks \subseteq Addr /\ m \in Addr /\ \A b \in Addr : b \in Int /\ b >= 0
      /\ Null \notin Addr /\ Head = 0
  BY Layout DEF MemoryTyped
<1>2. next[m] \in blocks /\ m + 2 <= next[m] /\ prev[next[m]] = m
  BY DEF Tiles
<1>3. prev[m] \in blocks /\ prev[m] # Tail /\ next[prev[m]] = m
  BY DEF Tiles
<1>4. prev[m] + 2 <= next[prev[m]]
  BY <1>3 DEF Tiles
<1>5. m >= 0 /\ m \in Int /\ next[m] \in Int /\ prev[m] \in Int
  BY <1>1, <1>2, <1>3
<1> QED BY <1>1, <1>2, <1>3, <1>4, <1>5

\* A free block lies between two blocks in use, or the tail.
LEMMA FreeBlockLies ==
  ASSUME MemoryTyped, Tiles, Merged, NEW m \in FreeBlocks
  PROVE  /\ m \in blocks /\ m # Head /\ m # Tail /\ m # First /\ m \notin used
         /\ next[m] \notin FreeBlocks /\ prev[m] \notin FreeBlocks /\ prev[m] # Head
<1>1. m \in blocks /\ m # Head /\ m # Tail /\ m \notin used
  BY DEF FreeBlocks
<1>2. m # First
  BY <1>1 DEF Tiles
<1>3. prev[m] # Head
  BY <1>1, <1>2 DEF Tiles
<1> QED BY <1>1, <1>2, <1>3 DEF Merged

\* A block that a caller may free has a block before it that is not the head.
LEMMA LiveBlockLies ==
  ASSUME MemoryTyped, Tiles, NEW m \in live
  PROVE  /\ m \in blocks /\ m # Head /\ m # Tail /\ m # First /\ m \in used
         /\ m \notin FreeBlocks /\ prev[m] # Head
<1>1. m \in blocks /\ m \in used /\ m # Head /\ m # Tail /\ m # First
  BY DEF MemoryTyped, Tiles
<1>2. prev[m] # Head
  BY <1>1 DEF Tiles
<1> QED BY <1>1, <1>2 DEF FreeBlocks

\* What is_free says of a block.
LEMMA FreeMeans ==
  ASSUME MemoryTyped, Tiles, NEW m \in blocks, m # Head
  PROVE  is_free(m) <=> m \in FreeBlocks
<1>1. CASE m = Tail
  BY <1>1 DEF Tiles, is_free, FreeBlocks
<1>2. CASE m # Tail
  <2>1. next[m] # Null
    BY <1>2, BlockLies
  <2> QED BY <1>2, <2>1 DEF is_free, FreeBlocks
<1> QED BY <1>1, <1>2

\* A task leaves xos_malloc.
LEMMA LeaveKeeps ==
  ASSUME LocalsTyped, ScanFits, NEW t \in Tasks, pc[t] = "scan", Leave(t),
         fault' = fault
  PROVE  LocalsTyped' /\ ScanFits'
<1>1. LocalsTyped'
  BY DEF LocalsTyped, Leave
<1>2. pc'[t] = "run" /\ \A u \in Tasks \ {t} : pc'[u] = pc[u] /\ size'[u] = size[u]
  BY DEF LocalsTyped, Leave
<1>3. \A u \in Tasks : pc'[u] # "scan"
  BY <1>2 DEF ScanFits
<1>4. \A u \in Tasks : pc'[u] # "run" => size'[u] \in Sizes
  BY <1>2 DEF ScanFits
<1> QED BY <1>1, <1>3, <1>4 DEF ScanFits

\* A block is freed while no task scans.
LEMMA FreeingKeeps ==
  ASSUME LocalsTyped, ScanFits, NEW m, Freeing(m),
         fault' \in {"none", "nullFree", "apart"}
  PROVE  LocalsTyped' /\ ScanFits'
<1>1. LocalsTyped'
  BY DEF LocalsTyped, Freeing, scan
<1>2. pc' = pc /\ size' = size /\ \A t \in Tasks : pc[t] # "scan"
  BY DEF Freeing, Unlocked
<1> QED BY <1>1, <1>2 DEF ScanFits
-----------------------------------------------------------------------------
(* xos_malloc.                                                             *)

\* The words after a split.
LEMMA SplitWords ==
  ASSUME MemoryTyped, LocalsTyped, HeapGood, NEW t \in Tasks, MallocSplit(t),
         NEW m, m = fit, NEW n, n = m + 1 + size[t]
  PROVE  /\ m \in FreeBlocks /\ n \in Addr /\ m + 2 <= n /\ n + 2 <= next[m]
         /\ next' \in Words /\ prev' \in Words /\ nf' \in Words /\ pf' \in Words
         /\ \A a \in Addr :
              /\ next'[a] = IF a = n THEN next[m] ELSE IF a = m THEN n ELSE next[a]
              /\ prev'[a] = IF a = next[m] THEN n ELSE IF a = n THEN m ELSE prev[a]
              /\ nf'[a] = IF a = m THEN Null
                          ELSE IF a = pf[m] THEN n ELSE IF a = n THEN nf[m] ELSE nf[a]
              /\ pf'[a] = IF a = m THEN Null
                          ELSE IF a = nf[m] THEN n ELSE IF a = n THEN pf[m] ELSE pf[a]
<1>1. /\ pc[t] = "scan" /\ m # Null /\ BlockSize(m) - size[t] >= 2
      /\ next' = [next EXCEPT ![n] = next[m], ![m] = n]
      /\ prev' = Store([prev EXCEPT ![n] = m], next[m], n)
      /\ nf' = Forget(Store([nf EXCEPT ![n] = nf[m]], pf[m], n), {m})
      /\ pf' = Forget(Store([pf EXCEPT ![n] = pf[m]], nf[m], n), {m})
  BY DEF MallocSplit, MallocReturns, Scanned, Splits
<1>2. m \in FreeBlocks /\ size[t] \in Sizes
  BY <1>1 DEF HeapGood, ScanFits
<1>3. /\ m \in blocks /\ m # Head /\ m # Tail
      /\ m \in Addr /\ m \in Int /\ next[m] \in Addr
  BY <1>2, BlockLies, FreeBlockLies DEF HeapGood
<1>4. size[t] \in Nat /\ size[t] > 0 /\ next[m] \in Int /\ next[m] <= Tail /\ m >= 0
  BY <1>2, <1>3, Layout
<1>5. m + 2 <= n /\ n + 2 <= next[m] /\ n \in Addr
  <2>1. next[m] - m - 1 - size[t] >= 2
    BY <1>1 DEF BlockSize
  <2>2. \A i, j, k, e \in Int :
          /\ i >= 0 /\ k > 0 /\ j <= e /\ j - i - 1 - k >= 2
          => /\ i + 2 <= i + 1 + k /\ i + 1 + k + 2 <= j /\ i + 1 + k \in 0..e
    OBVIOUS
  <2>3. Tail \in Int /\ size[t] \in Int /\ Addr = 0..Tail
    BY <1>4, Layout
  <2> QED BY <1>3, <1>4, <2>1, <2>2, <2>3
<1>6. /\ next \in Words /\ prev \in Words /\ nf \in Words /\ pf \in Words
      /\ nf[m] \in Addr \cup {Null} /\ pf[m] \in Addr \cup {Null}
  BY <1>3 DEF MemoryTyped, Words
<1>7. /\ next' \in Words
      /\ \A a \in Addr : next'[a] = IF a = n THEN next[m] ELSE IF a = m THEN n ELSE next[a]
  BY <1>1, <1>3, <1>5, <1>6 DEF Words
<1>8. /\ prev' \in Words
      /\ \A a \in Addr : prev'[a] = IF a = next[m] THEN n ELSE IF a = n THEN m ELSE prev[a]
  BY <1>1, <1>3, <1>5, <1>6, Layout DEF Store, Words
<1>9. /\ nf' \in Words
      /\ \A a \in Addr : nf'[a] = IF a \in {m} THEN Null
                         ELSE IF a = pf[m] THEN n ELSE IF a = n THEN nf[m] ELSE nf[a]
  BY <1>1, <1>5, <1>6, Layout DEF Store, Forget, Words
<1>10. /\ pf' \in Words
       /\ \A a \in Addr : pf'[a] = IF a \in {m} THEN Null
                          ELSE IF a = nf[m] THEN n ELSE IF a = n THEN pf[m] ELSE pf[a]
  BY <1>1, <1>5, <1>6, Layout DEF Store, Forget, Words
<1> QED BY <1>2, <1>5, <1>7, <1>8, <1>9, <1>10

LEMMA SplitKeeps ==
  ASSUME MemoryTyped, LocalsTyped, HeapGood, NEW t \in Tasks, MallocSplit(t)
  PROVE  MemoryTyped' /\ LocalsTyped' /\ HeapGood'
<1> DEFINE m == fit
           n == m + 1 + size[t]
<1>1. /\ m \in FreeBlocks /\ n \in Addr /\ m + 2 <= n /\ n + 2 <= next[m]
      /\ next' \in Words /\ prev' \in Words /\ nf' \in Words /\ pf' \in Words
      /\ \A a \in Addr :
           /\ next'[a] = IF a = n THEN next[m] ELSE IF a = m THEN n ELSE next[a]
           /\ prev'[a] = IF a = next[m] THEN n ELSE IF a = n THEN m ELSE prev[a]
           /\ nf'[a] = IF a = m THEN Null
                       ELSE IF a = pf[m] THEN n ELSE IF a = n THEN nf[m] ELSE nf[a]
           /\ pf'[a] = IF a = m THEN Null
                       ELSE IF a = nf[m] THEN n ELSE IF a = n THEN pf[m] ELSE pf[a]
  BY SplitWords
<1>2. /\ blocks' = blocks \cup {n} /\ used' = used \cup {m} /\ live' = live \cup {m}
      /\ Leave(t) /\ pc[t] = "scan" /\ fault' = fault
  BY DEF MallocSplit, MallocReturns, Scanned
<1> HIDE DEF m, n
<1>3. /\ MemoryTyped /\ LocalsTyped /\ Tiles /\ Merged /\ ScanFits
      /\ Edges /\ TilesIn(blocks, next, prev) /\ Listed(FreeBlocks, nf, pf)
  BY TilesParts DEF HeapGood
<1>4. /\ m \in blocks /\ m # Head /\ m # Tail /\ m # First /\ m \notin used
      /\ next[m] \notin FreeBlocks /\ prev[m] \notin FreeBlocks
  BY <1>1, <1>3, FreeBlockLies
<1>5. /\ m \in Addr /\ m \in Int /\ next[m] \in blocks /\ next[m] \in Addr /\ next[m] \in Int
      /\ next[m] # m /\ prev[m] # m /\ next[prev[m]] = m /\ prev[next[m]] = m
  BY <1>3, <1>4, BlockLies, Layout
<1>6. /\ blocks \subseteq Addr /\ Head \in blocks /\ Tail \in blocks /\ First \in blocks
      /\ \A b \in blocks : b <= m \/ next[m] <= b
      /\ \A b \in Addr : b \in Int
  BY <1>3, <1>4, Layout DEF MemoryTyped, Edges, TilesIn
<1>7. n \notin blocks /\ n # m /\ n # next[m] /\ n \in Int
  BY <1>1, <1>5, <1>6
<1>8. TilesIn(blocks', next', prev')
  BY <1>1, <1>2, <1>3, <1>4, <1>6, SplitTile
<1>9. Edges'
  BY <1>1, <1>2, <1>3, <1>4, <1>6, <1>7, Layout DEF Edges, MemoryTyped
<1>10. FreeBlocks' = (FreeBlocks \ {m}) \cup {n}
  BY <1>2, <1>3, <1>6, <1>7 DEF FreeBlocks, MemoryTyped
<1>11. /\ FreeBlocks \in SUBSET (Addr \ {Head}) /\ n \in Addr \ {Head} /\ n \notin FreeBlocks
  BY <1>1, <1>6, <1>7 DEF FreeBlocks
<1>12. Listed((FreeBlocks \ {m}) \cup {n}, nf', pf')
  <2>1. \A a \in (FreeBlocks \ {m}) \cup {n, Head} :
          /\ nf'[a] = IF a = pf[m] THEN n ELSE IF a = n THEN nf[m] ELSE nf[a]
          /\ pf'[a] = IF a = nf[m] THEN n ELSE IF a = n THEN pf[m] ELSE pf[a]
    BY <1>1, <1>4, <1>6, <1>7, <1>11
  <2> QED BY <1>1, <1>3, <1>11, <2>1, SwapListed
<1>13. Merged'
  <2>1. ASSUME NEW a \in FreeBlocks, a # m
        PROVE  next'[a] \notin FreeBlocks' /\ prev'[a] \notin FreeBlocks'
    <3>1. /\ a \in blocks /\ a # Head /\ a # Tail /\ a # n /\ a # next[m] /\ a \in Addr
          /\ next[a] \in blocks /\ prev[a] \in blocks
          /\ next[a] \notin FreeBlocks /\ prev[a] \notin FreeBlocks
      BY <1>3, <1>4, <1>7, <2>1, FreeBlockLies, BlockLies
    <3>2. next'[a] = next[a] /\ prev'[a] = prev[a]
      BY <1>1, <2>1, <3>1
    <3> QED BY <1>7, <1>10, <3>1, <3>2
  <2>2. next'[n] = next[m] /\ prev'[n] = m
    BY <1>1, <1>7
  <2> QED BY <1>4, <1>7, <1>10, <2>1, <2>2 DEF Merged
<1>14. MemoryTyped'
  BY <1>1, <1>2, <1>3, <1>4 DEF MemoryTyped
<1>15. LocalsTyped' /\ ScanFits'
  BY <1>2, <1>3, LeaveKeeps
<1>16. (TilesIn(blocks, next, prev))'
  BY <1>8
<1>17. (Listed(FreeBlocks, nf, pf))'
  BY <1>10, <1>12
<1>18. Tiles'
  BY <1>9, <1>16, TilesParts, PTL
<1> QED BY <1>13, <1>14, <1>15, <1>17, <1>18 DEF HeapGood
LEMMA WholeKeeps ==
  ASSUME MemoryTyped, LocalsTyped, HeapGood, NEW t \in Tasks, MallocWhole(t)
  PROVE  MemoryTyped' /\ LocalsTyped' /\ HeapGood'
<1> DEFINE m == fit
<1>1. /\ nf' = Forget(Store(nf, pf[m], nf[m]), {m})
      /\ pf' = Forget(Store(pf, nf[m], pf[m]), {m})
      /\ blocks' = blocks /\ next' = next /\ prev' = prev
      /\ used' = used \cup {m} /\ live' = live \cup {m}
      /\ Leave(t) /\ pc[t] = "scan" /\ fault' = fault /\ m # Null
  BY DEF MallocWhole, MallocReturns, Scanned
<1>2. m \in FreeBlocks
  BY <1>1 DEF HeapGood, ScanFits
<1> HIDE DEF m
<1>3. /\ MemoryTyped /\ LocalsTyped /\ Tiles /\ Merged /\ ScanFits
      /\ Edges /\ TilesIn(blocks, next, prev) /\ Listed(FreeBlocks, nf, pf)
  BY TilesParts DEF HeapGood
<1>4. m \in blocks /\ m # Head /\ m # Tail /\ m # First /\ m \notin used /\ m \in Addr
  BY <1>2, <1>3, FreeBlockLies, BlockLies
<1>5. nf \in Words /\ pf \in Words /\ nf[m] \in Addr \cup {Null} /\ pf[m] \in Addr \cup {Null}
  BY <1>4 DEF MemoryTyped, Words
<1>6. /\ nf' \in Words
      /\ \A a \in Addr : nf'[a] = IF a \in {m} THEN Null
                                  ELSE IF a = pf[m] THEN nf[m] ELSE nf[a]
  BY <1>1, <1>5, Layout DEF Store, Forget, Words
<1>7. /\ pf' \in Words
      /\ \A a \in Addr : pf'[a] = IF a \in {m} THEN Null
                                  ELSE IF a = nf[m] THEN pf[m] ELSE pf[a]
  BY <1>1, <1>5, Layout DEF Store, Forget, Words
<1>8. /\ FreeBlocks' = FreeBlocks \ {m} /\ FreeBlocks \in SUBSET (Addr \ {Head})
      /\ Head \in Addr
  BY <1>1, Layout DEF FreeBlocks, MemoryTyped
<1>9. Listed(FreeBlocks \ {m}, nf', pf')
  <2>1. \A a \in (FreeBlocks \ {m}) \cup {Head} :
          /\ nf'[a] = IF a = pf[m] THEN nf[m] ELSE nf[a]
          /\ pf'[a] = IF a = nf[m] THEN pf[m] ELSE pf[a]
    BY <1>4, <1>6, <1>7, <1>8
  <2> QED BY <1>2, <1>3, <1>8, <2>1, DropListed
<1>10. (Listed(FreeBlocks, nf, pf))'
  BY <1>8, <1>9
<1>11. Merged'
  BY <1>1, <1>3, <1>8 DEF Merged
<1>12. (TilesIn(blocks, next, prev))'
  BY <1>1, <1>3
<1>13. Edges'
  BY <1>1, <1>3, <1>4 DEF Edges
<1>14. Tiles'
  BY <1>12, <1>13, TilesParts, PTL
<1>15. MemoryTyped'
  BY <1>1, <1>3, <1>4, <1>6, <1>7 DEF MemoryTyped
<1>16. LocalsTyped' /\ ScanFits'
  BY <1>1, <1>3, LeaveKeeps
<1> QED BY <1>10, <1>11, <1>14, <1>15, <1>16 DEF HeapGood
-----------------------------------------------------------------------------
(* xos_free.                                                               *)

\* What every case of xos_free leaves alone.
LEMMA FreedEdges ==
  ASSUME MemoryTyped, LocalsTyped, HeapGood, NEW m, Freeing(m),
         fault' \in {"none", "nullFree", "apart"}
  PROVE  /\ LocalsTyped' /\ ScanFits'
         /\ m \in live /\ used' = used \ {m} /\ live' = live \ {m}
         /\ Tiles /\ Merged /\ Edges /\ TilesIn(blocks, next, prev)
         /\ Listed(FreeBlocks, nf, pf) /\ FreeBlocks \in SUBSET (Addr \ {Head})
         /\ blocks \subseteq Addr /\ Head \in blocks /\ Tail \in blocks /\ First \in blocks
<1>1. ScanFits /\ Tiles /\ Merged /\ Listed(FreeBlocks, nf, pf)
  BY DEF HeapGood
<1>2. m \in live /\ used' = used \ {m} /\ live' = live \ {m}
  BY DEF Freeing
<1>3. FreeBlocks \in SUBSET (Addr \ {Head})
  BY DEF FreeBlocks, MemoryTyped
<1>4. Edges /\ TilesIn(blocks, next, prev)
  BY <1>1, TilesParts
<1>5. blocks \subseteq Addr /\ Head \in blocks /\ Tail \in blocks /\ First \in blocks
  BY <1>4 DEF MemoryTyped, Edges
<1> QED BY <1>1, <1>2, <1>3, <1>4, <1>5, FreeingKeeps

LEMMA AloneKeeps ==
  ASSUME MemoryTyped, LocalsTyped, HeapGood, NEW m, FreeAlone(m)
  PROVE  MemoryTyped' /\ LocalsTyped' /\ HeapGood'
<1>1. /\ Freeing(m) /\ ~is_free(next[m]) /\ ~is_free(prev[m]) /\ nf[Head] # Null
      /\ nf' = [nf EXCEPT ![m] = nf[Head], ![Head] = m]
      /\ pf' = [pf EXCEPT ![m] = Head, ![nf[Head]] = m]
      /\ blocks' = blocks /\ next' = next /\ prev' = prev /\ fault' = fault
      /\ fault = "none"
  BY DEF FreeAlone, Freeing
<1>2. /\ LocalsTyped' /\ ScanFits'
      /\ m \in live /\ used' = used \ {m} /\ live' = live \ {m}
      /\ Tiles /\ Merged /\ Edges /\ TilesIn(blocks, next, prev)
      /\ Listed(FreeBlocks, nf, pf) /\ FreeBlocks \in SUBSET (Addr \ {Head})
      /\ blocks \subseteq Addr /\ Head \in blocks /\ Tail \in blocks /\ First \in blocks
  BY <1>1, FreedEdges
<1>3. /\ m \in blocks /\ m # Head /\ m # Tail /\ m # First /\ m \in used
      /\ m \notin FreeBlocks /\ prev[m] # Head /\ m \in Addr
      /\ next[m] \in blocks /\ prev[m] \in blocks /\ next[m] # Head
      /\ prev[next[m]] = m /\ next[prev[m]] = m /\ next[m] # m /\ prev[m] # m
  BY <1>2, LiveBlockLies, BlockLies
<1>4. next[m] \notin FreeBlocks /\ prev[m] \notin FreeBlocks
  BY <1>1, <1>2, <1>3, FreeMeans
<1>5. nf \in Words /\ pf \in Words /\ nf[Head] \in Addr /\ Head \in Addr
  BY <1>1, Layout DEF MemoryTyped, Words
<1>6. /\ nf' \in Words
      /\ \A a \in Addr : nf'[a] = IF a = Head THEN m ELSE IF a = m THEN nf[Head] ELSE nf[a]
  BY <1>1, <1>3, <1>5 DEF Words
<1>7. /\ pf' \in Words
      /\ \A a \in Addr : pf'[a] = IF a = nf[Head] THEN m ELSE IF a = m THEN Head ELSE pf[a]
  BY <1>1, <1>3, <1>5 DEF Words
<1>8. FreeBlocks' = FreeBlocks \cup {m}
  BY <1>1, <1>2, <1>3 DEF FreeBlocks
<1>9. Listed(FreeBlocks \cup {m}, nf', pf')
  <2>1. \A a \in FreeBlocks \cup {m, Head} :
          /\ nf'[a] = IF a = Head THEN m ELSE IF a = m THEN nf[Head] ELSE nf[a]
          /\ pf'[a] = IF a = nf[Head] THEN m ELSE IF a = m THEN Head ELSE pf[a]
    BY <1>2, <1>3, <1>5, <1>6, <1>7
  <2>2. /\ Listed(FreeBlocks, nf, pf) /\ FreeBlocks \in SUBSET (Addr \ {Head})
        /\ m \in Addr \ {Head} /\ m \notin FreeBlocks /\ nf[Head] # Null
    BY <1>1, <1>2, <1>3
  <2> QED BY <2>1, <2>2, PushListed
<1>10. (Listed(FreeBlocks, nf, pf))'
  BY <1>8, <1>9
<1>11. Merged'
  <2>1. ASSUME NEW a \in FreeBlocks
        PROVE  next[a] \notin FreeBlocks' /\ prev[a] \notin FreeBlocks'
    <3>1. /\ next[a] \notin FreeBlocks /\ prev[a] \notin FreeBlocks
          /\ prev[next[a]] = a /\ next[prev[a]] = a
      BY <1>2, <2>1, FreeBlockLies, BlockLies
    <3> QED BY <1>4, <1>8, <2>1, <3>1
  <2> QED BY <1>1, <1>3, <1>4, <1>8, <2>1 DEF Merged
<1>12. (TilesIn(blocks, next, prev))'
  BY <1>1, <1>2
<1>13. Edges'
  BY <1>1, <1>2, <1>3 DEF Edges
<1>14. Tiles'
  BY <1>12, <1>13, TilesParts, PTL
<1>15. MemoryTyped'
  BY <1>1, <1>2, <1>6, <1>7 DEF MemoryTyped
<1> QED BY <1>2, <1>10, <1>11, <1>14, <1>15 DEF HeapGood
LEMMA WithNextKeeps ==
  ASSUME MemoryTyped, LocalsTyped, HeapGood, NEW m, FreeWithNext(m)
  PROVE  MemoryTyped' /\ LocalsTyped' /\ HeapGood'
<1> DEFINE n == next[m]
<1>1. /\ Freeing(m) /\ is_free(n) /\ ~is_free(prev[m])
      /\ blocks' = blocks \ {n}
      /\ next' = Forget([next EXCEPT ![m] = next[n]], {n})
      /\ prev' = Forget(Store(prev, next[n], m), {n})
      /\ nf' = Forget(Store([nf EXCEPT ![m] = nf[n]], pf[n], m), {n})
      /\ pf' = Forget(Store([pf EXCEPT ![m] = pf[n]], nf[n], m), {n})
      /\ fault' = fault /\ fault = "none"
  BY DEF FreeWithNext, Freeing
<1>2. /\ LocalsTyped' /\ ScanFits'
      /\ m \in live /\ used' = used \ {m} /\ live' = live \ {m}
      /\ Tiles /\ Merged /\ Edges /\ TilesIn(blocks, next, prev)
      /\ Listed(FreeBlocks, nf, pf) /\ FreeBlocks \in SUBSET (Addr \ {Head})
      /\ blocks \subseteq Addr /\ Head \in blocks /\ Tail \in blocks /\ First \in blocks
  BY <1>1, FreedEdges
<1>3. /\ m \in blocks /\ m # Head /\ m # Tail /\ m # First /\ m \in used
      /\ m \notin FreeBlocks /\ prev[m] # Head /\ m \in Addr
      /\ n \in blocks /\ prev[m] \in blocks /\ n # Head
      /\ prev[n] = m /\ next[prev[m]] = m /\ n # m /\ prev[m] # m /\ n # prev[m]
      /\ m + 2 <= n /\ m \in Int
  BY <1>2, LiveBlockLies, BlockLies
<1> HIDE DEF n
<1>4. n \in FreeBlocks /\ prev[m] \notin FreeBlocks
  BY <1>1, <1>2, <1>3, FreeMeans
<1>5. /\ n # Head /\ n # Tail /\ n # First /\ n \notin used /\ n \in Addr /\ n \in Int
      /\ next[n] \in blocks /\ next[n] \in Addr /\ next[n] \notin FreeBlocks /\ next[n] # n
      /\ n + 2 <= next[n] /\ next[n] \in Int
  BY <1>2, <1>4, FreeBlockLies, BlockLies, Layout
<1>6. next[n] # m
  BY <1>3, <1>5
<1>7. /\ next \in Words /\ prev \in Words /\ nf \in Words /\ pf \in Words
      /\ nf[n] \in Addr \cup {Null} /\ pf[n] \in Addr \cup {Null}
  BY <1>5 DEF MemoryTyped, Words
<1>8. /\ next' \in Words
      /\ \A a \in Addr : next'[a] = IF a \in {n} THEN Null
                                    ELSE IF a = m THEN next[n] ELSE next[a]
  BY <1>1, <1>5, <1>7, Layout DEF Forget, Words
<1>9. /\ prev' \in Words
      /\ \A a \in Addr : prev'[a] = IF a \in {n} THEN Null
                                    ELSE IF a = next[n] THEN m ELSE prev[a]
  BY <1>1, <1>3, <1>5, <1>7, Layout DEF Store, Forget, Words
<1>10. /\ nf' \in Words
       /\ \A a \in Addr : nf'[a] = IF a \in {n} THEN Null
            ELSE IF a = pf[n] THEN m ELSE IF a = m THEN nf[n] ELSE nf[a]
  BY <1>1, <1>3, <1>7, Layout DEF Store, Forget, Words
<1>11. /\ pf' \in Words
       /\ \A a \in Addr : pf'[a] = IF a \in {n} THEN Null
            ELSE IF a = nf[n] THEN m ELSE IF a = m THEN pf[n] ELSE pf[a]
  BY <1>1, <1>3, <1>7, Layout DEF Store, Forget, Words
<1>12. FreeBlocks' = (FreeBlocks \ {n}) \cup {m}
  BY <1>1, <1>2, <1>3 DEF FreeBlocks
<1>13. Listed((FreeBlocks \ {n}) \cup {m}, nf', pf')
  <2>1. \A a \in (FreeBlocks \ {n}) \cup {m, Head} :
          /\ nf'[a] = IF a = pf[n] THEN m ELSE IF a = m THEN nf[n] ELSE nf[a]
          /\ pf'[a] = IF a = nf[n] THEN m ELSE IF a = m THEN pf[n] ELSE pf[a]
    BY <1>2, <1>3, <1>5, <1>10, <1>11
  <2>2. /\ Listed(FreeBlocks, nf, pf) /\ FreeBlocks \in SUBSET (Addr \ {Head})
        /\ m \in Addr \ {Head} /\ m \notin FreeBlocks /\ n \in FreeBlocks
    BY <1>2, <1>3, <1>4
  <2> QED BY <2>1, <2>2, SwapListed
<1>14. (Listed(FreeBlocks, nf, pf))'
  BY <1>12, <1>13
<1>15. Merged'
  <2>1. ASSUME NEW a \in FreeBlocks, a # n
        PROVE  next'[a] \notin FreeBlocks' /\ prev'[a] \notin FreeBlocks'
    <3>1. /\ next[a] \notin FreeBlocks /\ prev[a] \notin FreeBlocks /\ a \in Addr
          /\ prev[next[a]] = a /\ next[prev[a]] = a
      BY <1>2, <2>1, FreeBlockLies, BlockLies
    <3>2. a # m /\ a # next[n] /\ next'[a] = next[a] /\ prev'[a] = prev[a]
      BY <1>3, <1>5, <1>8, <1>9, <2>1, <3>1
    <3>3. next[a] # m /\ prev[a] # m
      BY <1>4, <2>1, <3>1 DEF n
    <3> QED BY <1>12, <3>1, <3>2, <3>3
  <2>2. next'[m] = next[n] /\ prev'[m] = prev[m]
    BY <1>3, <1>6, <1>8, <1>9
  <2> QED BY <1>3, <1>4, <1>5, <1>6, <1>12, <2>1, <2>2 DEF Merged
<1>16. TilesIn(blocks \ {n}, next', prev')
  <2>1. \A a \in blocks \ {n} :
          /\ next'[a] = IF a = prev[n] THEN next[n] ELSE next[a]
          /\ prev'[a] = IF a = next[n] THEN prev[n] ELSE prev[a]
    BY <1>2, <1>3, <1>8, <1>9
  <2>2. /\ blocks \in SUBSET Addr /\ Head \in blocks /\ Tail \in blocks
        /\ TilesIn(blocks, next, prev) /\ n \in blocks \ {Head, Tail}
    BY <1>2, <1>3, <1>5
  <2> QED BY <2>1, <2>2, CutTile
<1>17. (TilesIn(blocks, next, prev))'
  BY <1>1, <1>16
<1>18. Edges'
  BY <1>1, <1>2, <1>3, <1>5, <1>8 DEF Edges
<1>19. Tiles'
  BY <1>17, <1>18, TilesParts, PTL
<1>20. MemoryTyped'
  BY <1>1, <1>2, <1>5, <1>8, <1>9, <1>10, <1>11 DEF MemoryTyped
<1> QED BY <1>2, <1>14, <1>15, <1>19, <1>20 DEF HeapGood

LEMMA WithPrevKeeps ==
  ASSUME MemoryTyped, LocalsTyped, HeapGood, NEW m, FreeWithPrev(m)
  PROVE  MemoryTyped' /\ LocalsTyped' /\ HeapGood'
<1> DEFINE p == prev[m]
<1>1. /\ Freeing(m) /\ ~is_free(next[m]) /\ is_free(p)
      /\ blocks' = blocks \ {m}
      /\ next' = Forget([next EXCEPT ![p] = next[m]], {m})
      /\ prev' = Forget(Store(prev, next[m], p), {m})
      /\ nf' = nf /\ pf' = pf /\ fault' = fault /\ fault = "none"
  BY DEF FreeWithPrev, Freeing
<1>2. /\ LocalsTyped' /\ ScanFits'
      /\ m \in live /\ used' = used \ {m} /\ live' = live \ {m}
      /\ Tiles /\ Merged /\ Edges /\ TilesIn(blocks, next, prev)
      /\ Listed(FreeBlocks, nf, pf) /\ FreeBlocks \in SUBSET (Addr \ {Head})
      /\ blocks \subseteq Addr /\ Head \in blocks /\ Tail \in blocks /\ First \in blocks
  BY <1>1, FreedEdges
<1>3. /\ m \in blocks /\ m # Head /\ m # Tail /\ m # First /\ m \in used
      /\ m \notin FreeBlocks /\ p # Head /\ m \in Addr
      /\ next[m] \in blocks /\ next[m] \in Addr /\ p \in blocks /\ p \in Addr
      /\ next[m] # Head /\ prev[next[m]] = m /\ next[p] = m /\ next[m] # m /\ p # m
  BY <1>2, LiveBlockLies, BlockLies
<1>4. next[m] \notin FreeBlocks
  BY <1>1, <1>2, <1>3, FreeMeans
<1>5. next \in Words /\ prev \in Words
  BY DEF MemoryTyped
<1>6. /\ next' \in Words
      /\ \A a \in Addr : next'[a] = IF a \in {m} THEN Null
                                    ELSE IF a = p THEN next[m] ELSE next[a]
  BY <1>1, <1>3, <1>5, Layout DEF Forget, Words
<1>7. /\ prev' \in Words
      /\ \A a \in Addr : prev'[a] = IF a \in {m} THEN Null
                                    ELSE IF a = next[m] THEN p ELSE prev[a]
  BY <1>1, <1>3, <1>5, Layout DEF Store, Forget, Words
<1>8. FreeBlocks' = FreeBlocks
  BY <1>1, <1>2, <1>3 DEF FreeBlocks
<1>9. (Listed(FreeBlocks, nf, pf))'
  BY <1>1, <1>2, <1>8
<1>10. Merged'
  <2>1. ASSUME NEW a \in FreeBlocks
        PROVE  next'[a] \notin FreeBlocks' /\ prev'[a] \notin FreeBlocks'
    <3>1. /\ next[a] \notin FreeBlocks /\ prev[a] \notin FreeBlocks /\ a \in Addr
      BY <1>2, <2>1, FreeBlockLies, BlockLies
    <3> QED BY <1>3, <1>4, <1>6, <1>7, <1>8, <2>1, <3>1
  <2> QED BY <1>8, <2>1 DEF Merged
<1>11. TilesIn(blocks \ {m}, next', prev')
  <2>1. \A a \in blocks \ {m} :
          /\ next'[a] = IF a = prev[m] THEN next[m] ELSE next[a]
          /\ prev'[a] = IF a = next[m] THEN prev[m] ELSE prev[a]
    BY <1>2, <1>6, <1>7
  <2>2. /\ blocks \in SUBSET Addr /\ Head \in blocks /\ Tail \in blocks
        /\ TilesIn(blocks, next, prev) /\ m \in blocks \ {Head, Tail}
    BY <1>2, <1>3
  <2> QED BY <2>1, <2>2, CutTile
<1>12. (TilesIn(blocks, next, prev))'
  BY <1>1, <1>11
<1>13. Edges'
  BY <1>1, <1>2, <1>3, <1>6, Layout DEF Edges
<1>14. Tiles'
  BY <1>12, <1>13, TilesParts, PTL
<1>15. MemoryTyped'
  BY <1>1, <1>2, <1>6, <1>7 DEF MemoryTyped
<1> QED BY <1>2, <1>9, <1>10, <1>14, <1>15 DEF HeapGood
\* The words after a merge with both neighbours.
LEMMA BothWords ==
  ASSUME MemoryTyped, LocalsTyped, HeapGood, NEW m, FreeWithBoth(m),
         NEW n, n = next[m], NEW p, p = prev[m]
  PROVE  /\ n \in FreeBlocks /\ p \in FreeBlocks /\ n # p /\ prev[n] = m
         /\ n # m /\ p # m /\ next[n] # m /\ next[p] = m
         /\ n # Head /\ n # Tail /\ n # First /\ n \in blocks /\ n \notin used /\ n \in Addr
         /\ next[n] \in blocks /\ next[n] \in Addr /\ next[n] \notin FreeBlocks /\ next[n] # n
         /\ p # Head /\ p # Tail /\ p # First /\ p \in blocks /\ p \notin used /\ p \in Addr
         /\ next' \in Words /\ prev' \in Words /\ nf' \in Words /\ pf' \in Words
         /\ \A a \in Addr :
              /\ next'[a] = IF a \in {m, n} THEN Null
                            ELSE IF a = p THEN next[n] ELSE next[a]
              /\ prev'[a] = IF a \in {m, n} THEN Null
                            ELSE IF a = next[n] THEN p ELSE prev[a]
         /\ Adjacent(n, p) =>
              \A a \in Addr \ {m, n} :
                /\ nf'[a] = IF a = pf[n] THEN nf[n] ELSE nf[a]
                /\ pf'[a] = IF a = nf[n] THEN pf[n] ELSE pf[a]
<1> DEFINE nfm == Store([nf EXCEPT ![m] = nf[n]], pf[n], m)
           pfm == Store([pf EXCEPT ![m] = pf[n]], nf[n], m)
<1>1. /\ Freeing(m) /\ is_free(n) /\ is_free(p)
      /\ blocks' = blocks \ {m, n}
      /\ next' = Forget([next EXCEPT ![p] = next[n]], {m, n})
      /\ prev' = Forget(Store(prev, next[n], p), {m, n})
      /\ \/ /\ nf[n] = p
            /\ nf' = Forget(Store(nfm, pf[n], p), {m, n})
            /\ pf' = Forget([pfm EXCEPT ![p] = pf[n]], {m, n})
         \/ /\ nf[n] # p
            /\ nf' = Forget([nfm EXCEPT ![p] = nf[n]], {m, n})
            /\ pf' = Forget(Store(pfm, nf[n], p), {m, n})
      /\ fault' \in {"none", "nullFree", "apart"}
  BY DEF FreeWithBoth
<1>2. /\ Tiles /\ Merged /\ m \in live /\ Listed(FreeBlocks, nf, pf)
  BY <1>1, FreedEdges
<1>3. /\ m \in blocks /\ m # Head /\ m # Tail /\ m # First /\ m \in used /\ m \in Addr
      /\ p # Head /\ n \in blocks /\ p \in blocks /\ n # Head
      /\ prev[n] = m /\ next[p] = m /\ n # m /\ p # m /\ n # p
      /\ m + 2 <= n /\ m \in Int
  BY <1>2, LiveBlockLies, BlockLies
<1>4. n \in FreeBlocks /\ p \in FreeBlocks
  BY <1>1, <1>2, <1>3, FreeMeans
<1>5. /\ n # Head /\ n # Tail /\ n # First /\ n \notin used /\ n \in Addr /\ n \in Int
      /\ next[n] \in blocks /\ next[n] \in Addr /\ next[n] \notin FreeBlocks /\ next[n] # n
      /\ n + 2 <= next[n] /\ next[n] \in Int
  BY <1>2, <1>4, FreeBlockLies, BlockLies, Layout
<1>6. p # Head /\ p # Tail /\ p # First /\ p \notin used /\ p \in Addr
  BY <1>2, <1>4, FreeBlockLies, BlockLies
<1>7. next[n] # m
  BY <1>3, <1>5
<1>8. /\ next \in Words /\ prev \in Words /\ nf \in Words /\ pf \in Words
      /\ nf[n] \in Addr \cup {Null} /\ pf[n] \in Addr \cup {Null}
  BY <1>5 DEF MemoryTyped, Words
<1>9. /\ next' \in Words
      /\ \A a \in Addr : next'[a] = IF a \in {m, n} THEN Null
                                    ELSE IF a = p THEN next[n] ELSE next[a]
  BY <1>1, <1>5, <1>8, Layout, SMTT(30) DEF Forget, Words
<1>10. /\ prev' \in Words
       /\ \A a \in Addr : prev'[a] = IF a \in {m, n} THEN Null
                                     ELSE IF a = next[n] THEN p ELSE prev[a]
  BY <1>1, <1>5, <1>6, <1>8, Layout, SMTT(30) DEF Store, Forget, Words
<1>11. /\ nfm \in Words /\ pfm \in Words
       /\ \A a \in Addr :
            /\ nfm[a] = IF a = pf[n] THEN m ELSE IF a = m THEN nf[n] ELSE nf[a]
            /\ pfm[a] = IF a = nf[n] THEN m ELSE IF a = m THEN pf[n] ELSE pf[a]
  BY <1>3, <1>8, Layout DEF Store, Words
<1> HIDE DEF nfm, pfm
<1>12. nf' \in Words /\ pf' \in Words
  <2>1. /\ nf' \in [Addr -> {nf'[a] : a \in Addr}]
        /\ \A a \in Addr : nf'[a] \in {Null, p, nf[n], nfm[a]}
    BY <1>1, <1>6, <1>8, <1>11 DEF Store, Forget, Words
  <2>2. /\ pf' \in [Addr -> {pf'[a] : a \in Addr}]
        /\ \A a \in Addr : pf'[a] \in {Null, p, pf[n], pfm[a]}
    BY <1>1, <1>6, <1>8, <1>11 DEF Store, Forget, Words
  <2>3. \A a \in Addr : nfm[a] \in Addr \cup {Null} /\ pfm[a] \in Addr \cup {Null}
    BY <1>11 DEF Words
  <2> QED BY <1>6, <1>8, <2>1, <2>2, <2>3 DEF Words
<1>13. CASE nf[n] = p
  <2>1. \A a \in Addr \ {m, n} : nf'[a] = IF a = pf[n] THEN nf[n] ELSE nf[a]
    BY <1>1, <1>6, <1>8, <1>11, <1>13, Layout DEF Store, Forget, Words
  <2>2. \A a \in Addr \ {m, n} : pf'[a] = IF a = nf[n] THEN pf[n] ELSE pf[a]
    BY <1>1, <1>6, <1>8, <1>11, <1>13, Layout DEF Store, Forget, Words
  <2> QED BY <1>3, <1>4, <1>5, <1>6, <1>7, <1>9, <1>10, <1>12, <2>1, <2>2
<1>14. CASE nf[n] # p
  <2>1. ASSUME Adjacent(n, p)
        PROVE  \A a \in Addr \ {m, n} :
                 /\ nf'[a] = IF a = pf[n] THEN nf[n] ELSE nf[a]
                 /\ pf'[a] = IF a = nf[n] THEN pf[n] ELSE pf[a]
    <3>1. nf[p] = n /\ pf[n] = p
      <4>1. nf[p] = n /\ n # Null
        BY <1>5, <1>14, <2>1, Layout DEF Adjacent
      <4>2. PICK rank \in [Addr -> Int] : ListIn(FreeBlocks, nf, pf, rank)
        BY <1>2 DEF Listed
      <4> QED BY <1>4, <4>1, <4>2 DEF ListIn
    <3>2. \A a \in Addr \ {m, n} : nf'[a] = IF a = pf[n] THEN nf[n] ELSE nf[a]
      BY <1>1, <1>6, <1>8, <1>11, <1>14, <3>1, Layout DEF Store, Forget, Words
    <3>3. \A a \in Addr \ {m, n} : pf'[a] = IF a = nf[n] THEN pf[n] ELSE pf[a]
      BY <1>1, <1>6, <1>8, <1>11, <1>14, <3>1, Layout DEF Store, Forget, Words
    <3> QED BY <3>2, <3>3
  <2> QED BY <1>3, <1>4, <1>5, <1>6, <1>7, <1>9, <1>10, <1>12, <2>1
<1> QED BY <1>13, <1>14

LEMMA WithBothKeeps ==
  ASSUME MemoryTyped, LocalsTyped, HeapGood, NEW m, FreeWithBoth(m)
  PROVE  MemoryTyped' /\ LocalsTyped' /\ (fault' = "none" => HeapGood')
<1> DEFINE n == next[m]
           p == prev[m]
<1>1. /\ n \in FreeBlocks /\ p \in FreeBlocks /\ n # p /\ prev[n] = m
      /\ n # m /\ p # m /\ next[n] # m /\ next[p] = m
      /\ n # Head /\ n # Tail /\ n # First /\ n \in blocks /\ n \notin used /\ n \in Addr
      /\ next[n] \in blocks /\ next[n] \in Addr /\ next[n] \notin FreeBlocks /\ next[n] # n
      /\ p # Head /\ p # Tail /\ p # First /\ p \in blocks /\ p \notin used /\ p \in Addr
      /\ next' \in Words /\ prev' \in Words /\ nf' \in Words /\ pf' \in Words
      /\ \A a \in Addr :
           /\ next'[a] = IF a \in {m, n} THEN Null
                         ELSE IF a = p THEN next[n] ELSE next[a]
           /\ prev'[a] = IF a \in {m, n} THEN Null
                         ELSE IF a = next[n] THEN p ELSE prev[a]
      /\ Adjacent(n, p) =>
           \A a \in Addr \ {m, n} :
             /\ nf'[a] = IF a = pf[n] THEN nf[n] ELSE nf[a]
             /\ pf'[a] = IF a = nf[n] THEN pf[n] ELSE pf[a]
  BY BothWords
<1>2. /\ Freeing(m) /\ blocks' = blocks \ {m, n} /\ fault' \in {"none", "nullFree", "apart"}
      /\ fault' = "none" => Adjacent(n, p)
  BY DEF FreeWithBoth
<1>3. /\ LocalsTyped' /\ ScanFits'
      /\ m \in live /\ used' = used \ {m} /\ live' = live \ {m}
      /\ Tiles /\ Merged /\ Edges /\ TilesIn(blocks, next, prev)
      /\ Listed(FreeBlocks, nf, pf) /\ FreeBlocks \in SUBSET (Addr \ {Head})
      /\ blocks \subseteq Addr /\ Head \in blocks /\ Tail \in blocks /\ First \in blocks
  BY <1>2, FreedEdges
<1>4. /\ m \in blocks /\ m # Head /\ m # Tail /\ m # First /\ m \in used
      /\ m \notin FreeBlocks /\ m \in Addr
  BY <1>3, LiveBlockLies
<1>5. p = prev[m]
  OBVIOUS
<1> HIDE DEF n, p
<1>6. FreeBlocks' = FreeBlocks \ {n}
  BY <1>1, <1>2, <1>3, <1>4 DEF FreeBlocks
<1>7. ASSUME fault' = "none"
      PROVE  Listed(FreeBlocks \ {n}, nf', pf')
  <2>1. \A a \in (FreeBlocks \ {n}) \cup {Head} :
          /\ nf'[a] = IF a = pf[n] THEN nf[n] ELSE nf[a]
          /\ pf'[a] = IF a = nf[n] THEN pf[n] ELSE pf[a]
    BY <1>1, <1>2, <1>3, <1>4, <1>7
  <2> QED BY <1>1, <1>3, <2>1, DropListed
<1>8. (fault = "none" => Listed(FreeBlocks, nf, pf))'
  BY <1>6, <1>7
<1>9. Merged'
  <2>1. ASSUME NEW a \in FreeBlocks \ {n}
        PROVE  next'[a] \notin FreeBlocks' /\ prev'[a] \notin FreeBlocks'
    <3>1. next[a] \notin FreeBlocks /\ prev[a] \notin FreeBlocks /\ a \in Addr /\ a # m
      BY <1>3, <1>4, <2>1, FreeBlockLies, BlockLies
    <3> QED BY <1>1, <1>6, <2>1, <3>1
  <2> QED BY <1>6, <2>1 DEF Merged
<1>10. TilesIn(blocks', next', prev')
  <2> DEFINE nx == [a \in Addr |-> IF a = m THEN next[n] ELSE next[a]]
             pv == [a \in Addr |-> IF a = next[n] THEN m ELSE prev[a]]
  <2>1. TilesIn(blocks \ {n}, nx, pv)
    <3>1. \A a \in blocks \ {n} :
            /\ nx[a] = IF a = prev[n] THEN next[n] ELSE next[a]
            /\ pv[a] = IF a = next[n] THEN prev[n] ELSE prev[a]
      BY <1>1, <1>3
    <3>2. /\ blocks \in SUBSET Addr /\ Head \in blocks /\ Tail \in blocks
          /\ TilesIn(blocks, next, prev) /\ n \in blocks \ {Head, Tail}
      BY <1>1, <1>3
    <3> HIDE DEF nx, pv
    <3> QED BY <3>1, <3>2, CutTile
  <2>2. nx[m] = next[n] /\ pv[m] = p
    BY <1>1, <1>4, <1>5
  <2>3. \A a \in (blocks \ {n}) \ {m} :
          /\ next'[a] = IF a = pv[m] THEN nx[m] ELSE nx[a]
          /\ prev'[a] = IF a = nx[m] THEN pv[m] ELSE pv[a]
    BY <1>1, <1>3, <2>2
  <2> HIDE DEF nx, pv
  <2>4. /\ blocks \ {n} \in SUBSET Addr /\ Head \in blocks \ {n} /\ Tail \in blocks \ {n}
        /\ m \in (blocks \ {n}) \ {Head, Tail}
    BY <1>1, <1>3, <1>4
  <2>5. TilesIn((blocks \ {n}) \ {m}, next', prev')
    BY <2>1, <2>3, <2>4, CutTile
  <2>6. blocks' = (blocks \ {n}) \ {m}
    BY <1>2
  <2> QED BY <2>5, <2>6
<1>11. (TilesIn(blocks, next, prev))'
  BY <1>10
<1>12. Edges'
  BY <1>1, <1>2, <1>3, <1>4, Layout DEF Edges
<1>13. Tiles'
  BY <1>11, <1>12, TilesParts, PTL
<1>14. MemoryTyped'
  BY <1>1, <1>2, <1>3 DEF MemoryTyped
<1> QED BY <1>3, <1>8, <1>9, <1>13, <1>14 DEF HeapGood
LEMMA AloneFails ==
  ASSUME MemoryTyped, LocalsTyped, HeapGood, NEW m, FreeAloneFails(m)
  PROVE  MemoryTyped' /\ LocalsTyped' /\ fault' # "none"
<1>1. /\ Freeing(m) /\ fault' = "nullFree" /\ blocks' = blocks /\ next' = next /\ prev' = prev
      /\ nf[Head] = Null
      /\ nf' = [nf EXCEPT ![m] = nf[Head]] /\ pf' = [pf EXCEPT ![m] = Head]
  BY DEF FreeAloneFails
<1>2. LocalsTyped' /\ m \in live /\ used' = used \ {m} /\ live' = live \ {m}
  BY <1>1, FreedEdges
<1>3. nf' \in Words /\ pf' \in Words
  BY <1>1, Layout DEF MemoryTyped, Words
<1> QED BY <1>1, <1>2, <1>3 DEF MemoryTyped
-----------------------------------------------------------------------------
(* The theorems.                                                           *)

LEMMA InitHeapInv == Init => HeapInv
<1> SUFFICES ASSUME Init PROVE HeapInv
  OBVIOUS
<1> DEFINE rest == First + 1 + TcbUnits
<1>1. /\ rest \in Int /\ rest >= First + 2 /\ rest + 2 <= Tail /\ rest \in Addr
      /\ rest # Head /\ rest # First /\ rest # Tail /\ First # Tail /\ First # Head /\ Tail # Head
  BY Layout, HeapAssumption
<1>2. /\ blocks = {Head, First, rest, Tail} /\ used = {First} /\ live = {}
      /\ next = [a \in Addr |-> IF a = Head THEN First
                   ELSE IF a = First THEN rest ELSE IF a = rest THEN Tail ELSE Null]
      /\ prev = [a \in Addr |-> IF a = First THEN Head
                   ELSE IF a = rest THEN First ELSE IF a = Tail THEN rest ELSE Null]
      /\ nf = [a \in Addr |-> IF a = Head THEN rest ELSE Null]
      /\ pf = [a \in Addr |-> IF a = rest THEN Head ELSE Null]
      /\ pc = [t \in Tasks |-> "run"] /\ seen = [t \in Tasks |-> Null]
      /\ size = [t \in Tasks |-> 0] /\ cursor = Null /\ fit = Null /\ fault = "none"
  BY <1>1 DEF Init
<1> HIDE DEF rest
<1>3. MemoryTyped /\ LocalsTyped
  BY <1>1, <1>2, Layout DEF MemoryTyped, LocalsTyped, Words
<1>4. FreeBlocks = {rest}
  BY <1>1, <1>2 DEF FreeBlocks
<1>5. /\ next[Head] = First /\ next[First] = rest /\ next[rest] = Tail /\ next[Tail] = Null
      /\ prev[First] = Head /\ prev[rest] = First /\ prev[Tail] = rest
      /\ nf[Head] = rest /\ nf[rest] = Null /\ pf[rest] = Head
  BY <1>1, <1>2, Layout
<1>6. Tiles
  BY <1>1, <1>2, <1>5, Layout DEF Tiles
<1>7. Merged
  BY <1>1, <1>4, <1>5 DEF Merged
<1>8. Listed(FreeBlocks, nf, pf)
  <2> DEFINE rank == [a \in Addr |-> a]
  <2>1. rank \in [Addr -> Int] /\ rank[Head] < rank[rest]
    BY <1>1, Layout
  <2>2. ListIn(FreeBlocks, nf, pf, rank)
    BY <1>1, <1>4, <1>5, <2>1 DEF ListIn
  <2> QED BY <2>1, <2>2 DEF Listed
<1>9. ScanFits
  BY <1>2 DEF ScanFits
<1> QED BY <1>3, <1>6, <1>7, <1>8, <1>9, TypeParts DEF HeapInv, HeapGood

\* The memory does not change: nothing but the locals can.
LEMMA MemoryKept ==
  ASSUME HeapInv, fault = "none", UNCHANGED <<blocks, used, next, prev, nf, pf, live>>,
         LocalsTyped', fault' = "none" => ScanFits'
  PROVE  HeapInv'
<1>1. MemoryTyped /\ Tiles /\ Merged /\ Listed(FreeBlocks, nf, pf)
  BY TypeParts DEF HeapInv, HeapGood
<1>2. FreeBlocks' = FreeBlocks
  BY DEF FreeBlocks
<1>3. MemoryTyped' /\ Tiles' /\ Merged'
  BY <1>1, <1>2 DEF MemoryTyped, Tiles, Merged
<1>4. (Listed(FreeBlocks, nf, pf))'
  BY <1>1, <1>2
<1>5. TypeOK'
  BY <1>3, TypeParts, PTL
<1> QED BY <1>3, <1>4, <1>5 DEF HeapInv, HeapGood

LEMMA StepHeapInv == HeapInv /\ [Next]_vars => HeapInv'
<1> SUFFICES ASSUME HeapInv, [Next]_vars PROVE HeapInv'
  OBVIOUS
<1>1. TypeOK /\ MemoryTyped /\ LocalsTyped /\ (fault = "none" => HeapGood)
  BY TypeParts DEF HeapInv
<1>2. ASSUME MemoryTyped', LocalsTyped', fault' = "none" => HeapGood'
      PROVE  HeapInv'
  <2>1. TypeOK'
    BY <1>2, TypeParts, PTL
  <2> QED BY <1>2, <2>1 DEF HeapInv
<1>3. ASSUME NEW t \in Tasks, NEW s \in Sizes, MallocEnter(t, s)
      PROVE  HeapInv'
  <2>1. /\ fault = "none" /\ fault' = "none"
        /\ UNCHANGED <<blocks, used, next, prev, nf, pf, live, cursor, fit>>
        /\ \A u \in Tasks : pc[u] # "scan"
    BY <1>3 DEF MallocEnter, Unlocked, links, scan
  <2>2. LocalsTyped'
    BY <1>1, <1>3, Layout DEF MallocEnter, LocalsTyped, MemoryTyped, Words, links, scan
  <2>3. ScanFits'
    <3>1. \A u \in Tasks : /\ pc'[u] = IF u = t THEN "entered" ELSE pc[u]
                           /\ size'[u] = IF u = t THEN s ELSE size[u]
      BY <1>1, <1>3 DEF MallocEnter, LocalsTyped
    <3> QED BY <1>1, <2>1, <3>1 DEF HeapGood, ScanFits
  <2> QED BY <2>1, <2>2, <2>3, MemoryKept
<1>4. ASSUME NEW t \in Tasks, MallocLock(t)
      PROVE  HeapInv'
  <2>1. /\ fault = "none" /\ fault' = "none"
        /\ UNCHANGED <<blocks, used, next, prev, nf, pf, live, seen, size>>
        /\ fit' = Null /\ \A u \in Tasks : pc[u] # "scan"
    BY <1>4 DEF MallocLock, Unlocked, links
  <2>2. LocalsTyped'
    BY <1>1, <1>4 DEF MallocLock, LocalsTyped, links
  <2>3. ScanFits'
    <3>1. /\ pc[t] = "entered"
          /\ \A u \in Tasks : pc'[u] = IF u = t THEN "scan" ELSE pc[u]
      BY <1>1, <1>4 DEF MallocLock, LocalsTyped
    <3> QED BY <1>1, <2>1, <3>1 DEF HeapGood, ScanFits
  <2> QED BY <2>1, <2>2, <2>3, MemoryKept
<1>5. ASSUME NEW t \in Tasks, Scan(t)
      PROVE  HeapInv'
  <2>1. /\ fault = "none" /\ fault' = "none" /\ pc[t] = "scan"
        /\ UNCHANGED <<blocks, used, next, prev, nf, pf, live, pc, seen, size>>
        /\ cursor \in FreeBlocks /\ cursor' = nf[cursor]
        /\ fit' = IF FitsBetter(cursor, size[t]) THEN cursor ELSE fit
    BY <1>5 DEF Scan, Scanning, links
  <2>2. cursor \in Addr
    BY <1>1, <2>1 DEF FreeBlocks, MemoryTyped
  <2>3. LocalsTyped'
    BY <1>1, <2>1, <2>2 DEF LocalsTyped, MemoryTyped, Words
  <2>4. ScanFits'
    <3>1. /\ FreeBlocks' = FreeBlocks
          /\ \A m \in FreeBlocks : BlockSize(m)' = BlockSize(m)
      BY <2>1 DEF FreeBlocks, BlockSize
    <3>2. FitsBetter(cursor, size[t]) => size[t] < BlockSize(cursor)
      <4>1. cursor \in Int /\ next[cursor] \in Int /\ size[t] \in Int
        <5>1. cursor \in blocks /\ cursor # Head /\ cursor # Tail
          BY <2>1 DEF FreeBlocks
        <5>2. cursor \in Int /\ next[cursor] \in Addr
          BY <1>1, <2>1, <5>1, BlockLies DEF HeapGood
        <5>3. size[t] \in Sizes
          BY <1>1, <2>1 DEF HeapGood, ScanFits
        <5> QED BY <5>2, <5>3, Layout
      <4> QED BY <4>1 DEF FitsBetter, BlockSize
    <3>3. ScanFits /\ \A u \in Tasks : pc[u] = "scan" => u = t
      BY <1>1, <2>1 DEF HeapGood, ScanFits
    <3>4. \A u \in Tasks : pc'[u] # "run" => size'[u] \in Sizes
      BY <2>1, <3>3 DEF ScanFits
    <3>5. fit' # Null => fit' \in FreeBlocks' /\ size'[t] < next'[fit'] - fit' - 1
      BY <2>1, <3>1, <3>2, <3>3 DEF ScanFits, BlockSize
    <3> QED BY <2>1, <3>3, <3>4, <3>5 DEF ScanFits, BlockSize
  <2> QED BY <2>1, <2>3, <2>4, MemoryKept
<1>6. ASSUME NEW t \in Tasks, ScanStale(t)
      PROVE  HeapInv'
  <2>1. /\ fault = "none" /\ fault' = "stale"
        /\ UNCHANGED <<blocks, used, next, prev, nf, pf, live, pc, seen, size, cursor, fit>>
    BY <1>6 DEF ScanStale, Scanning, links, scan
  <2>2. LocalsTyped'
    BY <1>1, <2>1 DEF LocalsTyped
  <2> QED BY <2>1, <2>2, MemoryKept
<1>7. ASSUME NEW t \in Tasks, MallocFails(t)
      PROVE  HeapInv'
  <2>1. /\ fault = "none" /\ fault' = fault /\ pc[t] = "scan" /\ Leave(t)
        /\ UNCHANGED <<blocks, used, next, prev, nf, pf, live>>
    BY <1>7 DEF MallocFails, Scanned, links
  <2>2. LocalsTyped' /\ ScanFits'
    BY <1>1, <2>1, LeaveKeeps DEF HeapGood
  <2> QED BY <2>1, <2>2, MemoryKept
<1>8. ASSUME NEW t \in Tasks, MallocSplit(t)
      PROVE  HeapInv'
  <2>1. fault = "none"
    BY <1>8 DEF MallocSplit, MallocReturns, Scanned
  <2> QED BY <1>1, <1>2, <1>8, <2>1, SplitKeeps
<1>9. ASSUME NEW t \in Tasks, MallocWhole(t)
      PROVE  HeapInv'
  <2>1. fault = "none"
    BY <1>9 DEF MallocWhole, MallocReturns, Scanned
  <2> QED BY <1>1, <1>2, <1>9, <2>1, WholeKeeps
<1>10. ASSUME NEW m \in live, FreeNext(m)
       PROVE  HeapInv'
  <2>1. fault = "none"
    BY <1>10 DEF FreeNext, FreeAlone, FreeAloneFails, FreeWithNext, FreeWithPrev,
                 FreeWithBoth, Freeing
  <2>2. HeapGood
    BY <1>1, <2>1
  <2>3. MemoryTyped' /\ LocalsTyped' /\ (fault' = "none" => HeapGood')
    BY <1>1, <1>10, <2>2, AloneKeeps, AloneFails, WithNextKeeps, WithPrevKeeps, WithBothKeeps
       DEF FreeNext
  <2> QED BY <1>2, <2>3
<1>11. CASE UNCHANGED vars
  <2>1. UNCHANGED <<blocks, used, next, prev, nf, pf, live, pc, seen, size, cursor, fit, fault>>
    BY <1>11 DEF vars
  <2>2. FreeBlocks' = FreeBlocks
    BY <2>1 DEF FreeBlocks
  <2>3. MemoryTyped' /\ LocalsTyped'
    BY <1>1, <2>1 DEF MemoryTyped, LocalsTyped
  <2>4. ASSUME fault' = "none" PROVE HeapGood'
    <3>1. HeapGood
      BY <1>1, <2>1, <2>4
    <3>2. Tiles' /\ Merged' /\ ScanFits'
      BY <2>1, <2>2, <3>1 DEF HeapGood, Tiles, Merged, ScanFits, BlockSize
    <3>3. (Listed(FreeBlocks, nf, pf))'
      BY <2>1, <2>2, <3>1 DEF HeapGood
    <3> QED BY <3>2, <3>3 DEF HeapGood
  <2> QED BY <1>2, <2>3, <2>4
<1> QED BY <1>3, <1>4, <1>5, <1>6, <1>7, <1>8, <1>9, <1>10, <1>11
        DEF Next, MallocNext, ScanNext
LEMMA AlwaysHeapInv == Spec => []HeapInv
BY InitHeapInv, StepHeapInv, PTL DEF Spec

\* Every variable keeps its type, in whatever order the tasks allocate and free.
THEOREM TypeCorrect == Spec => []TypeOK
<1>1. HeapInv => TypeOK
  BY DEF HeapInv
<1> QED BY <1>1, AlwaysHeapInv, PTL

\* The splits of xos_malloc and the merges of xos_free lose no memory and give
\* none to two blocks, until a step that follows a stale link breaks the heap.
THEOREM AlwaysTiled == Spec => []HeapTiled
<1>1. HeapInv => HeapTiled
  BY DEF HeapInv, HeapGood, HeapTiled
<1> QED BY <1>1, AlwaysHeapInv, PTL

\* xos_free leaves no two free blocks side by side.
THEOREM AlwaysCoalesced == Spec => []Coalesced
<1>1. HeapInv => Coalesced
  BY DEF HeapInv, HeapGood, Coalesced
<1> QED BY <1>1, AlwaysHeapInv, PTL

\* Each free block has one place in the free list, and nothing else has.
THEOREM AlwaysListed == Spec => []FreeListGood
<1>1. HeapInv => FreeListGood
  <2>1. Listed(FreeBlocks, nf, pf) => ListExact
    BY DEF Listed, ListIn, ListExact, Linked
  <2> QED BY <2>1 DEF HeapInv, HeapGood, FreeListGood
<1> QED BY <1>1, AlwaysHeapInv, PTL

\* xos_malloc returns a block as large as its caller asked for, or one unit
\* larger, and nothing that other callers do changes it before it is freed.
THEOREM AllocationsAlwaysHold == Spec => AllocationsHold
<1> DEFINE Held ==
      \A m \in live' :
        IF m \in live THEN next'[m] = next[m]
        ELSE \E t \in Tasks : /\ pc[t] = "scan"
                              /\ next'[m] - m - 1 \in {size[t], size[t] + 1}
<1>1. HeapInv /\ [Next]_vars => [Held]_vars
  <2> SUFFICES ASSUME HeapInv, Next PROVE Held
    OBVIOUS
  <2>1. MemoryTyped /\ LocalsTyped /\ (fault = "none" => HeapGood)
    BY TypeParts DEF HeapInv
  <2>2. ASSUME next' = next, live' \subseteq live PROVE Held
    BY <2>2
  <2>3. ASSUME NEW t \in Tasks, MallocSplit(t)
        PROVE  Held
    <3> DEFINE n == fit + 1 + size[t]
    <3>1. /\ fault = "none" /\ pc[t] = "scan" /\ live' = live \cup {fit}
      BY <2>3 DEF MallocSplit, MallocReturns, Scanned
    <3>2. HeapGood
      BY <2>1, <3>1
    <3>3. /\ fit \in FreeBlocks /\ n \in Addr /\ fit + 2 <= n /\ n + 2 <= next[fit]
          /\ \A a \in Addr :
               next'[a] = IF a = n THEN next[fit] ELSE IF a = fit THEN n ELSE next[a]
      BY <2>1, <2>3, <3>2, SplitWords
    <3>4. size[t] \in Int /\ fit \in Addr /\ fit \in Int /\ next[fit] \in Int
      <4>1. fit \in blocks /\ fit # Head /\ fit # Tail
        BY <3>3 DEF FreeBlocks
      <4>2. fit \in Addr /\ fit \in Int /\ next[fit] \in Addr
        BY <2>1, <3>2, <4>1, BlockLies DEF HeapGood
      <4>3. size[t] \in Sizes
        BY <3>1, <3>2 DEF HeapGood, ScanFits
      <4> QED BY <4>2, <4>3, Layout
    <3>5. next'[fit] - fit - 1 = size[t]
      BY <3>3, <3>4
    <3>6. ASSUME NEW m \in live PROVE next'[m] = next[m]
      <4>1. m \in blocks /\ m \in Addr /\ m \notin FreeBlocks
        BY <2>1, <3>2, LiveBlockLies, BlockLies DEF HeapGood
      <4>2. m # fit /\ m # n
        <5>1. fit \in blocks \ {Tail} /\ (m <= fit \/ next[fit] <= m)
          BY <3>2, <3>3, <4>1 DEF HeapGood, Tiles, FreeBlocks
        <5>2. m \in Int /\ n \in Int
          BY <3>3, <4>1, Layout
        <5> QED BY <3>3, <3>4, <4>1, <5>1, <5>2
      <4> QED BY <3>3, <4>1, <4>2
    <3>7. fit \notin live
      BY <2>1, <3>2, <3>3, LiveBlockLies DEF HeapGood
    <3> QED BY <3>1, <3>5, <3>6, <3>7
  <2>4. ASSUME NEW t \in Tasks, MallocWhole(t)
        PROVE  Held
    <3>1. /\ fault = "none" /\ pc[t] = "scan" /\ live' = live \cup {fit} /\ next' = next
          /\ fit # Null /\ ~(BlockSize(fit) - size[t] >= 2)
      BY <2>4 DEF MallocWhole, MallocReturns, Scanned, Splits
    <3>2. fit \in FreeBlocks /\ size[t] < BlockSize(fit) /\ size[t] \in Sizes
      BY <2>1, <3>1 DEF HeapGood, ScanFits
    <3>3. next[fit] - fit - 1 = size[t] + 1
      <4>1. fit \in blocks /\ fit # Head /\ fit # Tail
        BY <3>2 DEF FreeBlocks
      <4>2. fit \in Int /\ next[fit] \in Int
        BY <2>1, <3>1, <4>1, BlockLies, Layout DEF HeapGood
      <4> QED BY <3>1, <3>2, <4>2, Layout DEF BlockSize
    <3> QED BY <3>1, <3>3
  <2>5. ASSUME NEW m \in live, FreeNext(m)
        PROVE  Held
    <3>1. /\ fault = "none" /\ live' = live \ {m}
      BY <2>5 DEF FreeNext, FreeAlone, FreeAloneFails, FreeWithNext, FreeWithPrev,
                  FreeWithBoth, Freeing
    <3>2. HeapGood /\ Tiles
      BY <2>1, <3>1 DEF HeapGood
    <3>3. ASSUME NEW k \in live PROVE k \in Addr /\ k \notin FreeBlocks
      BY <2>1, <3>2, <3>3, LiveBlockLies, BlockLies
    <3>4. next \in Words /\ m \in Addr /\ next[m] \in blocks /\ prev[m] \in blocks
          /\ prev[m] # Head /\ next[m] # Head
      BY <2>1, <3>2, LiveBlockLies, BlockLies DEF MemoryTyped
    <3>5. CASE FreeAlone(m) \/ FreeAloneFails(m)
      BY <3>1, <3>5 DEF FreeAlone, FreeAloneFails
    <3>6. CASE FreeWithNext(m)
      <4>1. next' = Forget([next EXCEPT ![m] = next[next[m]]], {next[m]})
        BY <3>6 DEF FreeWithNext
      <4>2. next[m] \in FreeBlocks
        BY <2>1, <3>2, <3>4, <3>6, FreeMeans DEF FreeWithNext
      <4> QED BY <3>1, <3>3, <3>4, <4>1, <4>2 DEF Forget, Words
    <3>7. CASE FreeWithPrev(m)
      <4>1. next' = Forget([next EXCEPT ![prev[m]] = next[m]], {m})
        BY <3>7 DEF FreeWithPrev
      <4>2. prev[m] \in FreeBlocks
        BY <2>1, <3>2, <3>4, <3>7, FreeMeans DEF FreeWithPrev
      <4> QED BY <3>1, <3>3, <3>4, <4>1, <4>2 DEF Forget, Words
    <3>8. CASE FreeWithBoth(m)
      <4>1. /\ next[m] \in FreeBlocks /\ prev[m] \in FreeBlocks
            /\ \A a \in Addr : next'[a] = IF a \in {m, next[m]} THEN Null
                                 ELSE IF a = prev[m] THEN next[next[m]] ELSE next[a]
        BY <2>1, <3>2, <3>8, BothWords
      <4> QED BY <3>1, <3>3, <4>1
    <3> QED BY <2>5, <3>5, <3>6, <3>7, <3>8 DEF FreeNext
  <2>6. ASSUME NEW t \in Tasks, MallocNext(t), ~MallocSplit(t), ~MallocWhole(t)
        PROVE  next' = next /\ live' = live
    BY <2>6 DEF MallocNext, ScanNext, MallocEnter, MallocLock, Scan, ScanStale, MallocFails, links
  <2> HIDE DEF Held
  <2> QED BY <2>2, <2>3, <2>4, <2>5, <2>6 DEF Next
<1> QED BY <1>1, AlwaysHeapInv, PTL DEF Spec, AllocationsHold
=============================================================================
