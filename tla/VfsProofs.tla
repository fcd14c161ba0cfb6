------------------------------ MODULE VfsProofs ------------------------------
(***************************************************************************)
(* What holds of devices and partition tables (BlkDev), and of the buffers *)
(* of FAT, the run lists of NTFS, look-ups and listings, and reads of      *)
(* files (Vfs), for any disks, volumes, paths, sizes and failures.         *)
(***************************************************************************)
EXTENDS Vfs, BlkDev, FiniteSetTheorems, FunctionTheorems, SequenceTheorems, WellFoundedInduction, TLAPS

LEMMA LeastIsLeast ==
  ASSUME NEW T, T \subseteq Nat, T # {}
  PROVE  Least(T) \in T /\ \A y \in T : Least(T) <= y
<1> DEFINE R == {ss \in Nat \X Nat : ss[1] < ss[2]}
<1>1. IsWellFoundedOn(R, Nat)
  BY NatLessThanWellFounded DEF OpToRel
<1>2. PICK x \in T : \A y \in T : ~ (<<y, x>> \in R)
  BY <1>1, WFMin
<1>3. \A y \in T : ~(y < x)
  BY <1>2
<1>4. \A y \in T : x <= y
  BY <1>3
<1> QED BY <1>4 DEF Least
-----------------------------------------------------------------------------
(* The partition table                                                     *)

\* A round of f_initdev's loop: s is what the rounds before have left, e the entry.
Scanning(s, e) ==
  IF s.over \/ IsEmpty(e) THEN s
  ELSE IF IllegalEntry(e) THEN [s EXCEPT !.over = TRUE]
  ELSE [s EXCEPT !.p = @ + 1, !.parts[s.p + 1] = [start |-> e.start, size |-> e.size]]

Unscanned == [p |-> 0, parts |-> WholeDisk, over |-> FALSE]

\* The recursive function of ScanTable is what its equation says.
LEMMA ScanUnfolds ==
  ASSUME NEW entries
  PROVE  ScanTable(entries) =
           Scanning(Scanning(Scanning(Scanning(Unscanned, entries[1]), entries[2]), entries[3]), entries[4]).parts
<1> DEFINE s1 == Scanning(Unscanned, entries[1])
           s2 == Scanning(s1, entries[2])
           s3 == Scanning(s2, entries[3])
           s4 == Scanning(s3, entries[4])
           Solves(f) == f = [i \in 0..4 |-> IF i = 0 THEN Unscanned ELSE Scanning(f[i - 1], entries[i])]
           g == [i \in 0..4 |-> CASE i = 0 -> Unscanned [] i = 1 -> s1 [] i = 2 -> s2 [] i = 3 -> s3 [] OTHER -> s4]
           scan == CHOOSE f : Solves(f)
<1>1. ScanTable(entries) = scan[4].parts
  BY DEF ScanTable, Scanning, Unscanned, WholeDisk
<1>2. Solves(g)
  <2> HIDE DEF s1, s2, s3, s4
  <2>1. g[0] = Unscanned /\ g[1] = s1 /\ g[2] = s2 /\ g[3] = s3 /\ g[4] = s4
    OBVIOUS
  <2>2. s1 = Scanning(g[0], entries[1]) /\ s2 = Scanning(g[1], entries[2]) /\ s3 = Scanning(g[2], entries[3]) /\ s4 = Scanning(g[3], entries[4])
    BY <2>1 DEF s1, s2, s3, s4
  <2> HIDE DEF g
  <2>3. \A i \in 0..4 : g[i] = IF i = 0 THEN Unscanned ELSE Scanning(g[i - 1], entries[i])
    <3>1. \A i \in 0..4 : i \in {0, 1, 2, 3, 4}
      OBVIOUS
    <3>2. SUFFICES ASSUME NEW i \in {0, 1, 2, 3, 4}
                   PROVE  g[i] = IF i = 0 THEN Unscanned ELSE Scanning(g[i - 1], entries[i])
      BY <3>1
    <3>3. CASE i = 0
      BY <2>1, <3>3
    <3>4. CASE i = 1
      BY <2>1, <2>2, <3>4
    <3>5. CASE i = 2
      BY <2>1, <2>2, <3>5
    <3>6. CASE i = 3
      BY <2>1, <2>2, <3>6
    <3>7. CASE i = 4
      BY <2>1, <2>2, <3>7
    <3> QED BY <3>3, <3>4, <3>5, <3>6, <3>7
  <2> QED BY <2>3 DEF g
<1> HIDE DEF Solves, g
<1>3. Solves(scan)
  BY <1>2
<1> HIDE DEF scan
<1>4. scan[0] = Unscanned /\ \A i \in 1..4 : scan[i] = Scanning(scan[i - 1], entries[i])
  BY <1>3 DEF Solves
<1>5. scan[1] = s1 /\ scan[2] = s2 /\ scan[3] = s3 /\ scan[4] = s4
  BY <1>4
<1> QED BY <1>1, <1>5

Sound(e) == IsEmpty(e) \/ ~IllegalEntry(e)
Upto(entries) == {i \in 1..4 : \A j \in 1..i : Sound(entries[j])}
Mine(entries) == {i \in Upto(entries) : ~IsEmpty(entries[i])}
MineUpto(entries, i) == {j \in Mine(entries) : j <= i}
Part(e) == [start |-> e.start, size |-> e.size]
Parts(entries) == {Part(entries[i]) : i \in 1..4} \cup {WholeDisk[p] : p \in 1..4}

\* The loop's state after i rounds: so many parts are of entries, each in the place
\* that its rank says, and the others are as they were.
Scanned(entries, i, s) ==
  /\ s \in [p : Nat, parts : [1..4 -> Parts(entries)], over : BOOLEAN]
  /\ s.over <=> ~(\A j \in 1..i : Sound(entries[j]))
  /\ s.p = Cardinality(MineUpto(entries, i)) /\ s.p <= i
  /\ \A j \in MineUpto(entries, i) :
       /\ Cardinality(MineUpto(entries, j)) \in 1..s.p
       /\ s.parts[Cardinality(MineUpto(entries, j))] = Part(entries[j])
  /\ \A p \in 1..4 : p > s.p => s.parts[p] = WholeDisk[p]

LEMMA ScanStarts == ASSUME NEW entries PROVE Scanned(entries, 0, Unscanned)
<1>1. MineUpto(entries, 0) = {}
  BY DEF MineUpto, Mine, Upto
<1>2. Cardinality(MineUpto(entries, 0)) = 0
  BY <1>1, FS_EmptySet
<1>3. WholeDisk \in [1..4 -> Parts(entries)]
  <2>1. WholeDisk = [p \in 1..4 |-> WholeDisk[p]]
    BY DEF WholeDisk
  <2> QED BY <2>1 DEF Parts
<1> HIDE DEF WholeDisk
<1> QED BY <1>1, <1>2, <1>3 DEF Scanned, Unscanned

LEMMA ScanGoesOn ==
  ASSUME NEW entries, NEW i \in 1..4, NEW s, Scanned(entries, i - 1, s)
  PROVE  Scanned(entries, i, Scanning(s, entries[i]))
<1> DEFINE e == entries[i]
           S == [p : Nat, parts : [1..4 -> Parts(entries)], over : BOOLEAN]
<1>1. /\ s \in S
      /\ s.over <=> ~(\A j \in 1..(i - 1) : Sound(entries[j]))
      /\ s.p = Cardinality(MineUpto(entries, i - 1)) /\ s.p <= i - 1
      /\ \A j \in MineUpto(entries, i - 1) :
           /\ Cardinality(MineUpto(entries, j)) \in 1..s.p
           /\ s.parts[Cardinality(MineUpto(entries, j))] = Part(entries[j])
      /\ \A p \in 1..4 : p > s.p => s.parts[p] = WholeDisk[p]
  BY DEF Scanned
<1>2. (\A j \in 1..i : Sound(entries[j])) <=> ~s.over /\ Sound(e)
  <2>1. 1..i = (1..(i - 1)) \cup {i}
    OBVIOUS
  <2> QED BY <1>1, <2>1
<1>3. i \in Mine(entries) <=> ~s.over /\ Sound(e) /\ ~IsEmpty(e)
  BY <1>2 DEF Mine, Upto
<1>4. Mine(entries) \subseteq 1..4
  BY DEF Mine, Upto
<1>5. MineUpto(entries, i) = MineUpto(entries, i - 1) \cup (IF i \in Mine(entries) THEN {i} ELSE {})
  BY <1>4 DEF MineUpto
<1> HIDE DEF e
<1>6. ASSUME i \notin Mine(entries), NEW s2 \in S, s2.p = s.p, s2.parts = s.parts, s2.over <=> ~(\A j \in 1..i : Sound(entries[j]))
      PROVE  Scanned(entries, i, s2)
  <2>1. MineUpto(entries, i) = MineUpto(entries, i - 1)
    BY <1>5, <1>6
  <2>2. s2.p <= i
    BY <1>1, <1>6
  <2> QED BY <1>1, <1>6, <2>1, <2>2 DEF Scanned
<1>7. CASE s.over \/ IsEmpty(e)
  <2>1. Scanning(s, e) = s
    BY <1>7 DEF Scanning
  <2>2. i \notin Mine(entries)
    BY <1>3, <1>7
  <2>3. s.over <=> ~(\A j \in 1..i : Sound(entries[j]))
    BY <1>2, <1>7 DEF Sound
  <2> QED BY <1>1, <1>6, <2>1, <2>2, <2>3 DEF e
<1>8. CASE ~(s.over \/ IsEmpty(e)) /\ IllegalEntry(e)
  <2> DEFINE s2 == Scanning(s, e)
  <2>1. s2 = [s EXCEPT !.over = TRUE]
    BY <1>8 DEF Scanning
  <2>2. s2 \in S /\ s2.p = s.p /\ s2.parts = s.parts /\ s2.over = TRUE
    BY <1>1, <2>1
  <2>3. i \notin Mine(entries) /\ ~(\A j \in 1..i : Sound(entries[j]))
    BY <1>2, <1>3, <1>8 DEF Sound
  <2> HIDE DEF s2, S
  <2>4. Scanned(entries, i, s2)
    BY <1>6, <2>2, <2>3
  <2> QED BY <2>4 DEF s2, e
<1>9. CASE ~(s.over \/ IsEmpty(e)) /\ ~IllegalEntry(e)
  <2> DEFINE s2 == Scanning(s, e)
  <2>1. s2 = [s EXCEPT !.p = @ + 1, !.parts[s.p + 1] = Part(e)]
    BY <1>9 DEF Scanning, Part
  <2>2. s.p + 1 \in 1..4 /\ Part(e) \in Parts(entries)
    BY <1>1 DEF Parts, e
  <2>3. s2 \in S /\ s2.p = s.p + 1 /\ s2.over = s.over
    <3> DEFINE grown == [s.parts EXCEPT ![s.p + 1] = Part(e)]
    <3>1. s.p \in Nat /\ s.parts \in [1..4 -> Parts(entries)] /\ s.over \in BOOLEAN
      BY <1>1
    <3>2. grown \in [1..4 -> Parts(entries)]
      BY <2>2, <3>1
    <3> HIDE DEF grown
    <3>3. s2 = [p |-> s.p + 1, parts |-> grown, over |-> s.over]
      BY <1>1, <2>1 DEF grown
    <3>4. s.p + 1 \in Nat
      BY <3>1
    <3> HIDE DEF s2
    <3> QED BY <3>1, <3>2, <3>3, <3>4
  <2>4. \A p \in 1..4 : s2.parts[p] = IF p = s.p + 1 THEN Part(e) ELSE s.parts[p]
    BY <1>1, <2>1, <2>2
  <2>5. i \in Mine(entries) /\ MineUpto(entries, i) = MineUpto(entries, i - 1) \cup {i} /\ i \notin MineUpto(entries, i - 1)
    BY <1>3, <1>5, <1>9 DEF Sound, MineUpto
  <2>6. Cardinality(MineUpto(entries, i)) = s.p + 1
    <3>1. IsFiniteSet(MineUpto(entries, i - 1))
      <4>1. IsFiniteSet(1..4)
        <5>1. 1 \in Int /\ 4 \in Int
          OBVIOUS
        <5> QED BY <5>1, FS_Interval, Zenon
      <4>2. MineUpto(entries, i - 1) \in SUBSET (1..4)
        BY <1>4 DEF MineUpto
      <4> QED BY <4>1, <4>2, FS_Subset
    <3> DEFINE before == MineUpto(entries, i - 1)
               q == s.p
    <3>2. IsFiniteSet(before) /\ i \notin before /\ Cardinality(before) = q /\ MineUpto(entries, i) = before \cup {i}
      BY <1>1, <2>5, <3>1
    <3> HIDE DEF before, q
    <3>3. Cardinality(before \cup {i}) = Cardinality(before) + 1
      BY <3>2, FS_AddElement
    <3>4. Cardinality(MineUpto(entries, i)) = q + 1
      BY <3>2, <3>3
    <3> QED BY <3>4 DEF q
  <2>7. ASSUME NEW j \in MineUpto(entries, i)
        PROVE  /\ Cardinality(MineUpto(entries, j)) \in 1..s2.p
               /\ s2.parts[Cardinality(MineUpto(entries, j))] = Part(entries[j])
    <3>1. CASE j = i
      BY <1>1, <2>2, <2>3, <2>4, <2>6, <3>1 DEF e
    <3>2. CASE j # i
      <4>1. /\ Cardinality(MineUpto(entries, j)) \in 1..s.p
            /\ s.parts[Cardinality(MineUpto(entries, j))] = Part(entries[j])
        BY <1>1, <2>5, <3>2
      <4> QED BY <1>1, <2>2, <2>3, <2>4, <4>1
    <3> QED BY <3>1, <3>2
  <2>8. \A p \in 1..4 : p > s2.p => s2.parts[p] = WholeDisk[p]
    BY <1>1, <2>3, <2>4
  <2>9. s2.over <=> ~(\A j \in 1..i : Sound(entries[j]))
    BY <1>2, <1>9, <2>3 DEF Sound
  <2> HIDE DEF s2
  <2>10. s2.p <= i
    BY <1>1, <2>3
  <2>11. Scanned(entries, i, s2)
    BY <2>3, <2>6, <2>7, <2>8, <2>9, <2>10 DEF Scanned
  <2> QED BY <2>11 DEF s2, e
<1> QED BY <1>7, <1>8, <1>9

LEMMA ScanEnds ==
  ASSUME NEW entries
  PROVE  \E s : Scanned(entries, 4, s) /\ ScanTable(entries) = s.parts
<1> DEFINE s1 == Scanning(Unscanned, entries[1])
           s2 == Scanning(s1, entries[2])
           s3 == Scanning(s2, entries[3])
           s4 == Scanning(s3, entries[4])
<1>1. ScanTable(entries) = s4.parts
  BY ScanUnfolds
<1>2. Scanned(entries, 1 - 1, Unscanned)
  BY ScanStarts
<1>3. Scanned(entries, 1, s1)
  BY <1>2, ScanGoesOn
<1> HIDE DEF s1
<1>4. Scanned(entries, 2 - 1, s1)
  BY <1>3
<1>5. Scanned(entries, 2, s2)
  BY <1>4, ScanGoesOn
<1> HIDE DEF s2
<1>6. Scanned(entries, 3 - 1, s2)
  BY <1>5
<1>7. Scanned(entries, 3, s3)
  BY <1>6, ScanGoesOn
<1> HIDE DEF s3
<1>8. Scanned(entries, 4 - 1, s3)
  BY <1>7
<1>9. Scanned(entries, 4, s4)
  BY <1>8, ScanGoesOn
<1> HIDE DEF s4
<1> QED BY <1>1, <1>9

\* A legal table is scanned right (f_initdev).
ScansRight(found, entries) ==
  LET mine == {i \in 1..4 : ~IsEmpty(entries[i])}
  IN  /\ mine = {} => found[1] = [start |-> 0, size |-> DiskSize]
      /\ \A i \in mine : LET p == Cardinality({j \in mine : j <= i})
                         IN  found[p].start = entries[i].start /\ found[p].size = entries[i].size
      /\ \A p \in 1..4 : p > Cardinality(mine) /\ p > 1 => found[p].size = 0

LEMMA LegalIsScanned ==
  ASSUME NEW entries, Legal(entries)
  PROVE  ScansRight(ScanTable(entries), entries)
<1>1. PICK s : Scanned(entries, 4, s) /\ ScanTable(entries) = s.parts
  BY ScanEnds
<1>2. MineUpto(entries, 4) = Mine(entries)
  BY DEF MineUpto, Mine, Upto
<1>3. Mine(entries) = {i \in 1..4 : ~IsEmpty(entries[i])}
  BY DEF Mine, Upto, Legal, Sound
<1>4. ASSUME Mine(entries) = {}
      PROVE  s.parts[1] = [start |-> 0, size |-> DiskSize]
  <2>1. s.p = 0
    BY <1>1, <1>2, <1>4, FS_EmptySet DEF Scanned
  <2> QED BY <1>1, <2>1 DEF Scanned, WholeDisk
<1>5. ASSUME NEW i \in Mine(entries)
      PROVE  /\ s.parts[Cardinality({j \in Mine(entries) : j <= i})].start = entries[i].start
             /\ s.parts[Cardinality({j \in Mine(entries) : j <= i})].size = entries[i].size
  <2>1. s.parts[Cardinality(MineUpto(entries, i))] = Part(entries[i])
    BY <1>1, <1>2, <1>5 DEF Scanned
  <2> QED BY <2>1 DEF MineUpto, Part
<1>6. ASSUME NEW p \in 1..4, p > Cardinality(Mine(entries)), p > 1
      PROVE  s.parts[p].size = 0
  <2>1. s.parts[p] = WholeDisk[p]
    BY <1>1, <1>2, <1>6 DEF Scanned
  <2> QED BY <1>6, <2>1 DEF WholeDisk
<1> QED BY <1>1, <1>3, <1>4, <1>5, <1>6 DEF ScansRight
-----------------------------------------------------------------------------
(* Devices                                                                 *)

\* the thread of a disk works with its BLKDEV
Working(d) == where[d] \notin {"out", "named", "done"}

BlkTyped ==
  /\ devlist \in [1..Slots -> Places \cup {None}]
  /\ mixed \subseteq Disks /\ there \subseteq Sticks /\ fs \subseteq Places
  /\ user \in [Sticks -> Blocks \cup {None}]
  /\ where \in [Disks -> {"out", "named", "find", "store", "read", "got", "mount", "keep", "done"}]
  /\ bdev \in [Disks -> Places \cup {None}] /\ slot \in [Disks -> 0..Slots]
  /\ parts = [b \in Places |-> parts[b]]

\* Each thread works with a BLKDEV that no other thread works with, a stick's with
\* that of its instance.  A thread that is about to change something has not lost
\* its stick.
ThreadsApart ==
  /\ bdev[Card] = CardBlock
  /\ \A d \in Sticks :
       /\ where[d] \notin {"out", "named"} => bdev[d] \in Blocks
       /\ user[d] = IF d \in there /\ where[d] \notin {"out", "named"} THEN bdev[d] ELSE None
       /\ where[d] \in {"named", "find", "store", "keep"} => d \in there
       /\ d \in there => where[d] # "out"
  /\ \A d, e \in Sticks : user[d] = user[e] /\ user[d] # None => d = e
  /\ \A d, e \in Sticks : Working(d) /\ Working(e) /\ bdev[d] = bdev[e] => d = e
  /\ \A d \in Disks : where[d] = "store" => slot[d] \in 1..Slots

\* Where f_initdev has not stored a device, it is in no slot.
NotYetListed == \A d \in Disks : where[d] \in {"find", "store"} => SlotsOf(bdev[d]) = {}

\* What has been read and not been replaced is scanned, and then it is in the BLKDEV.
BufferScanned ==
  /\ \A d \in Disks : where[d] = "got" /\ d \notin mixed => sector_buf = d
  /\ \A d \in Disks : where[d] = "mount" /\ d \notin mixed => parts[bdev[d]] = ScanTable(table[d])

BlkInv == stopped = "none" => BlkTyped /\ ThreadsApart /\ NotYetListed /\ DevicesListed /\ BufferScanned

LEMMA BlkInvInit == BlkInit => BlkInv
<1> SUFFICES ASSUME BlkInit PROVE BlkTyped /\ ThreadsApart /\ NotYetListed /\ DevicesListed /\ BufferScanned
  BY DEF BlkInv
<1>1. BlkTyped
  <2>1. \A d \in Disks : (IF d = Card THEN CardBlock ELSE None) \in Places \cup {None}
    BY DEF Places
  <2>2. bdev \in [Disks -> Places \cup {None}] /\ parts = [b \in Places |-> parts[b]]
    BY <2>1 DEF BlkInit
  <2>3. /\ user \in [Sticks -> Blocks \cup {None}] /\ devlist \in [1..Slots -> Places \cup {None}]
        /\ where \in [Disks -> {"out", "named", "find", "store", "read", "got", "mount", "keep", "done"}]
        /\ mixed \subseteq Disks /\ there \subseteq Sticks /\ fs \subseteq Places
    BY DEF BlkInit
  <2>4. slot \in [Disks -> 0..Slots]
    BY BlkAssumption DEF BlkInit
  <2> QED BY <2>2, <2>3, <2>4 DEF BlkTyped
<1>2. ThreadsApart
  BY BlkAssumption DEF BlkInit, ThreadsApart, Disks, Working
<1>3. NotYetListed /\ BufferScanned
  BY DEF BlkInit, NotYetListed, BufferScanned
<1>4. DevicesListed
  BY BlkAssumption DEF BlkInit, DevicesListed, Places
<1> QED BY <1>1, <1>2, <1>3, <1>4

\* What the invariant says of the disks one by one.
LEMMA DiskFacts ==
  ASSUME BlkTyped, ThreadsApart
  PROVE  /\ \A d \in Sticks : d \in Disks /\ d # Card /\ (where[d] \notin {"out", "named"} => bdev[d] \in Blocks)
         /\ Card \in Disks /\ bdev[Card] = CardBlock
         /\ \A d \in Disks : d \in Sticks \/ d = Card
         /\ \A b \in Blocks : b # CardBlock /\ b # None /\ b \in Places
         /\ CardBlock # None /\ CardBlock \in Places
BY BlkAssumption DEF ThreadsApart, Disks, Places

\* Two threads that work have two BLKDEVs.
LEMMA WorkApart ==
  ASSUME BlkTyped, ThreadsApart, NEW d \in Disks, NEW e \in Disks, d # e, Working(d), Working(e)
  PROVE  bdev[d] # bdev[e]
BY DiskFacts DEF ThreadsApart, Working

LEMMA BlkConnect ==
  ASSUME BlkInv, NEW d \in Sticks, Connect(d), stopped' = "none"
  PROVE  BlkInv'
<1>1. /\ stopped = "none" /\ where[d] = "out" /\ where' = [where EXCEPT ![d] = "named"] /\ there' = there \cup {d}
      /\ UNCHANGED <<devlist, sector_buf, mixed, user, bdev, slot, table, parts, fs>>
  BY DEF Connect, Moves, bufferVars, placeVars
<1>2. BlkTyped /\ ThreadsApart /\ NotYetListed /\ DevicesListed /\ BufferScanned
  BY <1>1 DEF BlkInv
<1>3. \A e \in Disks : where'[e] = IF e = d THEN "named" ELSE where[e]
  BY <1>1, <1>2 DEF BlkTyped
<1>4. BlkTyped'
  BY <1>1, <1>2 DEF BlkTyped
<1>5. ThreadsApart'
  BY <1>1, <1>2, <1>3, DiskFacts DEF ThreadsApart, Working
<1>6. NotYetListed' /\ BufferScanned'
  BY <1>1, <1>2, <1>3 DEF NotYetListed, BufferScanned, SlotsOf
<1>7. DevicesListed'
  BY <1>1, <1>2, <1>3 DEF DevicesListed, SlotsOf, Readable
<1> QED BY <1>4, <1>5, <1>6, <1>7 DEF BlkInv

LEMMA BlkAlloc ==
  ASSUME BlkInv, NEW d \in Sticks, Alloc(d), stopped' = "none"
  PROVE  BlkInv'
<1>1. PICK b \in Blocks :
        /\ \A e \in there : user[e] # b
        /\ stopped = "none" /\ where[d] = "named" /\ where' = [where EXCEPT ![d] = "find"]
        /\ bdev' = [bdev EXCEPT ![d] = b] /\ user' = [user EXCEPT ![d] = b] /\ parts' = [parts EXCEPT ![b] = Zeros]
        /\ \A e \in Sticks \ {d} : ~(Working(e) /\ bdev[e] = b)
        /\ UNCHANGED <<devlist, sector_buf, mixed, there, slot, table, fs>>
  <2>1. "used" # "none"
    OBVIOUS
  <2> QED BY <2>1 DEF Alloc, Moves, Stops, bufferVars, Working
<1>2. BlkTyped /\ ThreadsApart /\ NotYetListed /\ DevicesListed /\ BufferScanned
  BY <1>1 DEF BlkInv
<1>3. /\ \A e \in Disks : where'[e] = IF e = d THEN "find" ELSE where[e]
      /\ \A e \in Disks : bdev'[e] = IF e = d THEN b ELSE bdev[e]
      /\ \A e \in Sticks : user'[e] = IF e = d THEN b ELSE user[e]
      /\ \A c \in Places : parts'[c] = IF c = b THEN Zeros ELSE parts[c]
  BY <1>1, <1>2, DiskFacts DEF BlkTyped
<1>4. BlkTyped'
  <2>1. /\ where' \in [Disks -> {"out", "named", "find", "store", "read", "got", "mount", "keep", "done"}]
        /\ bdev' \in [Disks -> Places \cup {None}] /\ user' \in [Sticks -> Blocks \cup {None}]
    BY <1>1, <1>2, DiskFacts DEF BlkTyped
  <2>2. parts' = [c \in Places |-> parts'[c]]
    BY <1>1, <1>2 DEF BlkTyped
  <2> QED BY <1>1, <1>2, <2>1, <2>2 DEF BlkTyped
<1>5. d \in there /\ user[d] = None /\ \A e \in Sticks : user[e] # b
  BY <1>1, <1>2, DiskFacts DEF ThreadsApart
<1>6. ThreadsApart'
  <2>1. \A e \in Sticks :
          /\ where'[e] \notin {"out", "named"} => bdev'[e] \in Blocks
          /\ user'[e] = IF e \in there' /\ where'[e] \notin {"out", "named"} THEN bdev'[e] ELSE None
          /\ where'[e] \in {"named", "find", "store", "keep"} => e \in there'
          /\ e \in there' => where'[e] # "out"
    BY <1>1, <1>2, <1>3, <1>5, DiskFacts DEF ThreadsApart
  <2>2. \A e, f \in Sticks : user'[e] = user'[f] /\ user'[e] # None => e = f
    BY <1>2, <1>3, <1>5 DEF ThreadsApart
  <2>3. \A e, f \in Sticks : Working(e)' /\ Working(f)' /\ bdev'[e] = bdev'[f] => e = f
    <3>1. \A e \in Sticks : e # d => Working(e)' = Working(e) /\ bdev'[e] = bdev[e]
      BY <1>2, <1>3, DiskFacts DEF Working
    <3>2. bdev'[d] = b
      BY <1>2, <1>3, DiskFacts
    <3>3. \A e \in Sticks : e # d /\ Working(e) => bdev[e] # b
      BY <1>1
    <3>4. \A e, f \in Sticks : Working(e) /\ Working(f) /\ bdev[e] = bdev[f] => e = f
      BY <1>2 DEF ThreadsApart
    <3> HIDE DEF Working
    <3> QED BY <3>1, <3>2, <3>3, <3>4
  <2>4. bdev'[Card] = CardBlock /\ \A e \in Disks : where'[e] = "store" => slot'[e] \in 1..Slots
    BY <1>1, <1>2, <1>3, DiskFacts DEF ThreadsApart
  <2> QED BY <2>1, <2>2, <2>3, <2>4 DEF ThreadsApart
<1>7. SlotsOf(b) = {}
  <2>1. \A i \in 1..Slots : devlist[i] # b
    BY <1>1, <1>2, <1>5 DEF DevicesListed, BlkTyped
  <2> QED BY <2>1 DEF SlotsOf
<1>8. NotYetListed'
  BY <1>1, <1>2, <1>3, <1>7 DEF NotYetListed, SlotsOf
<1>9. DevicesListed'
  <2>1. \A i \in 1..Slots : devlist'[i] \in Blocks => \E e \in there' : user'[e] = devlist'[i]
    <3>1. SUFFICES ASSUME NEW i \in 1..Slots, devlist[i] \in Blocks PROVE \E e \in there : user'[e] = devlist[i]
      BY <1>1
    <3>2. PICK e \in there : user[e] = devlist[i]
      BY <1>1, <1>2, <3>1 DEF DevicesListed
    <3>3. e \in Sticks /\ e # d
      BY <1>2, <1>5, <3>1, <3>2, DiskFacts DEF BlkTyped
    <3> QED BY <1>3, <3>2, <3>3
  <2>2. \A i, j \in 1..Slots : devlist'[i] = devlist'[j] /\ devlist'[i] # None => i = j
    BY <1>1, <1>2 DEF DevicesListed
  <2>3. \A e \in Disks : where'[e] \in {"read", "got", "mount", "keep"} /\ Readable(e)' => SlotsOf(bdev[e])' # {}
    BY <1>1, <1>2, <1>3 DEF DevicesListed, SlotsOf, Readable
  <2>4. \A c \in fs' : SlotsOf(c)' # {}
    BY <1>1, <1>2 DEF DevicesListed, SlotsOf
  <2> QED BY <2>1, <2>2, <2>3, <2>4 DEF DevicesListed
<1>10. BufferScanned'
  <2>1. ASSUME NEW e \in Disks, where'[e] = "mount", e \notin mixed'
        PROVE  parts'[bdev'[e]] = ScanTable(table'[e])
    <3>1. e # d /\ where[e] = "mount" /\ e \notin mixed /\ bdev'[e] = bdev[e]
      BY <1>1, <1>3, <2>1
    <3>2. bdev[e] \in Places /\ bdev[e] # b
      BY <1>1, <1>2, <3>1, DiskFacts DEF Working
    <3> QED BY <1>1, <1>2, <1>3, <3>1, <3>2 DEF BufferScanned
  <2>2. \A e \in Disks : where'[e] = "got" /\ e \notin mixed' => sector_buf' = e
    BY <1>1, <1>2, <1>3 DEF BufferScanned
  <2> QED BY <2>1, <2>2 DEF BufferScanned
<1> QED BY <1>4, <1>6, <1>8, <1>9, <1>10 DEF BlkInv

LEMMA BlkSdInit ==
  ASSUME BlkInv, SdInit, stopped' = "none"
  PROVE  BlkInv'
<1>1. /\ stopped = "none" /\ where[Card] \in {"out", "done"} /\ where' = [where EXCEPT ![Card] = "find"]
      /\ parts' = [parts EXCEPT ![CardBlock] = Zeros] /\ fs' = fs \ {CardBlock}
      /\ SlotsOf(CardBlock) = {}
      /\ UNCHANGED <<devlist, sector_buf, mixed, there, user, bdev, slot, table>>
  <2>1. "again" # "none"
    OBVIOUS
  <2> QED BY <2>1 DEF SdInit, Moves, Stops, bufferVars
<1>2. BlkTyped /\ ThreadsApart /\ NotYetListed /\ DevicesListed /\ BufferScanned
  BY <1>1 DEF BlkInv
<1>3. /\ \A e \in Disks : where'[e] = IF e = Card THEN "find" ELSE where[e]
      /\ \A c \in Places : parts'[c] = IF c = CardBlock THEN Zeros ELSE parts[c]
  BY <1>1, <1>2, DiskFacts DEF BlkTyped
<1>4. BlkTyped'
  <2>1. where' \in [Disks -> {"out", "named", "find", "store", "read", "got", "mount", "keep", "done"}]
    BY <1>1, <1>2 DEF BlkTyped
  <2>2. parts' = [c \in Places |-> parts'[c]]
    BY <1>1, <1>2 DEF BlkTyped
  <2> QED BY <1>1, <1>2, <2>1, <2>2 DEF BlkTyped
<1>5. ThreadsApart'
  BY <1>1, <1>2, <1>3, DiskFacts DEF ThreadsApart, Working
<1>6. NotYetListed'
  BY <1>1, <1>2, <1>3, DiskFacts DEF NotYetListed, SlotsOf
<1>7. DevicesListed'
  BY <1>1, <1>2, <1>3 DEF DevicesListed, SlotsOf, Readable
<1>8. BufferScanned'
  <2>1. ASSUME NEW e \in Disks, where'[e] = "mount", e \notin mixed'
        PROVE  parts'[bdev'[e]] = ScanTable(table'[e])
    <3>1. e # Card /\ where[e] = "mount" /\ e \notin mixed /\ bdev'[e] = bdev[e]
      BY <1>1, <1>3, <2>1
    <3>2. bdev[e] \in Places /\ bdev[e] # CardBlock
      BY <1>2, <3>1, DiskFacts
    <3> QED BY <1>1, <1>2, <1>3, <3>1, <3>2 DEF BufferScanned
  <2>2. \A e \in Disks : where'[e] = "got" /\ e \notin mixed' => sector_buf' = e
    BY <1>1, <1>2, <1>3 DEF BufferScanned
  <2> QED BY <2>1, <2>2 DEF BufferScanned
<1> QED BY <1>4, <1>5, <1>6, <1>7, <1>8 DEF BlkInv

\* A free slot that is found is one.
LEMMA FoundFree ==
  ASSUME Slots \in Nat, SlotsOf(None) # {}
  PROVE  FirstFree \in SlotsOf(None) /\ FirstFree \in 1..Slots
<1>1. SlotsOf(None) \subseteq Nat
  BY DEF SlotsOf
<1>2. \E i \in SlotsOf(None) : \A j \in SlotsOf(None) : i <= j
  BY <1>1, LeastIsLeast
<1>3. FirstFree \in SlotsOf(None)
  BY <1>2 DEF FirstFree
<1> QED BY <1>3 DEF SlotsOf

LEMMA BlkFind ==
  ASSUME BlkInv, NEW d \in Disks, Find(d), stopped' = "none"
  PROVE  BlkInv'
<1>1. /\ stopped = "none" /\ where[d] = "find"
      /\ \/ where' = [where EXCEPT ![d] = "done"] /\ slot' = slot
         \/ SlotsOf(None) # {} /\ where' = [where EXCEPT ![d] = "store"] /\ slot' = [slot EXCEPT ![d] = FirstFree]
      /\ UNCHANGED <<devlist, sector_buf, mixed, there, user, bdev, table, parts, fs>>
  BY DEF Find, Moves, bufferVars, placeVars
<1>2. BlkTyped /\ ThreadsApart /\ NotYetListed /\ DevicesListed /\ BufferScanned
  BY <1>1 DEF BlkInv
<1> DEFINE next == where'[d]
<1>3. /\ next \in {"done", "store"} /\ \A e \in Disks : where'[e] = IF e = d THEN next ELSE where[e]
      /\ slot' \in [Disks -> 0..Slots]
      /\ next = "store" => slot'[d] \in 1..Slots
      /\ \A e \in Disks : e # d => slot'[e] = slot[e]
  <2>1. CASE where' = [where EXCEPT ![d] = "done"] /\ slot' = slot
    BY <1>2, <2>1 DEF BlkTyped
  <2>2. CASE SlotsOf(None) # {} /\ where' = [where EXCEPT ![d] = "store"] /\ slot' = [slot EXCEPT ![d] = FirstFree]
    <3>1. FirstFree \in 1..Slots /\ FirstFree \in 0..Slots
      BY <2>2, FoundFree, BlkAssumption
    <3> HIDE DEF FirstFree
    <3> QED BY <1>2, <2>2, <3>1 DEF BlkTyped
  <2> QED BY <1>1, <2>1, <2>2
<1>4. where' \in [Disks -> {"out", "named", "find", "store", "read", "got", "mount", "keep", "done"}]
  BY <1>1, <1>2 DEF BlkTyped
<1> HIDE DEF next
<1>5. BlkTyped'
  BY <1>1, <1>2, <1>3, <1>4 DEF BlkTyped
<1>6. ThreadsApart'
  <2>1. \A e \in Sticks :
          /\ where'[e] \notin {"out", "named"} => bdev'[e] \in Blocks
          /\ user'[e] = IF e \in there' /\ where'[e] \notin {"out", "named"} THEN bdev'[e] ELSE None
          /\ where'[e] \in {"named", "find", "store", "keep"} => e \in there'
          /\ e \in there' => where'[e] # "out"
    BY <1>1, <1>2, <1>3, DiskFacts DEF ThreadsApart
  <2>2. \A e, f \in Sticks : Working(e)' /\ Working(f)' /\ bdev'[e] = bdev'[f] => e = f
    BY <1>1, <1>2, <1>3, DiskFacts DEF ThreadsApart, Working
  <2>3. \A e \in Disks : where'[e] = "store" => slot'[e] \in 1..Slots
    BY <1>2, <1>3 DEF ThreadsApart
  <2> QED BY <1>1, <1>2, <2>1, <2>2, <2>3 DEF ThreadsApart
<1>7. NotYetListed' /\ BufferScanned'
  BY <1>1, <1>2, <1>3 DEF NotYetListed, BufferScanned, SlotsOf
<1>8. DevicesListed'
  BY <1>1, <1>2, <1>3 DEF DevicesListed, SlotsOf, Readable
<1> QED BY <1>5, <1>6, <1>7, <1>8 DEF BlkInv

LEMMA BlkStore ==
  ASSUME BlkInv, NEW d \in Disks, Store(d), stopped' = "none"
  PROVE  BlkInv'
<1>1. /\ stopped = "none" /\ where[d] = "store" /\ where' = [where EXCEPT ![d] = "read"]
      /\ devlist' = [devlist EXCEPT ![slot[d]] = bdev[d]] /\ devlist[slot[d]] = None
      /\ parts' = [parts EXCEPT ![bdev[d]] = WholeDisk]
      /\ UNCHANGED <<sector_buf, mixed, there, user, bdev, slot, table, fs>>
  <2>1. "overwritten" # "none"
    OBVIOUS
  <2> QED BY <2>1 DEF Store, Moves, Stops, bufferVars
<1>2. BlkTyped /\ ThreadsApart /\ NotYetListed /\ DevicesListed /\ BufferScanned
  BY <1>1 DEF BlkInv
<1> DEFINE b == bdev[d]
           k == slot[d]
<1>3. k \in 1..Slots /\ b \in Places /\ b # None /\ SlotsOf(b) = {} /\ (d \in Sticks => d \in there /\ user[d] = b)
  BY <1>1, <1>2, DiskFacts DEF ThreadsApart, NotYetListed
<1>4. /\ \A e \in Disks : where'[e] = IF e = d THEN "read" ELSE where[e]
      /\ \A c \in Places : parts'[c] = IF c = b THEN WholeDisk ELSE parts[c]
      /\ \A i \in 1..Slots : devlist'[i] = IF i = k THEN b ELSE devlist[i]
  BY <1>1, <1>2, <1>3 DEF BlkTyped
<1>5. BlkTyped'
  <2>1. /\ where' \in [Disks -> {"out", "named", "find", "store", "read", "got", "mount", "keep", "done"}]
        /\ devlist' \in [1..Slots -> Places \cup {None}]
    BY <1>1, <1>2, <1>3 DEF BlkTyped
  <2>2. parts' = [c \in Places |-> parts'[c]]
    BY <1>1, <1>2 DEF BlkTyped
  <2> QED BY <1>1, <1>2, <2>1, <2>2 DEF BlkTyped
<1>6. ThreadsApart'
  BY <1>1, <1>2, <1>4, DiskFacts DEF ThreadsApart, Working
<1>7. \A e \in Disks : e # d /\ Working(e) => bdev[e] # b
  BY <1>1, <1>2, WorkApart DEF Working
<1> HIDE DEF b, k
<1>8. \A i \in 1..Slots : devlist[i] # b
  BY <1>3 DEF SlotsOf
<1>9. \A c : SlotsOf(c)' = IF c = b THEN {k} ELSE SlotsOf(c) \ {k}
  <2>1. \A c : SlotsOf(c)' = {i \in 1..Slots : devlist'[i] = c} /\ SlotsOf(c) = {i \in 1..Slots : devlist[i] = c}
    BY DEF SlotsOf
  <2> QED BY <2>1, <1>3, <1>4, <1>8
<1>10. k \in SlotsOf(None) /\ \A c : c # None => k \notin SlotsOf(c)
  BY <1>1, <1>3 DEF SlotsOf, k
<1>11. \A c : c # None /\ SlotsOf(c) # {} => SlotsOf(c)' # {}
  BY <1>9, <1>10
<1>12. NotYetListed'
  <2>1. SUFFICES ASSUME NEW e \in Disks, where'[e] \in {"find", "store"} PROVE SlotsOf(bdev[e])' = {}
    BY DEF NotYetListed
  <2>2. e # d /\ where[e] \in {"find", "store"} /\ bdev'[e] = bdev[e] /\ bdev[e] # b
    BY <1>1, <1>4, <1>7, <2>1 DEF Working
  <2>3. SlotsOf(bdev[e]) = {}
    BY <1>2, <2>2 DEF NotYetListed
  <2> QED BY <1>9, <2>2, <2>3
<1>13. DevicesListed'
  <2>1. \A i \in 1..Slots : devlist'[i] \in Blocks => \E e \in there' : user'[e] = devlist'[i]
    <3>1. b \in Blocks => d \in Sticks
      BY <1>2, DiskFacts DEF b
    <3> QED BY <1>1, <1>2, <1>3, <1>4, <3>1 DEF DevicesListed
  <2>2. \A i, j \in 1..Slots : devlist'[i] = devlist'[j] /\ devlist'[i] # None => i = j
    BY <1>1, <1>2, <1>4, <1>8 DEF DevicesListed
  <2>3. ASSUME NEW e \in Disks, where'[e] \in {"read", "got", "mount", "keep"}, Readable(e)'
        PROVE  SlotsOf(bdev[e])' # {}
    <3>1. CASE e = d
      BY <1>1, <1>9, <3>1 DEF b
    <3>2. CASE e # d
      <4>1. SlotsOf(bdev[e]) # {} /\ bdev[e] # None
        BY <1>1, <1>2, <1>4, <2>3, <3>2, DiskFacts DEF DevicesListed, Readable
      <4> QED BY <1>1, <1>11, <4>1
    <3> QED BY <3>1, <3>2
  <2>4. \A c \in fs' : SlotsOf(c)' # {}
    <3>1. None \notin fs
      BY <1>2, BlkAssumption DEF BlkTyped
    <3> QED BY <1>1, <1>2, <1>11, <3>1 DEF DevicesListed
  <2> QED BY <2>1, <2>2, <2>3, <2>4 DEF DevicesListed
<1>14. BufferScanned'
  <2>1. ASSUME NEW e \in Disks, where'[e] = "mount", e \notin mixed'
        PROVE  parts'[bdev'[e]] = ScanTable(table'[e])
    <3>1. e # d /\ where[e] = "mount" /\ e \notin mixed /\ bdev'[e] = bdev[e]
      BY <1>1, <1>4, <2>1
    <3>2. bdev[e] \in Places /\ bdev[e] # b
      BY <1>2, <1>7, <3>1, DiskFacts DEF Working
    <3> QED BY <1>1, <1>2, <1>4, <3>1, <3>2 DEF BufferScanned
  <2>2. \A e \in Disks : where'[e] = "got" /\ e \notin mixed' => sector_buf' = e
    BY <1>1, <1>2, <1>4 DEF BufferScanned
  <2> QED BY <2>1, <2>2 DEF BufferScanned
<1> QED BY <1>5, <1>6, <1>12, <1>13, <1>14 DEF BlkInv

\* A step of a thread that has entered its device, which changes neither the table of
\* devices nor who has what: it goes on, and it may lose its place only with its stick.
LEMMA BlkGoesOn ==
  ASSUME BlkTyped, ThreadsApart, NotYetListed, DevicesListed,
         NEW d \in Disks, where[d] \in {"read", "got", "mount", "keep"},
         NEW next \in {"got", "mount", "keep", "done"}, where' = [where EXCEPT ![d] = next],
         next = "keep" => Readable(d), stopped = "none",
         mixed' \subseteq Disks, fs' \subseteq fs \cup {bdev[d]}, bdev[d] \in fs' => bdev[d] \in fs \/ where[d] = "keep",
         parts' = [b \in Places |-> parts'[b]],
         UNCHANGED <<devlist, there, user, bdev, slot>>
  PROVE  BlkTyped' /\ ThreadsApart' /\ NotYetListed' /\ DevicesListed'
<1>1. \A e \in Disks : where'[e] = IF e = d THEN next ELSE where[e]
  BY DEF BlkTyped
<1>2. bdev[d] \in Places /\ (d \in Sticks => bdev[d] \in Blocks)
  BY DiskFacts
<1>3. BlkTyped'
  <2>1. where' \in [Disks -> {"out", "named", "find", "store", "read", "got", "mount", "keep", "done"}]
    BY DEF BlkTyped
  <2> QED BY <1>2, <2>1 DEF BlkTyped
<1>4. ThreadsApart'
  <2>1. \A e \in Sticks :
          /\ where'[e] \notin {"out", "named"} => bdev'[e] \in Blocks
          /\ user'[e] = IF e \in there' /\ where'[e] \notin {"out", "named"} THEN bdev'[e] ELSE None
          /\ e \in there' => where'[e] # "out"
    BY <1>1, DiskFacts DEF ThreadsApart
  <2>2. \A e \in Sticks : where'[e] \in {"named", "find", "store", "keep"} => e \in there'
    BY <1>1, DiskFacts DEF ThreadsApart, Readable
  <2>3. \A e, f \in Sticks : Working(e)' /\ Working(f)' /\ bdev'[e] = bdev'[f] => e = f
    BY <1>1, DiskFacts DEF ThreadsApart, Working
  <2> QED BY <1>1, <2>1, <2>2, <2>3 DEF ThreadsApart
<1>5. NotYetListed'
  BY <1>1 DEF NotYetListed, SlotsOf
<1>6. DevicesListed'
  <2>1. \A c : SlotsOf(c)' = SlotsOf(c)
    BY DEF SlotsOf
  <2>2. \A e \in Disks : where'[e] \in {"read", "got", "mount", "keep"} /\ Readable(e)' => SlotsOf(bdev[e])' # {}
    BY <1>1, <2>1 DEF DevicesListed, Readable
  <2>3. where[d] = "keep" => SlotsOf(bdev[d]) # {}
    BY DiskFacts DEF DevicesListed, ThreadsApart, Readable
  <2>4. \A c \in fs' : SlotsOf(c)' # {}
    BY <2>1, <2>3 DEF DevicesListed
  <2> QED BY <2>2, <2>4 DEF DevicesListed
<1> QED BY <1>3, <1>4, <1>5, <1>6

LEMMA BlkReadTable ==
  ASSUME BlkInv, NEW d \in Disks, ReadTable(d), stopped' = "none"
  PROVE  BlkInv'
<1>1. PICK next \in {"got", "done"} :
        /\ stopped = "none" /\ where[d] = "read" /\ where' = [where EXCEPT ![d] = next]
        /\ (Fills(d) \/ (next = "done" /\ UNCHANGED <<sector_buf, mixed>>))
        /\ UNCHANGED <<devlist, there, user, bdev, slot, table, parts, fs>>
  BY DEF ReadTable, Moves, bufferVars, placeVars
<1>2. BlkTyped /\ ThreadsApart /\ NotYetListed /\ DevicesListed /\ BufferScanned
  BY <1>1 DEF BlkInv
<1>3. \A e \in Disks : where'[e] = IF e = d THEN next ELSE where[e]
  BY <1>1, <1>2 DEF BlkTyped
<1>4. mixed' \subseteq Disks /\ parts' = [b \in Places |-> parts'[b]]
  BY <1>1, <1>2 DEF BlkTyped, Fills
<1>5. BlkTyped' /\ ThreadsApart' /\ NotYetListed' /\ DevicesListed'
  BY <1>1, <1>2, <1>4, BlkGoesOn
<1>6. BufferScanned'
  <2>1. CASE Fills(d)
    <3>1. sector_buf' = d /\ \A e \in Disks : e # d /\ e \notin mixed' => e \notin mixed /\ where[e] # "got"
      BY <2>1 DEF Fills
    <3> QED BY <1>1, <1>2, <1>3, <3>1 DEF BufferScanned
  <2>2. CASE next = "done" /\ UNCHANGED <<sector_buf, mixed>>
    BY <1>1, <1>2, <1>3, <2>2 DEF BufferScanned
  <2> QED BY <1>1, <2>1, <2>2
<1> QED BY <1>5, <1>6 DEF BlkInv

LEMMA BlkScanSector ==
  ASSUME BlkInv, NEW d \in Disks, ScanSector(d), stopped' = "none"
  PROVE  BlkInv'
<1>1. PICK next \in {"mount", "done"} :
        /\ stopped = "none" /\ where[d] = "got" /\ where' = [where EXCEPT ![d] = next]
        /\ \/ next = "mount" /\ parts' = [parts EXCEPT ![bdev[d]] = ScanTable(table[sector_buf])]
           \/ next = "done" /\ parts' = parts
        /\ UNCHANGED <<devlist, sector_buf, mixed, there, user, bdev, slot, table, fs>>
  BY DEF ScanSector, Moves, bufferVars
<1>2. BlkTyped /\ ThreadsApart /\ NotYetListed /\ DevicesListed /\ BufferScanned
  BY <1>1 DEF BlkInv
<1>3. \A e \in Disks : where'[e] = IF e = d THEN next ELSE where[e]
  BY <1>1, <1>2 DEF BlkTyped
<1>4. parts' = [b \in Places |-> parts'[b]]
  BY <1>1, <1>2 DEF BlkTyped
<1>5. mixed' \subseteq Disks
  BY <1>1, <1>2 DEF BlkTyped
<1>6. BlkTyped' /\ ThreadsApart' /\ NotYetListed' /\ DevicesListed'
  BY <1>1, <1>2, <1>4, <1>5, BlkGoesOn
<1>7. BufferScanned'
  <2>1. \A e \in Disks : where'[e] = "got" /\ e \notin mixed' => sector_buf' = e
    BY <1>1, <1>2, <1>3 DEF BufferScanned
  <2>2. ASSUME NEW e \in Disks, where'[e] = "mount", e \notin mixed'
        PROVE  parts'[bdev'[e]] = ScanTable(table'[e])
    <3>1. bdev[d] \in Places
      BY <1>1, <1>2, DiskFacts
    <3>2. \A c \in Places : parts'[c] = IF next = "mount" /\ c = bdev[d] THEN ScanTable(table[sector_buf]) ELSE parts[c]
      <4> HIDE DEF ScanTable
      <4> QED BY <1>1, <1>2, <3>1 DEF BlkTyped
    <3>3. CASE e = d
      <4>1. sector_buf = d /\ next = "mount"
        BY <1>1, <1>2, <1>3, <2>2, <3>3 DEF BufferScanned
      <4> QED BY <1>1, <3>1, <3>2, <3>3, <4>1
    <3>4. CASE e # d
      <4>1. where[e] = "mount" /\ e \notin mixed /\ bdev'[e] = bdev[e]
        BY <1>1, <1>3, <2>2, <3>4
      <4>2. bdev[e] \in Places /\ bdev[e] # bdev[d]
        BY <1>1, <1>2, <3>4, <4>1, DiskFacts, WorkApart DEF Working
      <4> QED BY <1>1, <1>2, <3>2, <4>1, <4>2 DEF BufferScanned
    <3> QED BY <3>3, <3>4
  <2> QED BY <2>1, <2>2 DEF BufferScanned
<1> QED BY <1>6, <1>7 DEF BlkInv

LEMMA BlkMountKeep ==
  ASSUME BlkInv, NEW d \in Disks, Mount(d) \/ Keep(d), stopped' = "none"
  PROVE  BlkInv'
<1>1. PICK next \in {"keep", "done"} :
        /\ stopped = "none" /\ where[d] \in {"mount", "keep"} /\ where' = [where EXCEPT ![d] = next]
        /\ next = "keep" => Readable(d)
        /\ fs' = fs \/ (where[d] = "keep" /\ fs' = fs \cup {bdev[d]})
        /\ UNCHANGED <<devlist, sector_buf, mixed, there, user, bdev, slot, table, parts>>
  <2>1. CASE Mount(d)
    BY <2>1 DEF Mount, Moves, bufferVars, placeVars
  <2>2. CASE Keep(d)
    BY <2>2 DEF Keep, Moves, bufferVars
  <2> QED BY <2>1, <2>2
<1>2. BlkTyped /\ ThreadsApart /\ NotYetListed /\ DevicesListed /\ BufferScanned
  BY <1>1 DEF BlkInv
<1>3. \A e \in Disks : where'[e] = IF e = d THEN next ELSE where[e]
  BY <1>1, <1>2 DEF BlkTyped
<1>4. mixed' \subseteq Disks /\ parts' = [b \in Places |-> parts'[b]]
  BY <1>1, <1>2 DEF BlkTyped
<1>5. BlkTyped' /\ ThreadsApart' /\ NotYetListed' /\ DevicesListed'
  BY <1>1, <1>2, <1>4, BlkGoesOn
<1>6. BufferScanned'
  BY <1>1, <1>2, <1>3 DEF BufferScanned
<1> QED BY <1>5, <1>6 DEF BlkInv

LEMMA BlkStop ==
  ASSUME BlkInv, NEW d \in Sticks, Stop(d), stopped' = "none"
  PROVE  BlkInv'
<1> DEFINE b == user[d]
<1>1. /\ stopped = "none" /\ d \in there /\ there' = there \ {d} /\ where[d] \notin {"named", "find", "store", "keep"}
      /\ \/ b = None /\ UNCHANGED <<devlist, fs>>
         \/ b # None /\ devlist' = Removed(b) /\ fs' = fs \ {b}
      /\ user' = [user EXCEPT ![d] = None]
      /\ UNCHANGED <<sector_buf, mixed, where, bdev, slot, table, parts>>
  <2>1. "late" # "none"
    OBVIOUS
  <2> QED BY <2>1 DEF Stop, Stops, bufferVars, threadVars
<1>2. BlkTyped /\ ThreadsApart /\ NotYetListed /\ DevicesListed /\ BufferScanned
  BY <1>1 DEF BlkInv
<1>3. b \in Blocks /\ b = bdev[d] /\ where[d] \notin {"out", "named"}
  BY <1>1, <1>2 DEF ThreadsApart
<1>4. devlist' = Removed(b) /\ fs' = fs \ {b}
  BY <1>1, <1>2, <1>3, DiskFacts
<1>5. \A e \in Sticks : user'[e] = IF e = d THEN None ELSE user[e]
  BY <1>1, <1>2 DEF BlkTyped
<1>6. \A e \in Sticks : e # d => user[e] # b
  BY <1>2, <1>3, DiskFacts DEF ThreadsApart
<1> HIDE DEF b
<1>7. \A i \in 1..Slots : devlist'[i] = IF devlist[i] = b THEN None ELSE devlist[i]
  <2>1. b # None
    BY <1>2, <1>3, DiskFacts
  <2>2. \A i, j \in SlotsOf(b) : i = j
    BY <1>1, <1>2, <2>1 DEF DevicesListed, SlotsOf
  <2>3. \A i \in 1..Slots : i \in SlotsOf(b) <=> devlist[i] = b
    BY DEF SlotsOf
  <2>4. \A i \in SlotsOf(b) : \A j \in SlotsOf(b) : i <= j
    <3>1. SlotsOf(b) \subseteq Int
      BY DEF SlotsOf
    <3> QED BY <2>2, <3>1
  <2> HIDE DEF SlotsOf
  <2> QED BY <1>4, <2>3, <2>4 DEF Removed
<1>8. BlkTyped'
  <2>1. devlist' \in [1..Slots -> Places \cup {None}]
    <3>1. \A i \in 1..Slots : devlist'[i] \in Places \cup {None}
      BY <1>2, <1>7 DEF BlkTyped
    <3> QED BY <1>4, <3>1 DEF Removed
  <2>2. user' \in [Sticks -> Blocks \cup {None}]
    BY <1>1, <1>2 DEF BlkTyped
  <2> QED BY <1>1, <1>2, <1>4, <2>1, <2>2 DEF BlkTyped
<1>9. ThreadsApart'
  <2>1. \A e \in Sticks :
          /\ user'[e] = IF e \in there' /\ where'[e] \notin {"out", "named"} THEN bdev'[e] ELSE None
          /\ where'[e] \in {"named", "find", "store", "keep"} => e \in there'
          /\ e \in there' => where'[e] # "out"
    BY <1>1, <1>2, <1>5 DEF ThreadsApart
  <2>2. \A e, f \in Sticks : user'[e] = user'[f] /\ user'[e] # None => e = f
    BY <1>2, <1>5 DEF ThreadsApart
  <2>3. \A e, f \in Sticks : Working(e)' /\ Working(f)' /\ bdev'[e] = bdev'[f] => e = f
    BY <1>1, <1>2 DEF ThreadsApart, Working
  <2> QED BY <1>1, <1>2, <2>1, <2>2, <2>3 DEF ThreadsApart
<1>10. \A c : c # b /\ c # None => SlotsOf(c)' = SlotsOf(c)
  <2>1. \A c : SlotsOf(c)' = {i \in 1..Slots : devlist'[i] = c} /\ SlotsOf(c) = {i \in 1..Slots : devlist[i] = c}
    BY DEF SlotsOf
  <2> QED BY <2>1, <1>7
<1>11. NotYetListed'
  <2>1. SUFFICES ASSUME NEW e \in Disks, where[e] \in {"find", "store"} PROVE SlotsOf(bdev[e])' = {}
    BY <1>1 DEF NotYetListed
  <2>2. bdev[e] # None /\ bdev[e] # b /\ SlotsOf(bdev[e]) = {}
    <3>1. SlotsOf(bdev[e]) = {}
      BY <1>2, <2>1 DEF NotYetListed
    <3>2. CASE e = Card
      BY <1>2, <1>3, <3>1, <3>2, DiskFacts
    <3>3. CASE e \in Sticks
      <4>1. e \in there /\ user[e] = bdev[e] /\ e # d /\ bdev[e] \in Blocks
        BY <1>1, <1>2, <2>1, <3>3 DEF ThreadsApart
      <4>2. bdev[e] # b
        BY <1>6, <3>3, <4>1
      <4>3. bdev[e] # None
        BY <4>1, BlkAssumption DEF Places
      <4> QED BY <3>1, <4>2, <4>3
    <3>4. e = Card \/ e \in Sticks
      BY DEF Disks
    <3> QED BY <3>2, <3>3, <3>4
  <2>3. SlotsOf(bdev[e])' = SlotsOf(bdev[e])
    <3>1. bdev' = bdev
      BY <1>1
    <3> HIDE DEF SlotsOf
    <3> QED BY <1>10, <2>2, <3>1
  <2> QED BY <2>2, <2>3
<1>12. DevicesListed'
  <2>1. \A i \in 1..Slots : devlist'[i] \in Blocks => \E e \in there' : user'[e] = devlist'[i]
    <3>1. SUFFICES ASSUME NEW i \in 1..Slots, devlist'[i] \in Blocks PROVE \E e \in there' : user'[e] = devlist'[i]
      OBVIOUS
    <3>2. devlist'[i] = devlist[i] /\ devlist[i] # b
      BY <1>2, <1>7, <3>1, DiskFacts
    <3>3. PICK e \in there : user[e] = devlist[i]
      BY <1>1, <1>2, <3>1, <3>2 DEF DevicesListed
    <3>4. e # d /\ e \in Sticks
      BY <1>2, <3>2, <3>3 DEF b, BlkTyped
    <3> QED BY <1>1, <1>5, <3>2, <3>3, <3>4
  <2>2. \A i, j \in 1..Slots : devlist'[i] = devlist'[j] /\ devlist'[i] # None => i = j
    BY <1>1, <1>2, <1>7 DEF DevicesListed
  <2>3. ASSUME NEW e \in Disks, where'[e] \in {"read", "got", "mount", "keep"}, Readable(e)'
        PROVE  SlotsOf(bdev[e])' # {}
    <3>1. Readable(e) /\ e # d /\ where[e] \in {"read", "got", "mount", "keep"} /\ bdev'[e] = bdev[e]
      BY <1>1, <1>2, <2>3, DiskFacts DEF Readable
    <3>2. SlotsOf(bdev[e]) # {}
      BY <1>1, <1>2, <3>1 DEF DevicesListed
    <3>3. bdev[e] # None /\ bdev[e] # b
      BY <1>2, <1>3, <1>6, <3>1, DiskFacts DEF ThreadsApart, Readable
    <3> QED BY <1>10, <3>1, <3>2, <3>3
  <2>4. \A c \in fs' : SlotsOf(c)' # {}
    <3>1. None \notin fs
      BY <1>2, BlkAssumption DEF BlkTyped
    <3> QED BY <1>1, <1>2, <1>4, <1>10, <3>1 DEF DevicesListed
  <2> QED BY <2>1, <2>2, <2>3, <2>4 DEF DevicesListed
<1>13. BufferScanned'
  BY <1>1, <1>2 DEF BufferScanned
<1> QED BY <1>8, <1>9, <1>11, <1>12, <1>13 DEF BlkInv

LEMMA BlkInvStep == BlkInv /\ [BlkNext]_blkVars => BlkInv'
<1> SUFFICES ASSUME BlkInv, [BlkNext]_blkVars, stopped' = "none" PROVE BlkInv'
  BY DEF BlkInv
<1>1. CASE UNCHANGED blkVars
  BY <1>1 DEF blkVars, bufferVars, threadVars, placeVars, BlkInv, BlkTyped, ThreadsApart, Working, NotYetListed, DevicesListed,
    BufferScanned, SlotsOf, Readable
<1>2. ASSUME NEW d \in Sticks, Connect(d) \/ Alloc(d) \/ Stop(d)
      PROVE  BlkInv'
  BY <1>2, BlkConnect, BlkAlloc, BlkStop
<1>3. CASE SdInit
  BY <1>3, BlkSdInit
<1>4. ASSUME NEW d \in Disks, Find(d) \/ Store(d) \/ ReadTable(d) \/ ScanSector(d) \/ Mount(d) \/ Keep(d)
      PROVE  BlkInv'
  BY <1>4, BlkFind, BlkStore, BlkReadTable, BlkScanSector, BlkMountKeep
<1> QED BY <1>1, <1>2, <1>3, <1>4 DEF BlkNext

\* However disks come and go while f_initdev and f_mount run, until one of the faults
\* of BlkDev: the table of devices has no stick that is gone and none twice, and it has
\* every device that has been entered and every mounted one (f_initdev, f_mount,
\* f_removedev).
THEOREM DevicesAlwaysListed == BlkSpec => []DevicesListed
<1>1. BlkInv => DevicesListed
  BY DEF BlkInv, DevicesListed
<1> QED BY <1>1, BlkInvInit, BlkInvStep, PTL DEF BlkSpec

\* And the partitions of a disk with a legal table are its entries, in order, or the
\* whole disk, unless another disk's sector has come in between (f_initdev).
THEOREM PartitionsAlwaysScanned == BlkSpec => []PartitionsScanned
<1>1. BlkInv => PartitionsScanned
  <2>1. SUFFICES ASSUME BlkInv, NEW d \in Disks, stopped = "none", where[d] = "mount", d \notin mixed, Legal(table[d])
                 PROVE  ScansRight(parts[bdev[d]], table[d])
    BY DEF PartitionsScanned, ScansRight
  <2>2. parts[bdev[d]] = ScanTable(table[d])
    BY <2>1 DEF BlkInv, BufferScanned
  <2> QED BY <2>1, <2>2, LegalIsScanned
<1> QED BY <1>1, BlkInvInit, BlkInvStep, PTL DEF BlkSpec
-----------------------------------------------------------------------------
(* The buffers of FAT                                                      *)

DbufTyped == dbuf = [k \in 1..ClusterSize |-> dbuf[k]]

\* a step that leaves the buffers alone, and repairs no trust
LEMMA BuffersKept ==
  ASSUME DbufTyped, BuffersHonest, UNCHANGED <<vol, dbuf, fbuf, data_cluster, fat_sector>>,
         trust' = "clean" => trust = "clean"
  PROVE  DbufTyped' /\ BuffersHonest'
BY DEF DbufTyped, BuffersHonest, Fat32, Volume

\* a read of the FAT, clean if it succeeds
LEMMA BuffersNextCluster ==
  ASSUME DbufTyped, BuffersHonest, NEW c, NEW n, NextCluster(c, n), UNCHANGED <<vol, dbuf, data_cluster>>
  PROVE  DbufTyped' /\ BuffersHonest'
<1>1. DbufTyped'
  BY DEF DbufTyped
<1>2. trust' = "clean" => trust = "clean" /\ ReadFat(c, "ok")
  BY DEF NextCluster, Noticed, Unnoticed
<1>3. ReadFat(c, "ok") /\ fbuf = fat_sector => fbuf' = fat_sector'
  BY DEF ReadFat
<1>4. UNCHANGED Fat32
  BY DEF Fat32, Volume
<1> QED BY <1>1, <1>2, <1>3, <1>4 DEF BuffersHonest

\* a read of a cluster, clean if it succeeds
LEMMA BuffersReadCluster ==
  ASSUME DbufTyped, BuffersHonest, NEW c, NEW got \in {"ok", "negative"}, ReadCluster(c, got),
         UNCHANGED <<vol, fbuf, fat_sector>>, trust' = "clean" => trust = "clean" /\ got = "ok"
  PROVE  DbufTyped' /\ BuffersHonest'
<1>1. Cluster(c) = [k \in 1..ClusterSize |-> Cluster(c)[k]] /\ \A k \in 1..ClusterSize : Cluster(c)[k] = <<c, k>>
  BY DEF Cluster
<1>2. CASE data_cluster = c
  BY <1>2, BuffersKept DEF ReadCluster
<1>3. CASE data_cluster # c /\ got = "ok"
  <2>1. dbuf' = Cluster(c) /\ data_cluster' = c
    BY <1>3 DEF ReadCluster, ReadSectors
  <2>2. DbufTyped'
    BY <1>1, <2>1 DEF DbufTyped
  <2>3. \A k \in 1..ClusterSize : dbuf'[k] = <<c, k>>
    BY <1>1, <2>1
  <2> QED BY <2>1, <2>2, <2>3 DEF BuffersHonest
<1>4. CASE data_cluster # c /\ got # "ok"
  <2>1. PICK j \in 0..ClusterSize : dbuf' = [k \in 1..ClusterSize |-> IF k <= j THEN Cluster(c)[k] ELSE dbuf[k]]
    BY <1>4 DEF ReadCluster, ReadSectors
  <2>2. DbufTyped'
    BY <2>1 DEF DbufTyped
  <2>3. trust' # "clean"
    BY <1>4
  <2> QED BY <2>2, <2>3 DEF BuffersHonest
<1> QED BY <1>2, <1>3, <1>4

LEMMA BuffersReadRoot ==
  ASSUME DbufTyped, BuffersHonest, ReadRoot
  PROVE  DbufTyped' /\ BuffersHonest'
<1>1. /\ ~Fat32 /\ UNCHANGED <<vol, fbuf, data_cluster, fat_sector>>
      /\ dbuf' \in {dbuf, [dbuf EXCEPT ![1] = <<0, call.i>>]}
  BY DEF ReadRoot
<1>2. trust' = "clean" => trust = "clean"
  BY DEF ReadRoot, Noticed, Unnoticed
<1>3. CASE dbuf' = dbuf
  BY <1>1, <1>2, <1>3, BuffersKept
<1>4. CASE dbuf' = [dbuf EXCEPT ![1] = <<0, call.i>>]
  <2>1. DbufTyped'
    BY <1>4 DEF DbufTyped
  <2>2. \A k \in 1..ClusterSize : k # 1 => dbuf'[k] = dbuf[k]
    BY <1>4 DEF DbufTyped
  <2>3. 1 \in 1..ClusterSize => dbuf'[1] = <<0, call.i>>
    BY <1>4 DEF DbufTyped
  <2>4. ~Fat32'
    BY <1>1 DEF Fat32, Volume
  <2>5. \A k \in 1..ClusterSize : k = 1 => dbuf'[k][1] = 0
    BY <2>3
  <2> QED BY <1>1, <1>2, <2>1, <2>2, <2>4, <2>5 DEF BuffersHonest
<1> QED BY <1>1, <1>3, <1>4

LEMMA BuffersFat ==
  ASSUME DbufTyped, BuffersHonest, FatStep
  PROVE  DbufTyped' /\ BuffersHonest'
<1> USE DEF fatVars
<1>1. CASE ReadRoot
  BY <1>1, BuffersReadRoot
<1>3. CASE ReadDir
  <2>1. PICK got \in {"ok", "negative"} :
          ReadCluster(call.dir, got) /\ (IF got = "ok" THEN UNCHANGED trust ELSE Noticed)
    BY <1>3 DEF ReadDir
  <2>2. trust' = "clean" => trust = "clean" /\ got = "ok"
    BY <2>1 DEF Noticed
  <2> QED BY <1>3, <2>1, <2>2, BuffersReadCluster DEF ReadDir
<1>4. CASE ScanBuffer
  BY <1>4, BuffersKept DEF ScanBuffer
<1>5. CASE NextRootSector
  BY <1>5, BuffersKept DEF NextRootSector
<1>6. CASE NextDirCluster
  BY <1>6, BuffersNextCluster DEF NextDirCluster
<1>7. CASE Locate
  <2>1. CASE call.vcn = 0
    BY <1>7, <2>1, BuffersKept DEF Locate
  <2>2. CASE call.vcn # 0
    BY <1>7, <2>2, BuffersNextCluster DEF Locate
  <2> QED BY <2>1, <2>2
<1>8. CASE Copy
  <2>1. CASE call.remain = 0 \/ f_cluster = 0
    BY <1>8, <2>1, BuffersKept DEF Copy
  <2>2. CASE ~(call.remain = 0 \/ f_cluster = 0)
    <3>1. PICK got \in {"ok", "negative"} :
            ReadCluster(f_cluster, got) /\ (IF got = "ok" THEN UNCHANGED trust ELSE Unnoticed)
      BY <1>8, <2>2 DEF Copy
    <3>2. trust' = "clean" => trust = "clean" /\ got = "ok"
      BY <3>1 DEF Unnoticed
    <3> QED BY <1>8, <3>1, <3>2, BuffersReadCluster DEF Copy
  <2> QED BY <2>1, <2>2
<1>9. CASE Turn
  BY <1>9, BuffersNextCluster DEF Turn
<1>10. CASE Return /\ UNCHANGED fatVars
  BY <1>10, BuffersKept DEF Return
<1> QED BY <1>1, <1>3, <1>4, <1>5, <1>6, <1>7, <1>8, <1>9, <1>10 DEF FatStep

\* No step of NTFS repairs trust.
LEMMA NtfsTrust ==
  ASSUME NtfsStep
  PROVE  UNCHANGED vol /\ (trust' = "clean" => trust = "clean")
<1>1. \A got \in Gots : TrustAfter(got) => (trust' = "clean" => trust = "clean")
  <2>1. TrustAfter("ok") => (trust' = "clean" => trust = "clean")
    BY DEF TrustAfter
  <2>2. TrustAfter("negative") => (trust' = "clean" => trust = "clean")
    BY DEF TrustAfter, Noticed
  <2>3. TrustAfter("positive") => (trust' = "clean" => trust = "clean")
    BY DEF TrustAfter, Unnoticed
  <2> QED BY <2>1, <2>2, <2>3 DEF Gots
<1>2. \A lcn : ReadBlock(lcn) => (trust' = "clean" => trust = "clean")
  BY DEF ReadBlock, Unnoticed
<1>3. CASE FindRecord
  BY <1>1, <1>3 DEF FindRecord
<1>4. CASE FindInRoot
  BY <1>4 DEF FindInRoot
<1>5. CASE FindInBlock
  BY <1>2, <1>5 DEF FindInBlock
<1>6. CASE Stat
  BY <1>1, <1>6 DEF Stat
<1>7. CASE Open
  BY <1>1, <1>7 DEF Open
<1>8. CASE FindData
  BY <1>8 DEF FindData
<1>9. CASE CopyBlocks
  BY <1>2, <1>9 DEF CopyBlocks
<1>10. CASE Return
  BY <1>10 DEF Return
<1> QED BY <1>3, <1>4, <1>5, <1>6, <1>7, <1>8, <1>9, <1>10 DEF NtfsStep

LEMMA BuffersCall ==
  ASSUME DbufTyped, BuffersHonest, FileCall1
  PROVE  DbufTyped' /\ BuffersHonest'
<1> USE DEF fatVars, callVars
<1>1. \A c, at : Starts(c, at) => UNCHANGED vol /\ (trust' = "clean" => trust = "clean")
  BY DEF Starts
<1>2. \A op, path : FatFind(op, path) \/ NtfsFind(op, path) => UNCHANGED vol /\ (trust' = "clean" => trust = "clean")
  BY <1>1 DEF FatFind, NtfsFind
<1>3. \A op, path : FatFind(op, path) => UNCHANGED <<dbuf, fbuf, data_cluster, fat_sector>>
  BY DEF FatFind
<1>4. \A n : NtfsLseek(n) \/ NtfsRead(n) \/ Lseek(n) \/ Read(n) => UNCHANGED vol /\ (trust' = "clean" => trust = "clean")
  BY <1>1 DEF NtfsLseek, NtfsRead, Lseek, Read
<1>5. \A n : Lseek(n) \/ Read(n) => UNCHANGED <<dbuf, fbuf, data_cluster, fat_sector>>
  BY DEF Lseek, Read
<1> QED BY <1>2, <1>3, <1>4, <1>5, BuffersKept DEF FileCall1

LEMMA BuffersStep ==
  ASSUME DbufTyped, BuffersHonest, [Next]_vars
  PROVE  DbufTyped' /\ BuffersHonest'
<1> USE DEF fatVars, callVars
<1>5. CASE Step
  <2>1. CASE Ntfs
    BY <1>5, <2>1, NtfsTrust, BuffersKept DEF Step
  <2>2. CASE ~Ntfs
    BY <1>5, <2>2, BuffersFat DEF Step
  <2> QED BY <2>1, <2>2
<1>6. CASE UNCHANGED vars
  BY <1>6, BuffersKept DEF vars
<1> QED BY <1>5, <1>6, BuffersCall DEF Next
-----------------------------------------------------------------------------
(* Induction, and functions that are defined by it                         *)

LEMMA Reaches ==
  ASSUME NEW n \in Nat, NEW T, 0 \in T, \A k \in 1..n : k - 1 \in T => k \in T
  PROVE  0..n \subseteq T
<1> DEFINE Rest == {k \in 0..n : k \notin T}
<1> SUFFICES ASSUME Rest # {} PROVE FALSE
  OBVIOUS
<1>1. Rest \subseteq Nat
  OBVIOUS
<1>2. PICK k \in Rest : \A y \in Rest : k <= y
  BY <1>1, LeastIsLeast
<1>3. k \in 1..n /\ k - 1 \in 0..n /\ ~(k <= k - 1)
  BY <1>2
<1>4. k - 1 \in T
  BY <1>2, <1>3
<1> QED BY <1>2, <1>3, <1>4

\* Values that come one from another
Comes(f, n, base, F) == f[0] = base /\ \A k \in 1..n : f[k] = F[<<f[k - 1], k>>]

\* are those of a function.
LEMMA Recursion ==
  ASSUME NEW n \in Nat, NEW S, NEW base \in S, NEW F \in [S \X Nat -> S]
  PROVE  \E f \in [0..n -> S] : Comes(f, n, base, F)
<1> DEFINE Fits(f, k) == Comes(f, k, base, F)
           T == {k \in Nat : \E f \in [0..k -> S] : Fits(f, k)}
<1>1. 0 \in T
  <2>1. [i \in 0..0 |-> base] \in [0..0 -> S] /\ Fits([i \in 0..0 |-> base], 0)
    BY DEF Comes
  <2> QED BY <2>1
<1>2. ASSUME NEW k \in 1..n, k - 1 \in T
      PROVE  k \in T
  <2>1. PICK f \in [0..(k - 1) -> S] : f[0] = base /\ \A i \in 1..(k - 1) : f[i] = F[<<f[i - 1], i>>]
    BY <1>2 DEF Comes
  <2> DEFINE last == F[<<f[k - 1], k>>]
             g == [i \in 0..k |-> IF i = k THEN last ELSE f[i]]
  <2>2. last \in S
    BY <2>1
  <2>3. \A i \in 0..k : i # k => i \in 0..(k - 1)
    OBVIOUS
  <2>4. g \in [0..k -> S]
    BY <2>2, <2>3
  <2>5. g[0] = base
    BY <2>1
  <2>6. ASSUME NEW i \in 1..k
        PROVE  g[i] = F[<<g[i - 1], i>>]
    <3>1. i - 1 \in 0..k /\ i - 1 # k /\ i \in 0..k
      OBVIOUS
    <3>2. g[i - 1] = f[i - 1]
      BY <3>1
    <3>3. CASE i = k
      BY <3>1, <3>2, <3>3
    <3>4. CASE i # k
      <4>1. i \in 1..(k - 1)
        BY <3>4
      <4> QED BY <2>1, <3>1, <3>2, <3>4, <4>1
    <3> QED BY <3>3, <3>4
  <2> HIDE DEF g
  <2>7. Fits(g, k)
    BY <2>5, <2>6 DEF Comes
  <2> QED BY <2>4, <2>7
<1> HIDE DEF T
<1>3. n \in T
  <2>1. 0..n \subseteq T
    BY <1>1, <1>2, Reaches
  <2> QED BY <2>1
<1> QED BY <1>3 DEF T

LEMMA JoinedIs ==
  ASSUME NEW E, NEW u \in Seq(E), NEW p \in Seq(E)
  PROVE  /\ u \o p \in Seq(E) /\ Len(u \o p) = Len(u) + Len(p)
         /\ \A i \in 1..Len(u) : (u \o p)[i] = u[i]
         /\ \A i \in 1..Len(p) : (u \o p)[Len(u) + i] = p[i]
<1>1. Len(u) \in Nat /\ Len(p) \in Nat
  OBVIOUS
<1>2. u \o p \in Seq(E) /\ Len(u \o p) = Len(u) + Len(p)
  OBVIOUS
<1>3. \A i \in 1..(Len(u) + Len(p)) : (u \o p)[i] = IF i <= Len(u) THEN u[i] ELSE p[i - Len(u)]
  OBVIOUS
<1>4. ASSUME NEW i \in 1..Len(u)
      PROVE  (u \o p)[i] = u[i]
  BY <1>1, <1>3
<1>5. ASSUME NEW i \in 1..Len(p)
      PROVE  (u \o p)[Len(u) + i] = p[i]
  <2>1. Len(u) + i \in 1..(Len(u) + Len(p)) /\ ~(Len(u) + i <= Len(u)) /\ (Len(u) + i) - Len(u) = i
    BY <1>1
  <2> QED BY <1>3, <2>1
<1> QED BY <1>2, <1>4, <1>5
-----------------------------------------------------------------------------
(* The runs of a file                                                      *)

Run == [len : Nat \ {0}, delta : Int, bytes : Nat]

LEMMA RunsAre ==
  ASSUME NEW runs \in Seq(Run)
  PROVE  /\ Len(runs) \in Nat /\ DOMAIN runs = 1..Len(runs)
         /\ \A k \in 1..Len(runs) :
              runs[k].len \in Nat \ {0} /\ runs[k].delta \in Int /\ runs[k].bytes \in Nat
<1>1. Len(runs) \in Nat /\ DOMAIN runs = 1..Len(runs) /\ \A k \in 1..Len(runs) : runs[k] \in Run
  OBVIOUS
<1> QED BY <1>1 DEF Run

LEMMA BeforeIs ==
  ASSUME NEW runs \in Seq(Run)
  PROVE  /\ Before(runs) \in [0..Len(runs) -> Nat] /\ Before(runs)[0] = 0
         /\ \A k \in 1..Len(runs) : Before(runs)[k] = Before(runs)[k - 1] + runs[k].len
<1> DEFINE n == Len(runs)
           Solves(f) == f = [k \in 0..n |-> IF k = 0 THEN 0 ELSE f[k - 1] + runs[k].len]
           F == [x \in Nat \X Nat |-> IF x[2] \in 1..n THEN x[1] + runs[x[2]].len ELSE x[1]]
<1>1. n \in Nat /\ 0 \in Nat /\ \A k \in 1..n : runs[k].len \in Nat
  BY RunsAre
<1> HIDE DEF n
<1>2. F \in [Nat \X Nat -> Nat]
  BY <1>1
<1>3. \A x \in Nat, k \in 1..n : F[<<x, k>>] = x + runs[k].len
  OBVIOUS
<1> HIDE DEF F
<1>4. PICK f \in [0..n -> Nat] : f[0] = 0 /\ \A k \in 1..n : f[k] = F[<<f[k - 1], k>>]
  <2>1. 0 \in Nat /\ n \in Nat
    BY <1>1
  <2>2. \E f \in [0..n -> Nat] : Comes(f, n, 0, F)
    BY <1>2, <2>1, Recursion, Zenon
  <2> QED BY <2>2 DEF Comes
<1>5. \A k \in 1..n : k - 1 \in 0..n /\ f[k] = f[k - 1] + runs[k].len
  <2>1. \A k \in 1..n : k - 1 \in 0..n
    BY <1>1
  <2> QED BY <1>3, <1>4, <2>1
<1>6. \A k \in 0..n : f[k] = IF k = 0 THEN 0 ELSE f[k - 1] + runs[k].len
  BY <1>1, <1>4, <1>5
<1>7. Solves(f)
  BY <1>4, <1>6
<1>8. Solves(Before(runs))
  BY <1>7 DEF Before, n
<1> DEFINE g == Before(runs)
<1> HIDE DEF g
<1>9. Solves(g)
  BY <1>8 DEF g
<1>10. g[0] = 0 /\ \A k \in 1..n : g[k] = g[k - 1] + runs[k].len
  BY <1>1, <1>9
<1>11. \A k \in 0..n : g[k] \in Nat
  <2> DEFINE T == {k \in 0..n : g[k] \in Nat}
  <2>0. \A k \in 1..n : k - 1 \in 0..n /\ k \in 0..n
    BY <1>1
  <2>1. ASSUME NEW k \in 1..n, k - 1 \in T
        PROVE  k \in T
    <3>1. g[k - 1] \in Nat /\ runs[k].len \in Nat
      BY <1>1, <2>1
    <3>2. g[k] = g[k - 1] + runs[k].len
      BY <1>10
    <3> QED BY <2>0, <3>1, <3>2
  <2>2. 0 \in T
    BY <1>1, <1>10
  <2> HIDE DEF T
  <2>3. 0..n \subseteq T
    BY <1>1, <2>1, <2>2, Reaches
  <2> QED BY <2>3 DEF T
<1>12. g \in [0..n -> Nat]
  BY <1>9, <1>11
<1> QED BY <1>10, <1>12 DEF g, n

LEMMA RunStartIs ==
  ASSUME NEW runs \in Seq(Run)
  PROVE  /\ RunStart(runs) \in [0..Len(runs) -> Int] /\ RunStart(runs)[0] = 0
         /\ \A k \in 1..Len(runs) : RunStart(runs)[k] = RunStart(runs)[k - 1] + runs[k].delta
<1> DEFINE n == Len(runs)
           Solves(f) == f = [k \in 0..n |-> IF k = 0 THEN 0 ELSE f[k - 1] + runs[k].delta]
           F == [x \in Int \X Nat |-> IF x[2] \in 1..n THEN x[1] + runs[x[2]].delta ELSE x[1]]
<1>1. n \in Nat /\ 0 \in Int /\ \A k \in 1..n : runs[k].delta \in Int
  BY RunsAre
<1> HIDE DEF n
<1>2. F \in [Int \X Nat -> Int]
  BY <1>1
<1>3. \A x \in Int, k \in 1..n : F[<<x, k>>] = x + runs[k].delta
  OBVIOUS
<1> HIDE DEF F
<1>4. PICK f \in [0..n -> Int] : f[0] = 0 /\ \A k \in 1..n : f[k] = F[<<f[k - 1], k>>]
  <2>1. 0 \in Int /\ n \in Nat
    BY <1>1
  <2>2. \E f \in [0..n -> Int] : Comes(f, n, 0, F)
    BY <1>2, <2>1, Recursion, Zenon
  <2> QED BY <2>2 DEF Comes
<1>5. \A k \in 1..n : k - 1 \in 0..n /\ f[k] = f[k - 1] + runs[k].delta
  <2>1. \A k \in 1..n : k - 1 \in 0..n
    BY <1>1
  <2> QED BY <1>3, <1>4, <2>1
<1>6. \A k \in 0..n : f[k] = IF k = 0 THEN 0 ELSE f[k - 1] + runs[k].delta
  BY <1>1, <1>4, <1>5
<1>7. Solves(f)
  BY <1>4, <1>6
<1>8. Solves(RunStart(runs))
  BY <1>7 DEF RunStart, n
<1> DEFINE g == RunStart(runs)
<1> HIDE DEF g
<1>9. Solves(g)
  BY <1>8 DEF g
<1>10. g[0] = 0 /\ \A k \in 1..n : g[k] = g[k - 1] + runs[k].delta
  BY <1>1, <1>9
<1>11. \A k \in 0..n : g[k] \in Int
  <2> DEFINE T == {k \in 0..n : g[k] \in Int}
  <2>0. \A k \in 1..n : k - 1 \in 0..n /\ k \in 0..n
    BY <1>1
  <2>1. ASSUME NEW k \in 1..n, k - 1 \in T
        PROVE  k \in T
    <3>1. g[k - 1] \in Int /\ runs[k].delta \in Int
      BY <1>1, <2>1
    <3>2. g[k] = g[k - 1] + runs[k].delta
      BY <1>10
    <3> QED BY <2>0, <3>1, <3>2
  <2>2. 0 \in T
    BY <1>1, <1>10
  <2> HIDE DEF T
  <2>3. 0..n \subseteq T
    BY <1>1, <2>1, <2>2, Reaches
  <2> QED BY <2>3 DEF T
<1>12. g \in [0..n -> Int]
  BY <1>9, <1>11
<1> QED BY <1>10, <1>12 DEF g, n

\* The clusters of the k-th run
Piece(runs, k) == [i \in 1..runs[k].len |-> RunStart(runs)[k] + i - 1]

LEMMA PieceIs ==
  ASSUME NEW runs \in Seq(Run), NEW k \in 1..Len(runs)
  PROVE  Piece(runs, k) \in Seq(Int) /\ Len(Piece(runs, k)) = runs[k].len
<1> DEFINE m == runs[k].len
           s == RunStart(runs)[k]
<1>1. m \in Nat /\ s \in Int
  <2>1. m \in Nat
    BY RunsAre
  <2>2. RunStart(runs) \in [0..Len(runs) -> Int]
    BY RunStartIs
  <2>3. k \in 0..Len(runs)
    BY RunsAre
  <2> QED BY <2>1, <2>2, <2>3
<1>2. Piece(runs, k) = [i \in 1..m |-> s + i - 1]
  BY DEF Piece
<1> HIDE DEF m, s
<1>3. [i \in 1..m |-> s + i - 1] \in Seq(Int) /\ Len([i \in 1..m |-> s + i - 1]) = m
  BY <1>1
<1> QED BY <1>2, <1>3 DEF m

LEMMA UptoIs ==
  ASSUME NEW runs \in Seq(Run)
  PROVE  /\ ClustersUpto(runs) \in [0..Len(runs) -> Seq(Int)] /\ ClustersUpto(runs)[0] = <<>>
         /\ \A k \in 1..Len(runs) : ClustersUpto(runs)[k] = ClustersUpto(runs)[k - 1] \o Piece(runs, k)
<1> DEFINE n == Len(runs)
           Solves(f) == f = [k \in 0..n |-> IF k = 0 THEN <<>> ELSE f[k - 1] \o Piece(runs, k)]
           F == [x \in Seq(Int) \X Nat |-> IF x[2] \in 1..n THEN x[1] \o Piece(runs, x[2]) ELSE x[1]]
<1>1. n \in Nat /\ <<>> \in Seq(Int) /\ \A k \in 1..n : Piece(runs, k) \in Seq(Int)
  BY PieceIs, RunsAre
<1> HIDE DEF n
<1>2. F \in [Seq(Int) \X Nat -> Seq(Int)]
  BY <1>1
<1>3. \A x \in Seq(Int), k \in 1..n : F[<<x, k>>] = x \o Piece(runs, k)
  <2> SUFFICES ASSUME NEW x \in Seq(Int), NEW k \in 1..n
               PROVE  F[<<x, k>>] = x \o Piece(runs, k)
    OBVIOUS
  <2>1. k \in Nat
    BY <1>1
  <2>2. <<x, k>> \in Seq(Int) \X Nat /\ <<x, k>>[1] = x /\ <<x, k>>[2] = k
    BY <2>1
  <2> QED BY <2>2
<1> HIDE DEF F
<1>4. PICK f \in [0..n -> Seq(Int)] : f[0] = <<>> /\ \A k \in 1..n : f[k] = F[<<f[k - 1], k>>]
  <2>1. <<>> \in Seq(Int) /\ n \in Nat
    BY <1>1
  <2>2. \E f \in [0..n -> Seq(Int)] : Comes(f, n, <<>>, F)
    BY <1>2, <2>1, Recursion, Zenon
  <2> QED BY <2>2 DEF Comes
<1>5. \A k \in 1..n : k - 1 \in 0..n /\ f[k] = f[k - 1] \o Piece(runs, k)
  <2>1. \A k \in 1..n : k - 1 \in 0..n
    BY <1>1
  <2> QED BY <1>3, <1>4, <2>1
<1>6. \A k \in 0..n : f[k] = IF k = 0 THEN <<>> ELSE f[k - 1] \o Piece(runs, k)
  <2>1. \A k \in 0..n : k # 0 => k \in 1..n
    BY <1>1
  <2> QED BY <1>4, <1>5, <2>1
<1>7. Solves(f)
  BY <1>4, <1>6, Zenon
<1>8. Solves(ClustersUpto(runs))
  BY <1>7, Zenon DEF ClustersUpto, Piece, n
<1> DEFINE g == ClustersUpto(runs)
<1> HIDE DEF g
<1>9. Solves(g)
  BY <1>8 DEF g
<1>10. g[0] = <<>> /\ \A k \in 1..n : g[k] = g[k - 1] \o Piece(runs, k)
  <2>1. 0 \in 0..n /\ \A k \in 1..n : k \in 0..n /\ k # 0
    BY <1>1
  <2>2. \A k \in 0..n : g[k] = IF k = 0 THEN <<>> ELSE g[k - 1] \o Piece(runs, k)
    BY <1>9
  <2> QED BY <2>1, <2>2
<1>11. \A k \in 0..n : g[k] \in Seq(Int)
  <2> DEFINE T == {k \in 0..n : g[k] \in Seq(Int)}
  <2>0. \A k \in 1..n : k - 1 \in 0..n /\ k \in 0..n
    BY <1>1
  <2>1. ASSUME NEW k \in 1..n, k - 1 \in T
        PROVE  k \in T
    <3>1. g[k - 1] \in Seq(Int) /\ Piece(runs, k) \in Seq(Int)
      BY <1>1, <2>1
    <3>2. g[k] = g[k - 1] \o Piece(runs, k)
      BY <1>10, Zenon
    <3>3. g[k] \in Seq(Int)
      BY <3>1, <3>2, JoinedIs
    <3> QED BY <2>0, <3>3
  <2>2. 0 \in T
    <3>1. 0 \in 0..n /\ g[0] = <<>> /\ <<>> \in Seq(Int)
      BY <1>1, <1>10
    <3> QED BY <3>1
  <2> HIDE DEF T
  <2>3. 0..n \subseteq T
    BY <1>1, <2>1, <2>2, Reaches
  <2> QED BY <2>3 DEF T
<1>12. g \in [0..n -> Seq(Int)]
  BY <1>9, <1>11
<1> QED BY <1>10, <1>12 DEF g, n

\* The file is as long as its runs, and each cluster is where they say.
LEMMA ClustersAre ==
  ASSUME NEW runs \in Seq(Run), NEW k \in 0..Len(runs)
  PROVE  /\ ClustersUpto(runs)[k] \in Seq(Int) /\ Len(ClustersUpto(runs)[k]) = Before(runs)[k]
         /\ \A j \in 0..k : Before(runs)[j] <= Before(runs)[k]
         /\ \A j \in 1..k : \A i \in 1..runs[j].len :
              ClustersUpto(runs)[k][Before(runs)[j - 1] + i] = RunStart(runs)[j] + i - 1
<1> DEFINE n == Len(runs)
           B == Before(runs)
           U == ClustersUpto(runs)
           Fits(m) == /\ U[m] \in Seq(Int) /\ Len(U[m]) = B[m] /\ \A j \in 0..m : B[j] <= B[m]
                      /\ \A j \in 1..m : \A i \in 1..runs[j].len : U[m][B[j - 1] + i] = RunStart(runs)[j] + i - 1
           T == {m \in 0..n : Fits(m)}
<1>0. n \in Nat /\ \A j \in 1..n : runs[j].len \in Nat \ {0}
  BY RunsAre
<1>1. B \in [0..n -> Nat] /\ B[0] = 0 /\ \A j \in 1..n : B[j] = B[j - 1] + runs[j].len
  BY BeforeIs
<1>2. U \in [0..n -> Seq(Int)] /\ U[0] = <<>> /\ \A j \in 1..n : U[j] = U[j - 1] \o Piece(runs, j)
  BY UptoIs
<1> HIDE DEF B, U
<1>3. Fits(0)
  <2>1. U[0] \in Seq(Int) /\ Len(U[0]) = 0
    BY <1>2
  <2> QED BY <1>1, <2>1
<1>4. ASSUME NEW m \in 1..n, m - 1 \in T
      PROVE  m \in T
  <2>1. Fits(m - 1) /\ m - 1 \in 0..n /\ m \in 0..n
    BY <1>4
  <2> DEFINE u == U[m - 1]
             p == Piece(runs, m)
  <2>2. p \in Seq(Int) /\ Len(p) = runs[m].len
    BY PieceIs
  <2>3. \A i \in 1..runs[m].len : p[i] = RunStart(runs)[m] + i - 1
    BY DEF Piece
  <2> HIDE DEF p, u
  <2>4. u \in Seq(Int) /\ Len(u) = B[m - 1] /\ U[m] = u \o p
    BY <1>2, <2>1 DEF u, p
  <2>0. u \o p \in Seq(Int) /\ Len(u \o p) = Len(u) + Len(p) /\ \A x \in 1..Len(p) : (u \o p)[Len(u) + x] = p[x]
    <3>1. u \in Seq(Int) /\ p \in Seq(Int)
      BY <2>2, <2>4
    <3>2. u \o p \in Seq(Int) /\ Len(u \o p) = Len(u) + Len(p)
      BY <3>1, JoinedIs
    <3>3. \A x \in 1..Len(p) : (u \o p)[Len(u) + x] = p[x]
      BY <3>1, JoinedIs
    <3> QED BY <3>2, <3>3
  <2>5. U[m] \in Seq(Int) /\ Len(U[m]) = B[m - 1] + runs[m].len
    BY <2>0, <2>2, <2>4
  <2>6. B[m] = B[m - 1] + runs[m].len /\ B[m - 1] \in Nat /\ runs[m].len \in Nat
    BY <1>0, <1>1, <2>1
  <2>7. ASSUME NEW j \in 0..m
        PROVE  B[j] <= B[m]
    <3>1. CASE j = m
      BY <1>1, <2>1, <3>1
    <3>2. CASE j # m
      <4>1. j \in 0..(m - 1) /\ j \in 0..n
        BY <3>2
      <4>2. B[j] <= B[m - 1] /\ B[j] \in Nat
        BY <1>1, <2>1, <4>1
      <4> QED BY <2>6, <4>2
    <3> QED BY <3>1, <3>2
  <2>8. ASSUME NEW j \in 1..m, NEW i \in 1..runs[j].len
        PROVE  U[m][B[j - 1] + i] = RunStart(runs)[j] + i - 1
    <3>0. j \in 1..n /\ j - 1 \in 0..n /\ runs[j].len \in Nat
      BY <1>0
    <3>1. B[j - 1] \in Nat
      BY <1>1, <3>0
    <3>2. CASE j = m
      <4>1. i \in 1..Len(p) /\ B[j - 1] + i = Len(u) + i
        BY <2>2, <2>4, <3>2
      <4>2. (u \o p)[Len(u) + i] = p[i]
        BY <2>0, <4>1
      <4> QED BY <2>3, <2>4, <3>2, <4>1, <4>2
    <3>3. CASE j # m
      <4>1. j \in 1..(m - 1) /\ j \in 0..(m - 1) /\ j \in 0..n
        BY <3>3
      <4>2. B[j] <= B[m - 1] /\ B[j] = B[j - 1] + runs[j].len /\ B[j] \in Nat
        BY <1>1, <2>1, <3>0, <4>1
      <4>3. B[j - 1] + i \in 1..Len(u)
        <5> DEFINE y == B[j - 1]
                   z == B[j]
                   h == B[m - 1]
                   e == runs[j].len
        <5>1. y \in Nat /\ z \in Nat /\ h \in Nat /\ e \in Nat /\ z <= h /\ z = y + e /\ i \in 1..e
          BY <2>6, <3>0, <3>1, <4>2
        <5>2. Len(u) = h
          BY <2>4
        <5> HIDE DEF y, z, h, e
        <5>3. y + i \in 1..h
          BY <5>1
        <5> QED BY <5>2, <5>3 DEF y
      <4>4. (u \o p)[B[j - 1] + i] = u[B[j - 1] + i]
        BY <2>2, <2>4, <4>3, JoinedIs
      <4>5. u[B[j - 1] + i] = RunStart(runs)[j] + i - 1
        BY <2>1, <4>1 DEF u
      <4> QED BY <2>4, <4>4, <4>5
    <3> QED BY <3>2, <3>3
  <2> QED BY <2>1, <2>5, <2>6, <2>7, <2>8
<1>5. 0 \in T
  BY <1>0, <1>3
<1> HIDE DEF T
<1>6. 0..n \subseteq T
  BY <1>0, <1>4, <1>5, Reaches
<1>7. Fits(k)
  BY <1>6 DEF T
<1> QED BY <1>7 DEF B, U

LEMMA VolumeIs ==
  ASSUME NEW runs, OnVolume(runs)
  PROVE  /\ runs \in Seq(Run) /\ Len(runs) \in Nat /\ DOMAIN runs = 1..Len(runs)
         /\ \A k \in 1..Len(runs) :
              /\ runs[k] \in Run /\ runs[k].len \in Nat \ {0}
              /\ RunStart(runs)[k] \in Nat /\ RunStart(runs)[k] + runs[k].len <= WordValues
<1>1. runs \in Seq(Run)
  BY DEF OnVolume, Run
<1>2. Len(runs) \in Nat /\ DOMAIN runs = 1..Len(runs) /\ \A k \in 1..Len(runs) : runs[k].len \in Nat \ {0}
  BY <1>1, RunsAre
<1>3. \A k \in 1..Len(runs) : runs[k] \in Run
  BY <1>1
<1>4. \A k \in 1..Len(runs) : RunStart(runs)[k] >= 0 /\ RunStart(runs)[k] + runs[k].len <= WordValues
  BY <1>2 DEF OnVolume
<1>5. \A k \in 1..Len(runs) : RunStart(runs)[k] \in Int
  BY <1>1, <1>2, RunStartIs
<1> QED BY <1>1, <1>2, <1>3, <1>4, <1>5
-----------------------------------------------------------------------------
(* Decoding a run                                                          *)

\* A word that is added without its sign gives the sum if that is a word.
LEMMA WordSum ==
  ASSUME NEW w \in Nat \ {0}, NEW b \in Int, NEW d \in Int, b + d \in 0..(w - 1)
  PROVE  (b + (d % w)) % w = b + d
<1> DEFINE r == d % w
           q == d \div w
           s == (b + r) % w
           p == (b + r) \div w
<1>1. r \in Int /\ q \in Int /\ d = q * w + r
  OBVIOUS
<1>2. s \in 0..(w - 1) /\ p \in Int /\ b + r = p * w + s
  <2> DEFINE e == b + r
  <2>1. e \in Int
    BY <1>1
  <2> HIDE DEF e
  <2>2. e % w \in 0..(w - 1) /\ e \div w \in Int /\ e = (e \div w) * w + (e % w)
    BY <2>1
  <2> QED BY <2>2 DEF e
<1> HIDE DEF r, q, s, p
<1>3. b + d = (p + q) * w + s
  BY <1>1, <1>2
<1>4. p + q = 0
  <2> DEFINE t == p + q
  <2>1. t \in Int /\ s \in Int /\ t * w + s \in 0..(w - 1)
    BY <1>1, <1>2, <1>3
  <2> HIDE DEF t
  <2>2. t = 0
    BY <1>2, <2>1
  <2> QED BY <2>2 DEF t
<1>5. b + d = s
  BY <1>2, <1>3, <1>4
<1> QED BY <1>5 DEF s, r

LEMMA DistanceAdds ==
  ASSUME NEW b \in Int, NEW run \in Run, b >= 0, b + run.delta \in 0..(WordValues - 1),
         run.delta < ByteValues^run.bytes,
         run.delta >= 0 \/ ByteValues^run.bytes = WordValues
  PROVE  (b + Distance(run)) % WordValues = b + run.delta
<1> DEFINE d == run.delta
           m == ByteValues^run.bytes
<1>1. WordValues \in Nat \ {0} /\ ByteValues \in Nat \ {0}
  BY RunlistAssumption
<1>2. d \in Int /\ run.bytes \in Nat
  BY DEF Run
<1>3. m \in Int
  BY <1>1, <1>2
<1>4. Distance(run) = d % m
  BY DEF Distance
<1>5. CASE d >= 0
  <2> HIDE DEF d, m
  <2>1. d < m
    BY DEF d, m
  <2>2. m \in Nat \ {0} /\ d \in 0..(m - 1)
    BY <1>2, <1>3, <1>5, <2>1
  <2>3. d % m = d
    BY <2>2
  <2>4. b + d \in 0..(WordValues - 1)
    BY DEF d
  <2>5. (b + d) % WordValues = b + d
    BY <1>1, <2>4
  <2> QED BY <1>4, <2>3, <2>5 DEF d
<1>6. CASE ~(d >= 0)
  <2>1. m = WordValues
    BY <1>6
  <2>2. b + d \in 0..(WordValues - 1)
    OBVIOUS
  <2> HIDE DEF d, m
  <2>3. (b + (d % WordValues)) % WordValues = b + d
    BY <1>1, <1>2, <2>2, WordSum
  <2> QED BY <1>4, <2>1, <2>3 DEF d
<1> QED BY <1>5, <1>6

\* A run list in the j-th run, at its cluster a
RunRl(runs, j, a) == [next |-> j, start |-> RunStart(runs)[j], at |-> a, size |-> runs[j].len]

LEMMA NextRunIs ==
  ASSUME NEW runs, OnVolume(runs), Decodable(runs), NEW j \in 1..Len(runs), NEW rl,
         rl.next = j - 1, j # 1 => rl.start = RunStart(runs)[j - 1]
  PROVE  NextRun(rl, runs) = RunRl(runs, j, 0)
<1>0. /\ runs \in Seq(Run) /\ Len(runs) \in Nat /\ DOMAIN runs = 1..Len(runs)
      /\ runs[j] \in Run /\ RunStart(runs)[j] \in Nat /\ runs[j].len \in Nat \ {0}
      /\ RunStart(runs)[j] + runs[j].len <= WordValues
  BY VolumeIs
<1> DEFINE b == IF rl.next = 0 THEN 0 ELSE rl.start
<1>1. RunStart(runs)[0] = 0 /\ RunStart(runs)[j] = RunStart(runs)[j - 1] + runs[j].delta
  BY <1>0, RunStartIs
<1>2. b = RunStart(runs)[j - 1]
  BY <1>1
<1>3. b \in Nat
  <2>1. CASE j = 1
    BY <1>1, <1>2, <2>1
  <2>2. CASE j # 1
    <3>1. j - 1 \in 1..Len(runs)
      BY <1>0, <2>2
    <3> QED BY <1>2, <3>1, VolumeIs
  <2> QED BY <2>1, <2>2
<1>4. rl.next + 1 = j
  OBVIOUS
<1>5. NextRun(rl, runs) = [next |-> j, start |-> (b + Distance(runs[j])) % WordValues, at |-> 0, size |-> runs[j].len]
  BY <1>4 DEF NextRun
<1> HIDE DEF b
<1>6. b + runs[j].delta \in 0..(WordValues - 1) /\ b + runs[j].delta = RunStart(runs)[j]
  <2>1. WordValues \in Nat
    BY RunlistAssumption
  <2> QED BY <1>0, <1>1, <1>2, <2>1
<1>7. /\ runs[j].delta < ByteValues^runs[j].bytes
      /\ runs[j].delta >= 0 \/ ByteValues^runs[j].bytes = WordValues
  BY <1>0 DEF OnVolume, Decodable
<1>8. (b + Distance(runs[j])) % WordValues = b + runs[j].delta
  BY <1>0, <1>3, <1>6, <1>7, DistanceAdds
<1> QED BY <1>5, <1>6, <1>8 DEF RunRl

\* What rl_next_lcn does: at the start, within a run, behind a run, at the end.
LEMMA NextLcnIs ==
  ASSUME NEW runs, OnVolume(runs), Decodable(runs)
  PROVE  /\ Len(runs) = 0 => NextLcn(FreshRl, runs) = [rl |-> FreshRl, lcn |-> 0]
         /\ Len(runs) # 0 =>
              NextLcn(FreshRl, runs) = [rl |-> RunRl(runs, 1, 0), lcn |-> RunStart(runs)[1]]
         /\ \A j \in 1..Len(runs), a \in Nat :
              NextLcn(RunRl(runs, j, a), runs) =
                IF a # runs[j].len - 1
                THEN [rl |-> RunRl(runs, j, a + 1), lcn |-> (RunStart(runs)[j] + a + 1) % WordValues]
                ELSE IF j # Len(runs) THEN [rl |-> RunRl(runs, j + 1, 0), lcn |-> RunStart(runs)[j + 1]]
                ELSE [rl |-> RunRl(runs, j, a), lcn |-> 0]
<1>0. Len(runs) \in Nat
  BY VolumeIs
<1>1. FreshRl.next = 0 /\ [FreshRl EXCEPT !.start = 0] = FreshRl
  BY DEF FreshRl
<1>2. ASSUME Len(runs) = 0
      PROVE  NextLcn(FreshRl, runs) = [rl |-> FreshRl, lcn |-> 0]
  BY <1>1, <1>2 DEF NextLcn, NoRun
<1>3. ASSUME Len(runs) # 0
      PROVE  NextLcn(FreshRl, runs) = [rl |-> RunRl(runs, 1, 0), lcn |-> RunStart(runs)[1]]
  <2>1. 1 \in 1..Len(runs) /\ FreshRl.next = 1 - 1
    BY <1>0, <1>1, <1>3
  <2>2. NextRun(FreshRl, runs) = RunRl(runs, 1, 0)
    BY <2>1, NextRunIs
  <2>3. NextLcn(FreshRl, runs) = [rl |-> NextRun(FreshRl, runs), lcn |-> NextRun(FreshRl, runs).start]
    BY <1>1, <1>3 DEF NextLcn
  <2> QED BY <2>2, <2>3 DEF RunRl
<1>4. ASSUME NEW j \in 1..Len(runs), NEW a \in Nat
      PROVE  NextLcn(RunRl(runs, j, a), runs) =
               IF a # runs[j].len - 1
               THEN [rl |-> RunRl(runs, j, a + 1), lcn |-> (RunStart(runs)[j] + a + 1) % WordValues]
               ELSE IF j # Len(runs) THEN [rl |-> RunRl(runs, j + 1, 0), lcn |-> RunStart(runs)[j + 1]]
               ELSE [rl |-> RunRl(runs, j, a), lcn |-> 0]
  <2> DEFINE rl == RunRl(runs, j, a)
  <2>1. rl.next = j /\ rl.start = RunStart(runs)[j] /\ rl.at = a /\ rl.size = runs[j].len /\ j # 0
    BY DEF RunRl
  <2>2. CASE a # runs[j].len - 1
    <3>1. [rl EXCEPT !.at = @ + 1] = RunRl(runs, j, a + 1)
      BY DEF RunRl
    <3> HIDE DEF rl
    <3>2. NextLcn(rl, runs) = [rl |-> [rl EXCEPT !.at = @ + 1], lcn |-> (rl.start + rl.at + 1) % WordValues]
      BY <2>1, <2>2 DEF NextLcn
    <3> QED BY <2>1, <2>2, <3>1, <3>2 DEF rl
  <2>3. CASE a = runs[j].len - 1 /\ j # Len(runs)
    <3>1. j + 1 \in 1..Len(runs) /\ rl.next = (j + 1) - 1 /\ rl.start = RunStart(runs)[(j + 1) - 1]
      BY <1>0, <2>1, <2>3
    <3> HIDE DEF rl
    <3>2. NextRun(rl, runs) = RunRl(runs, j + 1, 0)
      BY <3>1, NextRunIs
    <3>3. NextLcn(rl, runs) = [rl |-> NextRun(rl, runs), lcn |-> NextRun(rl, runs).start]
      BY <2>1, <2>3 DEF NextLcn
    <3>4. RunRl(runs, j + 1, 0).start = RunStart(runs)[j + 1]
      BY DEF RunRl
    <3> QED BY <2>3, <3>2, <3>3, <3>4 DEF rl
  <2>4. CASE a = runs[j].len - 1 /\ j = Len(runs)
    <3> HIDE DEF rl
    <3>1. NextLcn(rl, runs) = [rl |-> rl, lcn |-> 0]
      BY <2>1, <2>4 DEF NextLcn, NoRun
    <3> QED BY <2>4, <3>1 DEF rl
  <2> QED BY <2>2, <2>3, <2>4
<1> QED BY <1>2, <1>3, <1>4

\* The rounds of a search decode one run after another.
LEMMA RoundsAre ==
  ASSUME NEW runs, OnVolume(runs), Decodable(runs), NEW rl, Reset(rl).next = 0
  PROVE  \A k \in 0..Len(runs) : Rounds(rl, runs)[k] = IF k = 0 THEN Reset(rl) ELSE RunRl(runs, k, 0)
<1> DEFINE n == Len(runs)
           Solves(f) == f = [k \in 0..n |-> IF k = 0 THEN Reset(rl) ELSE NextRun(f[k - 1], runs)]
           f == [k \in 0..n |-> IF k = 0 THEN Reset(rl) ELSE RunRl(runs, k, 0)]
           g == Rounds(rl, runs)
<1>1. n \in Nat
  BY VolumeIs
<1>2. ASSUME NEW k \in 1..n
      PROVE  k - 1 \in 0..n /\ k \in 0..n /\ f[k] = NextRun(f[k - 1], runs)
  <2>1. k - 1 \in 0..n /\ k \in 0..n /\ k # 0
    BY <1>1
  <2>2. f[k] = RunRl(runs, k, 0) /\ f[k - 1] = IF k - 1 = 0 THEN Reset(rl) ELSE RunRl(runs, k - 1, 0)
    BY <2>1
  <2> HIDE DEF f
  <2>3. f[k - 1].next = k - 1 /\ (k # 1 => f[k - 1].start = RunStart(runs)[k - 1])
    BY <2>2 DEF RunRl
  <2>4. NextRun(f[k - 1], runs) = RunRl(runs, k, 0)
    BY <2>3, NextRunIs
  <2> QED BY <2>1, <2>2, <2>4
<1>3. f[0] = Reset(rl)
  BY <1>1
<1>4. Solves(f)
  <2>1. \A k \in 0..n : f[k] = IF k = 0 THEN Reset(rl) ELSE NextRun(f[k - 1], runs)
    <3>1. \A k \in 0..n : k # 0 => k \in 1..n
      BY <1>1
    <3> HIDE DEF f
    <3> QED BY <1>2, <1>3, <3>1
  <2> QED BY <2>1
<1> HIDE DEF f
<1>5. Solves(g)
  BY <1>4 DEF Rounds
<1> HIDE DEF g
<1>6. g[0] = Reset(rl) /\ \A k \in 1..n : g[k] = NextRun(g[k - 1], runs)
  <2>1. 0 \in 0..n /\ \A k \in 1..n : k \in 0..n /\ k # 0
    BY <1>1
  <2> QED BY <1>5, <2>1
<1>7. \A k \in 0..n : g[k] = f[k]
  <2> DEFINE T == {k \in 0..n : g[k] = f[k]}
  <2>1. 0 \in T
    BY <1>1, <1>3, <1>6
  <2>2. \A k \in 1..n : k - 1 \in T => k \in T
    BY <1>2, <1>6
  <2> HIDE DEF T
  <2>3. 0..n \subseteq T
    BY <1>1, <2>1, <2>2, Reaches
  <2> QED BY <2>3 DEF T
<1> QED BY <1>7 DEF f, g

\* A run list is where the first m clusters of the file have been passed.
At(runs, rl, m) ==
  \/ m = 0 /\ rl = FreshRl
  \/ \E j \in 1..Len(runs) : \E a \in 0..(runs[j].len - 1) :
       rl = RunRl(runs, j, a) /\ m = Before(runs)[j - 1] + a + 1

LEMMA FileIs ==
  ASSUME NEW runs, OnVolume(runs)
  PROVE  /\ Clusters(runs) \in Seq(Int) /\ Len(Clusters(runs)) \in Nat
         /\ Len(Clusters(runs)) = Before(runs)[Len(runs)]
         /\ Before(runs)[0] = 0 /\ \A j \in 0..Len(runs) : Before(runs)[j] \in Nat
         /\ \A j \in 1..Len(runs) : Before(runs)[j] = Before(runs)[j - 1] + runs[j].len
         /\ \A i, j \in 0..Len(runs) : i <= j => Before(runs)[i] <= Before(runs)[j]
         /\ \A j \in 1..Len(runs) : \A i \in 1..runs[j].len :
              Clusters(runs)[Before(runs)[j - 1] + i] = RunStart(runs)[j] + i - 1
<1>1. runs \in Seq(Run) /\ Len(runs) \in Nat /\ Len(runs) \in 0..Len(runs)
  BY VolumeIs
<1>2. /\ Clusters(runs) \in Seq(Int) /\ Len(Clusters(runs)) = Before(runs)[Len(runs)]
      /\ \A j \in 1..Len(runs) : \A i \in 1..runs[j].len :
           Clusters(runs)[Before(runs)[j - 1] + i] = RunStart(runs)[j] + i - 1
  BY <1>1, ClustersAre DEF Clusters
<1>3. \A i, j \in 0..Len(runs) : i <= j => Before(runs)[i] <= Before(runs)[j]
  <2>1. \A i, j \in 0..Len(runs) : i <= j => i \in 0..j
    BY <1>1
  <2> QED BY <1>1, <2>1, ClustersAre
<1>4. /\ Before(runs) \in [0..Len(runs) -> Nat] /\ Before(runs)[0] = 0
      /\ \A k \in 1..Len(runs) : Before(runs)[k] = Before(runs)[k - 1] + runs[k].len
  BY <1>1, BeforeIs
<1> QED BY <1>1, <1>2, <1>3, <1>4

\* Each step passes the next cluster of the file, the last one ends it.
LEMMA OneStep ==
  ASSUME NEW runs, OnVolume(runs), Decodable(runs), NEW m \in 0..Len(Clusters(runs)), NEW rl, At(runs, rl, m)
  PROVE  /\ m # Len(Clusters(runs)) => /\ At(runs, NextLcn(rl, runs).rl, m + 1)
                                       /\ NextLcn(rl, runs).lcn = Clusters(runs)[m + 1]
         /\ m = Len(Clusters(runs)) => NextLcn(rl, runs).lcn = 0
<1> DEFINE n == Len(runs)
           B == Before(runs)
           C == Clusters(runs)
           L(j) == runs[j].len
           S(j) == RunStart(runs)[j]
           Goal == /\ m # Len(C) => At(runs, NextLcn(rl, runs).rl, m + 1) /\ NextLcn(rl, runs).lcn = C[m + 1]
                   /\ m = Len(C) => NextLcn(rl, runs).lcn = 0
<1>1. n \in Nat /\ \A j \in 1..n : L(j) \in Nat \ {0} /\ S(j) \in Nat /\ S(j) + L(j) <= WordValues
  BY VolumeIs
<1>2. /\ Len(C) \in Nat /\ Len(C) = B[n] /\ B[0] = 0 /\ \A j \in 0..n : B[j] \in Nat
      /\ \A j \in 1..n : B[j] = B[j - 1] + L(j)
      /\ \A i, j \in 0..n : i <= j => B[i] <= B[j]
      /\ \A j \in 1..n : \A i \in 1..L(j) : C[B[j - 1] + i] = S(j) + i - 1
  BY FileIs
<1>3. ASSUME NEW j \in 1..n, NEW a \in 0..(L(j) - 1)
      PROVE  At(runs, RunRl(runs, j, a), B[j - 1] + a + 1) /\ C[B[j - 1] + a + 1] = S(j) + a
  <2>1. At(runs, RunRl(runs, j, a), B[j - 1] + a + 1)
    BY DEF At
  <2>2. a + 1 \in 1..L(j) /\ a \in Nat /\ L(j) \in Nat /\ B[j - 1] \in Nat /\ S(j) \in Nat
    <3>1. L(j) \in Nat \ {0} /\ S(j) \in Nat
      BY <1>1
    <3> HIDE DEF L, S
    <3>2. a + 1 \in 1..L(j) /\ a \in Nat /\ j - 1 \in 0..n
      BY <3>1, <1>1
    <3>3. B[j - 1] \in Nat
      <4>1. \A i \in 0..n : B[i] \in Nat
        BY <1>2
      <4> QED BY <3>2, <4>1
    <3> QED BY <3>1, <3>2, <3>3
  <2>3. C[B[j - 1] + (a + 1)] = S(j) + (a + 1) - 1
    <3>1. \A i \in 1..L(j) : C[B[j - 1] + i] = S(j) + i - 1
      BY <1>2
    <3> QED BY <2>2, <3>1
  <2> DEFINE p == B[j - 1]
             s == S(j)
  <2>4. p \in Nat /\ s \in Nat /\ a \in Nat
    BY <2>2
  <2> HIDE DEF p, s
  <2>5. p + (a + 1) = p + a + 1 /\ s + (a + 1) - 1 = s + a
    BY <2>4
  <2> QED BY <2>1, <2>3, <2>5 DEF p, s
<1> HIDE DEF B, C, L, S
<1>4. CASE m = 0 /\ rl = FreshRl
  <2>1. CASE n = 0
    <3>1. NextLcn(rl, runs).lcn = 0
      BY <1>4, <2>1, NextLcnIs
    <3>2. m = Len(C)
      BY <1>2, <1>4, <2>1
    <3> QED BY <3>1, <3>2 DEF C
  <2>2. CASE n # 0
    <3>1. 1 \in 1..n /\ 0 \in 0..(L(1) - 1) /\ 1 - 1 = 0
      BY <1>1, <2>2
    <3>2. NextLcn(rl, runs) = [rl |-> RunRl(runs, 1, 0), lcn |-> S(1)]
      BY <1>4, <2>2, NextLcnIs DEF S
    <3>3. At(runs, RunRl(runs, 1, 0), B[1 - 1] + 0 + 1) /\ C[B[1 - 1] + 0 + 1] = S(1) + 0
      BY <1>3, <3>1
    <3>4. B[1 - 1] + 0 + 1 = m + 1 /\ S(1) + 0 = S(1)
      BY <1>1, <1>2, <1>4, <3>1
    <3>5. m # Len(C)
      <4>1. B[1] = B[1 - 1] + L(1) /\ B[1] <= B[n] /\ B[1] \in Nat /\ L(1) \in Nat \ {0} /\ B[n] \in Nat
        <5>1. 1 \in 0..n /\ n \in 0..n /\ 1 <= n
          BY <1>1, <3>1
        <5> QED BY <1>1, <1>2, <3>1, <5>1
      <4> QED BY <1>2, <1>4, <4>1
    <3> QED BY <3>2, <3>3, <3>4, <3>5 DEF C
  <2> QED BY <2>1, <2>2
<1>5. ASSUME NEW j \in 1..n, NEW a \in 0..(L(j) - 1), rl = RunRl(runs, j, a), m = B[j - 1] + a + 1
      PROVE  Goal
  <2>0. /\ a \in Nat /\ j - 1 \in 0..n /\ j \in 0..n /\ n \in 0..n /\ j <= n /\ L(j) \in Nat \ {0}
        /\ S(j) \in Nat /\ S(j) + L(j) <= WordValues /\ B[j - 1] \in Nat /\ B[n] \in Nat
        /\ B[j] = B[j - 1] + L(j) /\ B[j] <= B[n] /\ B[j] \in Nat
    <3>1. a \in Nat /\ j - 1 \in 0..n /\ j \in 0..n /\ n \in 0..n /\ j <= n
      BY <1>1
    <3> QED BY <1>1, <1>2, <3>1
  <2>1. CASE a # L(j) - 1
    <3>1. a + 1 \in 0..(L(j) - 1)
      <4> DEFINE l == L(j)
      <4>1. l \in Nat \ {0} /\ a \in 0..(l - 1) /\ a # l - 1
        BY <2>0, <2>1
      <4> HIDE DEF l
      <4>2. a + 1 \in 0..(l - 1)
        BY <4>1
      <4> QED BY <4>2 DEF l
    <3>2. NextLcn(rl, runs) = [rl |-> RunRl(runs, j, a + 1), lcn |-> (S(j) + a + 1) % WordValues]
      BY <1>5, <2>0, <2>1, NextLcnIs DEF L, S
    <3>3. At(runs, RunRl(runs, j, a + 1), B[j - 1] + (a + 1) + 1) /\ C[B[j - 1] + (a + 1) + 1] = S(j) + (a + 1)
      BY <1>3, <3>1
    <3>4. B[j - 1] + (a + 1) + 1 = m + 1 /\ S(j) + (a + 1) = S(j) + a + 1
      <4> DEFINE p == B[j - 1]
                 s == S(j)
      <4>1. p \in Nat /\ s \in Nat /\ a \in Nat /\ m = p + a + 1
        BY <1>5, <2>0
      <4> HIDE DEF p, s
      <4>2. p + (a + 1) + 1 = m + 1 /\ s + (a + 1) = s + a + 1
        BY <4>1
      <4> QED BY <4>2 DEF p, s
    <3>5. (S(j) + a + 1) % WordValues = S(j) + a + 1
      <4> DEFINE x == S(j) + a + 1
      <4>1. WordValues \in Nat \ {0}
        BY RunlistAssumption
      <4>2. x \in 0..(WordValues - 1)
        <5> DEFINE s == S(j)
                   l == L(j)
        <5>1. s \in Nat /\ l \in Nat /\ a \in Nat /\ a + 1 \in 0..(l - 1) /\ s + l <= WordValues
          BY <2>0, <3>1
        <5> HIDE DEF s, l
        <5>2. s + a + 1 \in 0..(WordValues - 1)
          BY <4>1, <5>1
        <5> QED BY <5>2 DEF s
      <4> HIDE DEF x
      <4>3. x % WordValues = x
        BY <4>1, <4>2
      <4> QED BY <4>3 DEF x
    <3>6. m # Len(C)
      <4> DEFINE p == B[j - 1]
                 l == L(j)
                 b == B[j]
                 e == B[n]
      <4>1. p \in Nat /\ l \in Nat /\ b \in Nat /\ e \in Nat /\ b = p + l /\ b <= e
        BY <2>0
      <4>2. Len(C) = e /\ m = p + a + 1 /\ a \in Nat /\ a + 1 \in 0..(l - 1)
        BY <1>2, <1>5, <2>0, <3>1
      <4> HIDE DEF p, l, b, e
      <4> QED BY <4>1, <4>2
    <3> QED BY <3>2, <3>3, <3>4, <3>5, <3>6
  <2>2. CASE a = L(j) - 1 /\ j # n
    <3>1. j + 1 \in 1..n /\ (j + 1) - 1 = j
      BY <1>1, <2>2
    <3>2. 0 \in 0..(L(j + 1) - 1) /\ L(j + 1) \in Nat \ {0} /\ S(j + 1) \in Nat
      BY <1>1, <3>1
    <3>3. NextLcn(rl, runs) = [rl |-> RunRl(runs, j + 1, 0), lcn |-> S(j + 1)]
      BY <1>5, <2>0, <2>2, NextLcnIs DEF L, S
    <3>4. /\ At(runs, RunRl(runs, j + 1, 0), B[(j + 1) - 1] + 0 + 1)
          /\ C[B[(j + 1) - 1] + 0 + 1] = S(j + 1) + 0
      BY <1>3, <3>1, <3>2
    <3>5. B[(j + 1) - 1] + 0 + 1 = m + 1 /\ S(j + 1) + 0 = S(j + 1)
      <4> DEFINE p == B[j - 1]
                 q == B[j]
                 s == S(j + 1)
                 l == L(j)
      <4>1. p \in Nat /\ q \in Nat /\ s \in Nat /\ l \in Nat /\ q = p + l /\ a = l - 1 /\ m = p + a + 1
        BY <1>5, <2>0, <2>2, <3>2
      <4> HIDE DEF p, q, s, l
      <4>2. q + 0 + 1 = m + 1 /\ s + 0 = s
        BY <4>1
      <4> QED BY <3>1, <4>2 DEF q, s
    <3>6. m # Len(C)
      <4>1. j + 1 \in 0..n /\ j + 1 <= n
        BY <1>1, <3>1
      <4>2. B[j + 1] = B[(j + 1) - 1] + L(j + 1) /\ B[j + 1] <= B[n] /\ B[j + 1] \in Nat
        <5>1. \A i \in 0..n : i <= n => B[i] <= B[n]
          BY <1>2, <2>0
        <5>2. B[j + 1] \in Nat /\ \A i \in 1..n : B[i] = B[i - 1] + L(i)
          BY <1>2, <4>1
        <5>3. B[j + 1] <= B[n]
          BY <4>1, <5>1, Zenon
        <5>4. B[j + 1] = B[(j + 1) - 1] + L(j + 1)
          BY <3>1, <5>2, Zenon
        <5> QED BY <5>2, <5>3, <5>4, Zenon
      <4> DEFINE p == B[j - 1]
                 q == B[j]
                 next == B[j + 1]
                 l == L(j)
                 more == L(j + 1)
                 N == Len(C)
      <4>3. /\ p \in Nat /\ q \in Nat /\ l \in Nat /\ q = p + l /\ a = l - 1 /\ m = p + a + 1
            /\ next = q + more /\ more \in Nat \ {0} /\ next <= N /\ N \in Nat
        BY <1>2, <1>5, <2>0, <2>2, <3>1, <3>2, <4>2
      <4> HIDE DEF p, q, next, l, more, N
      <4>4. m # N
        BY <4>3
      <4> QED BY <4>4 DEF N
    <3> QED BY <3>3, <3>4, <3>5, <3>6
  <2>3. CASE a = L(j) - 1 /\ j = n
    <3>1. NextLcn(rl, runs).lcn = 0
      <4>1. NextLcn(RunRl(runs, j, a), runs) = [rl |-> RunRl(runs, j, a), lcn |-> 0]
        BY <2>0, <2>3, NextLcnIs DEF L
      <4> QED BY <1>5, <4>1
    <3>2. m = Len(C)
      <4> DEFINE p == B[j - 1]
                 q == B[j]
                 l == L(j)
      <4>1. p \in Nat /\ q \in Nat /\ l \in Nat /\ q = p + l /\ a = l - 1 /\ m = p + a + 1 /\ Len(C) = q
        BY <1>2, <1>5, <2>0, <2>3
      <4> HIDE DEF p, q, l
      <4> QED BY <4>1
    <3> QED BY <3>1, <3>2
  <2> QED BY <2>1, <2>2, <2>3
<1>6. CASE \E j \in 1..n : \E a \in 0..(L(j) - 1) : rl = RunRl(runs, j, a) /\ m = B[j - 1] + a + 1
  <2>1. Goal
    BY <1>5, <1>6
  <2> QED BY <2>1 DEF C
<1> QED BY <1>4, <1>6 DEF At, B, L

LEMMA StepsAre ==
  ASSUME NEW runs, OnVolume(runs), Decodable(runs)
  PROVE  /\ Steps(runs)[0] = [rl |-> FreshRl, lcn |-> 0]
         /\ \A k \in 1..(Len(Clusters(runs)) + 1) : Steps(runs)[k] = NextLcn(Steps(runs)[k - 1].rl, runs)
<1> DEFINE n == Len(Clusters(runs)) + 1
           Begin == [rl |-> FreshRl, lcn |-> 0]
           Lists == {FreshRl} \cup {RunRl(runs, j, a) : j \in 1..Len(runs), a \in Nat}
           S == {[rl |-> r, lcn |-> c] : r \in Lists, c \in Int}
           F == [x \in S \X Nat |-> NextLcn(x[1].rl, runs)]
           Solves(f) == f = [k \in 0..n |-> IF k = 0 THEN [rl |-> FreshRl, lcn |-> 0] ELSE NextLcn(f[k - 1].rl, runs)]
<1>1. n \in Nat
  BY FileIs
<1>2. Begin \in S
  OBVIOUS
<1>3. \A r \in Lists, c \in Int : [rl |-> r, lcn |-> c] \in S
  <2> HIDE DEF Lists
  <2> QED OBVIOUS
<1>4. \A s \in S : s.rl \in Lists
  OBVIOUS
<1> HIDE DEF S
<1>5. FreshRl \in Lists /\ \A j \in 1..Len(runs), a \in Nat : RunRl(runs, j, a) \in Lists
  OBVIOUS
<1>6. \A r \in Lists : r = FreshRl \/ \E j \in 1..Len(runs), a \in Nat : r = RunRl(runs, j, a)
  OBVIOUS
<1> HIDE DEF Lists
<1>7. \A r \in Lists : NextLcn(r, runs) \in S
  <2> SUFFICES ASSUME NEW r \in Lists PROVE NextLcn(r, runs) \in S
    OBVIOUS
  <2>3. CASE r = FreshRl
    <3>1. CASE Len(runs) = 0
      <4>1. NextLcn(r, runs) = [rl |-> FreshRl, lcn |-> 0]
        BY <2>3, <3>1, NextLcnIs
      <4> QED BY <1>3, <1>5, <4>1
    <3>2. CASE Len(runs) # 0
      <4>1. NextLcn(r, runs) = [rl |-> RunRl(runs, 1, 0), lcn |-> RunStart(runs)[1]]
        BY <2>3, <3>2, NextLcnIs
      <4>2. 1 \in 1..Len(runs) /\ 0 \in Nat /\ RunStart(runs)[1] \in Int
        BY <3>2, VolumeIs
      <4> QED BY <1>3, <1>5, <4>1, <4>2
    <3> QED BY <3>1, <3>2
  <2>4. ASSUME NEW j \in 1..Len(runs), NEW a \in Nat, r = RunRl(runs, j, a)
        PROVE  NextLcn(r, runs) \in S
    <3>1. CASE a # runs[j].len - 1
      <4> DEFINE x == RunStart(runs)[j] + a + 1
      <4>1. NextLcn(r, runs) = [rl |-> RunRl(runs, j, a + 1), lcn |-> x % WordValues]
        BY <2>4, <3>1, NextLcnIs
      <4>2. x \in Nat /\ WordValues \in Nat \ {0} /\ a + 1 \in Nat
        BY VolumeIs, RunlistAssumption
      <4> HIDE DEF x
      <4>3. x % WordValues \in Int
        BY <4>2
      <4>4. RunRl(runs, j, a + 1) \in Lists
        BY <1>5, <4>2
      <4> QED BY <1>3, <4>1, <4>3, <4>4
    <3>2. CASE a = runs[j].len - 1 /\ j # Len(runs)
      <4>1. NextLcn(r, runs) = [rl |-> RunRl(runs, j + 1, 0), lcn |-> RunStart(runs)[j + 1]]
        BY <2>4, <3>2, NextLcnIs
      <4>2. j + 1 \in 1..Len(runs) /\ 0 \in Nat
        BY <3>2, VolumeIs
      <4>3. RunStart(runs)[j + 1] \in Int
        BY <4>2, VolumeIs
      <4>4. RunRl(runs, j + 1, 0) \in Lists
        BY <1>5, <4>2
      <4> QED BY <1>3, <4>1, <4>3, <4>4
    <3>3. CASE a = runs[j].len - 1 /\ j = Len(runs)
      <4>1. NextLcn(r, runs) = [rl |-> r, lcn |-> 0]
        BY <2>4, <3>3, NextLcnIs
      <4> QED BY <1>3, <4>1
    <3> QED BY <3>1, <3>2, <3>3
  <2> QED BY <1>6, <2>3, <2>4
<1> HIDE DEF n, Begin
<1>8. F \in [S \X Nat -> S]
  BY <1>7, <1>4
<1>9. \A s \in S, k \in Nat : F[<<s, k>>] = NextLcn(s.rl, runs)
  OBVIOUS
<1> HIDE DEF F
<1>10. PICK f \in [0..n -> S] : f[0] = Begin /\ \A k \in 1..n : f[k] = F[<<f[k - 1], k>>]
  <2>1. \E f \in [0..n -> S] : Comes(f, n, Begin, F)
    BY <1>1, <1>2, <1>8, Recursion, Zenon
  <2> QED BY <2>1 DEF Comes
<1>11. \A k \in 1..n : f[k] = NextLcn(f[k - 1].rl, runs)
  <2>1. \A k \in 1..n : k - 1 \in 0..n /\ k \in Nat
    BY <1>1
  <2> QED BY <1>9, <1>10, <2>1
<1>12. Solves(f)
  <2>1. \A k \in 0..n : k # 0 => k \in 1..n
    BY <1>1
  <2>2. \A k \in 0..n : f[k] = IF k = 0 THEN [rl |-> FreshRl, lcn |-> 0] ELSE NextLcn(f[k - 1].rl, runs)
    BY <1>10, <1>11, <2>1 DEF Begin
  <2> QED BY <1>10, <2>2
<1> DEFINE g == Steps(runs)
<1>13. Solves(g)
  BY <1>12 DEF Steps, n
<1> HIDE DEF g
<1>14. 0 \in 0..n /\ \A k \in 1..n : k \in 0..n /\ k # 0
  BY <1>1
<1>15. g[0] = [rl |-> FreshRl, lcn |-> 0] /\ \A k \in 1..n : g[k] = NextLcn(g[k - 1].rl, runs)
  BY <1>13, <1>14
<1> QED BY <1>15 DEF g, n

\* A walk visits the clusters in order and ends.
LEMMA WalkIs ==
  ASSUME NEW runs, OnVolume(runs), Decodable(runs)
  PROVE  Walk(runs) = Append(Clusters(runs), 0)
<1> DEFINE C == Clusters(runs)
           N == Len(C)
           step == Steps(runs)
           T == {m \in 0..N : At(runs, step[m].rl, m)}
<1>1. C \in Seq(Int) /\ N \in Nat
  BY FileIs
<1>2. step[0].rl = FreshRl /\ \A k \in 1..(N + 1) : step[k] = NextLcn(step[k - 1].rl, runs)
  BY StepsAre
<1>3. Walk(runs) = [k \in 1..(N + 1) |-> step[k].lcn]
  BY DEF Walk
<1>4. ASSUME NEW m \in 0..N, At(runs, step[m].rl, m)
      PROVE  /\ m # N => At(runs, step[m + 1].rl, m + 1) /\ step[m + 1].lcn = C[m + 1]
             /\ m = N => step[m + 1].lcn = 0
  <2>1. m + 1 \in 1..(N + 1) /\ (m + 1) - 1 = m
    BY <1>1
  <2>2. step[m + 1] = NextLcn(step[m].rl, runs)
    <3>1. step[m + 1] = NextLcn(step[(m + 1) - 1].rl, runs)
      BY <1>2, <2>1, Zenon
    <3> QED BY <2>1, <3>1
  <2>3. /\ m # N => At(runs, NextLcn(step[m].rl, runs).rl, m + 1) /\ NextLcn(step[m].rl, runs).lcn = C[m + 1]
        /\ m = N => NextLcn(step[m].rl, runs).lcn = 0
    BY <1>4, OneStep
  <2> QED BY <2>2, <2>3
<1> HIDE DEF C, N, step
<1>5. 0 \in T
  BY <1>1, <1>2 DEF At
<1>6. ASSUME NEW k \in 1..N, k - 1 \in T
      PROVE  k \in T
  <2>1. k - 1 \in 0..N /\ k - 1 # N /\ (k - 1) + 1 = k /\ k \in 0..N
    BY <1>1
  <2>2. At(runs, step[(k - 1) + 1].rl, (k - 1) + 1)
    BY <1>4, <1>6, <2>1
  <2> QED BY <2>1, <2>2
<1>7. \A m \in 0..N : At(runs, step[m].rl, m)
  <2> HIDE DEF T
  <2>1. 0..N \subseteq T
    BY <1>1, <1>5, <1>6, Reaches
  <2> QED BY <2>1 DEF T
<1>8. \A k \in 1..(N + 1) : step[k].lcn = IF k = N + 1 THEN 0 ELSE C[k]
  <2> SUFFICES ASSUME NEW k \in 1..(N + 1)
               PROVE  step[k].lcn = IF k = N + 1 THEN 0 ELSE C[k]
    OBVIOUS
  <2>1. k - 1 \in 0..N /\ (k - 1) + 1 = k /\ (k - 1 = N <=> k = N + 1)
    BY <1>1
  <2>2. At(runs, step[k - 1].rl, k - 1)
    BY <1>7, <2>1
  <2>3. (k - 1 # N => step[(k - 1) + 1].lcn = C[(k - 1) + 1]) /\ (k - 1 = N => step[(k - 1) + 1].lcn = 0)
    BY <1>4, <2>1, <2>2
  <2> QED BY <2>1, <2>3
<1>9. Append(C, 0) = [k \in 1..(N + 1) |-> IF k = N + 1 THEN 0 ELSE C[k]]
  <2>1. Append(C, 0) \in Seq(Int) /\ Len(Append(C, 0)) = N + 1 /\ Append(C, 0)[N + 1] = 0
    BY <1>1 DEF N
  <2>2. \A k \in 1..N : Append(C, 0)[k] = C[k]
    BY <1>1 DEF N
  <2>3. DOMAIN Append(C, 0) = 1..(N + 1)
    BY <2>1
  <2>4. \A k \in 1..(N + 1) : Append(C, 0)[k] = IF k = N + 1 THEN 0 ELSE C[k]
    <3>1. \A k \in 1..(N + 1) : k # N + 1 => k \in 1..N
      BY <1>1
    <3> QED BY <2>1, <2>2, <3>1
  <2> DEFINE s == Append(C, 0)
  <2>5. s = [k \in DOMAIN s |-> s[k]]
    <3>1. \A q \in Seq(Int) : q = [k \in DOMAIN q |-> q[k]]
      OBVIOUS
    <3> QED BY <2>1, <3>1, Zenon
  <2> QED BY <2>3, <2>4, <2>5
<1> QED BY <1>3, <1>8, <1>9 DEF C

LEMMA FreshIs == Reset(FreshRl).next = 0
BY DEF Reset, FreshRl

\* A search finds the cluster, and is in its run, at the first place of that.
LEMMA SeekIs ==
  ASSUME NEW runs, OnVolume(runs), Decodable(runs), NEW v \in 0..Len(Clusters(runs)),
         NEW rl, Reset(rl).next = 0
  PROVE  /\ v = Len(Clusters(runs)) => SeekVcn(rl, runs, v).lcn = 0
         /\ v # Len(Clusters(runs)) =>
              /\ SeekVcn(rl, runs, v).lcn = Clusters(runs)[v + 1]
              /\ \E k \in 1..Len(runs) :
                   /\ Before(runs)[k - 1] <= v /\ v < Before(runs)[k]
                   /\ SeekVcn(rl, runs, v).rl = RunRl(runs, k, 0)
<1> DEFINE n == Len(runs)
           B == Before(runs)
           C == Clusters(runs)
           within == {k \in DOMAIN runs : v < B[k]}
           k == Least(within)
           found == Rounds(rl, runs)[k]
<1>1. /\ n \in Nat /\ DOMAIN runs = 1..n
      /\ \A j \in 1..n : runs[j].len \in Nat \ {0} /\ RunStart(runs)[j] \in Nat
                         /\ RunStart(runs)[j] + runs[j].len <= WordValues
  BY VolumeIs
<1>2. /\ Len(C) \in Nat /\ Len(C) = B[n] /\ B[0] = 0 /\ \A j \in 0..n : B[j] \in Nat
      /\ \A j \in 1..n : B[j] = B[j - 1] + runs[j].len
      /\ \A i, j \in 0..n : i <= j => B[i] <= B[j]
      /\ \A j \in 1..n : \A i \in 1..runs[j].len : C[B[j - 1] + i] = RunStart(runs)[j] + i - 1
  BY FileIs
<1>3. SeekVcn(rl, runs, v) =
        IF within = {} THEN [rl |-> NoRun(Rounds(rl, runs)[Len(runs)]), lcn |-> 0]
        ELSE [rl |-> found, lcn |-> (found.start + v - B[k - 1]) % WordValues]
  BY DEF SeekVcn, Least
<1>4. ASSUME v = Len(C)
      PROVE  SeekVcn(rl, runs, v).lcn = 0
  <2>1. within = {}
    <3> SUFFICES ASSUME NEW j \in 1..n, v < B[j] PROVE FALSE
      BY <1>1
    <3>1. j \in 0..n /\ n \in 0..n /\ j <= n
      BY <1>1
    <3>2. B[j] <= B[n] /\ B[j] \in Nat /\ B[n] \in Nat
      BY <1>2, <3>1
    <3> HIDE DEF B, C
    <3> QED BY <1>2, <1>4, <3>2
  <2> QED BY <1>3, <2>1
<1>5. ASSUME v # Len(C)
      PROVE  /\ SeekVcn(rl, runs, v).lcn = C[v + 1]
             /\ \E j \in 1..n : B[j - 1] <= v /\ v < B[j] /\ SeekVcn(rl, runs, v).rl = RunRl(runs, j, 0)
  <2>1. v \in Nat /\ v < B[n]
    <3> HIDE DEF B, C
    <3>1. v \in 0..Len(C)
      BY DEF C
    <3> QED BY <1>2, <1>5, <3>1
  <2>2. within # {} /\ within \subseteq Nat
    <3>1. n # 0
      BY <1>2, <2>1
    <3>2. n \in DOMAIN runs
      BY <1>1, <3>1
    <3> QED BY <1>1, <2>1, <3>2
  <2>3. k \in within /\ \A j \in within : k <= j
    <3> HIDE DEF within
    <3> QED BY <2>2, LeastIsLeast
  <2>4. k \in 1..n /\ v < B[k]
    <3> HIDE DEF k
    <3> QED BY <1>1, <2>3
  <2>5. SeekVcn(rl, runs, v) = [rl |-> found, lcn |-> (found.start + v - B[k - 1]) % WordValues]
    BY <1>3, <2>2
  <2>6. \A j \in 1..n : v < B[j] => k <= j
    <3> HIDE DEF k
    <3> QED BY <1>1, <2>3
  <2> HIDE DEF k, within, B
  <2>7. k - 1 \in 0..n /\ k \in 0..n /\ k # 0
    BY <1>1, <2>4
  <2>8. B[k - 1] \in Nat /\ B[k] \in Nat /\ B[k] = B[k - 1] + runs[k].len
    BY <1>2, <2>4, <2>7
  <2>9. B[k - 1] <= v
    <3>1. CASE k = 1
      BY <1>2, <2>1, <2>8, <3>1
    <3>2. CASE k # 1
      <4>1. k - 1 \in 1..n /\ ~(k <= k - 1)
        BY <1>1, <2>4, <3>2
      <4>2. ~(v < B[k - 1])
        BY <2>6, <4>1
      <4> QED BY <2>1, <2>8, <4>2
    <3> QED BY <3>1, <3>2
  <2>10. found = RunRl(runs, k, 0)
    BY <2>7, RoundsAre
  <2>11. found.start = RunStart(runs)[k]
    BY <2>10 DEF RunRl
  <2> DEFINE s == RunStart(runs)[k]
             p == B[k - 1]
             l == runs[k].len
             i == v - p + 1
  <2>12. s \in Nat /\ l \in Nat \ {0} /\ s + l <= WordValues /\ WordValues \in Nat \ {0}
    BY <1>1, <2>4, RunlistAssumption
  <2>13. p \in Nat /\ p <= v /\ v < p + l
    BY <2>4, <2>8, <2>9
  <2>14. C[p + i] = s + i - 1 \/ i \notin 1..l
    <3> HIDE DEF i
    <3> QED BY <1>2, <2>4
  <2> HIDE DEF s, p, l, C
  <2>15. i \in 1..l /\ p + i = v + 1 /\ s + i - 1 = s + v - p /\ s + v - p \in 0..(WordValues - 1)
    BY <2>1, <2>12, <2>13
  <2> DEFINE x == s + v - p
  <2> HIDE DEF i, x
  <2>16. x % WordValues = x
    <3>1. x \in 0..(WordValues - 1)
      BY <2>15 DEF x
    <3> QED BY <2>12, <3>1
  <2>17. C[v + 1] = x
    BY <2>14, <2>15 DEF x
  <2>18. SeekVcn(rl, runs, v).lcn = x % WordValues
    BY <2>5, <2>11 DEF x, s, p
  <2>19. SeekVcn(rl, runs, v).rl = RunRl(runs, k, 0)
    BY <2>5, <2>10
  <2> QED BY <2>4, <2>9, <2>16, <2>17, <2>18, <2>19
<1> QED BY <1>4, <1>5

\* From a cluster that begins its run, the next step is to the cluster behind it.
LEMMA SeekGoesOn ==
  ASSUME NEW runs, OnVolume(runs), Decodable(runs), NEW v \in RunStarts(runs),
         v \in 0..Len(Clusters(runs)), v # Len(Clusters(runs))
  PROVE  NextLcn(SeekVcn(FreshRl, runs, v).rl, runs).lcn = Append(Clusters(runs), 0)[v + 2]
<1> DEFINE n == Len(runs)
           B == Before(runs)
           C == Clusters(runs)
           rl == SeekVcn(FreshRl, runs, v).rl
<1>1. /\ n \in Nat /\ runs \in Seq(Run) /\ DOMAIN runs = 1..n /\ \A j \in 1..n : runs[j].len \in Nat \ {0}
  BY VolumeIs
<1>2. /\ C \in Seq(Int) /\ Len(C) \in Nat /\ \A j \in 0..n : B[j] \in Nat
      /\ \A i, j \in 0..n : i <= j => B[i] <= B[j]
  BY FileIs
<1>3. PICK k \in 1..n : B[k - 1] <= v /\ v < B[k] /\ rl = RunRl(runs, k, 0)
  BY SeekIs, FreshIs
<1>4. PICK j \in 1..n : v = B[j - 1]
  <2>1. PICK j \in 1..n : v = Len(ClustersUpto(runs)[j - 1])
    BY <1>1 DEF RunStarts
  <2>2. j - 1 \in 0..n
    BY <1>1
  <2>3. Len(ClustersUpto(runs)[j - 1]) = B[j - 1]
    BY <1>1, <2>2, ClustersAre
  <2> QED BY <2>1, <2>3
<1> HIDE DEF B, rl
<1>5. v = B[k - 1]
  <2>1. k - 1 \in 0..n /\ k \in 0..n /\ j - 1 \in 0..n /\ (k - 1 <= j - 1 \/ j - 1 <= k - 1) /\ (k <= j - 1 \/ j - 1 <= k - 1)
    BY <1>1
  <2>2. B[k - 1] \in Nat /\ B[k] \in Nat /\ B[j - 1] \in Nat
    BY <1>2, <2>1
  <2>3. ~(k <= j - 1)
    <3>1. k <= j - 1 => B[k] <= B[j - 1]
      BY <1>2, <2>1
    <3> QED BY <1>3, <1>4, <2>2, <3>1
  <2>4. B[j - 1] <= B[k - 1]
    <3>1. j - 1 <= k - 1 => B[j - 1] <= B[k - 1]
      BY <1>2, <2>1
    <3> QED BY <2>1, <2>3, <3>1
  <2> QED BY <1>3, <1>4, <2>2, <2>4
<1>6. At(runs, rl, v + 1)
  <2>1. 0 \in 0..(runs[k].len - 1) /\ v + 1 = B[k - 1] + 0 + 1
    <3>1. B[k - 1] \in Nat /\ runs[k].len \in Nat \ {0}
      <4>1. k - 1 \in 0..n
        BY <1>1
      <4> QED BY <1>1, <1>2, <4>1
    <3> QED BY <1>5, <3>1
  <2> QED BY <1>3, <2>1 DEF At, B
<1>7. v + 1 \in 0..Len(C)
  BY <1>2
<1>8. /\ v + 1 # Len(C) => NextLcn(rl, runs).lcn = C[(v + 1) + 1]
      /\ v + 1 = Len(C) => NextLcn(rl, runs).lcn = 0
  BY <1>6, <1>7, OneStep
<1>9. CASE v + 1 = Len(C)
  <2>1. Append(C, 0)[Len(C) + 1] = 0
    BY <1>2
  <2>2. v + 2 = Len(C) + 1
    BY <1>2, <1>9
  <2> QED BY <1>8, <1>9, <2>1, <2>2 DEF rl
<1>10. CASE v + 1 # Len(C)
  <2>1. v + 2 \in 1..Len(C) /\ (v + 1) + 1 = v + 2
    BY <1>2, <1>7, <1>10
  <2>2. Append(C, 0)[v + 2] = C[v + 2]
    BY <1>2, <2>1
  <2> QED BY <1>8, <1>10, <2>1, <2>2 DEF rl
<1> QED BY <1>9, <1>10

LEMMA AllRunsRight == RunsRight
<1> SUFFICES ASSUME NEW runs \in RunLists, Decodable(runs)
             PROVE  /\ Walk(runs) = Append(Clusters(runs), 0)
                    /\ \A v \in 0..Len(Clusters(runs)) :
                         LET found == SeekVcn(FreshRl, runs, v)
                         IN  /\ found.lcn = Append(Clusters(runs), 0)[v + 1]
                             /\ v < Len(Clusters(runs)) /\ v \in RunStarts(runs) =>
                                  NextLcn(found.rl, runs).lcn = Append(Clusters(runs), 0)[v + 2]
  BY DEF RunsRight
<1>1. OnVolume(runs)
  BY RunListsAssumption
<1>2. Walk(runs) = Append(Clusters(runs), 0)
  BY <1>1, WalkIs
<1> DEFINE C == Clusters(runs)
<1>3. C \in Seq(Int) /\ Len(C) \in Nat
  BY <1>1, FileIs
<1>4. ASSUME NEW v \in 0..Len(C)
      PROVE  SeekVcn(FreshRl, runs, v).lcn = Append(C, 0)[v + 1]
  <2>1. CASE v = Len(C)
    <3>1. SeekVcn(FreshRl, runs, v).lcn = 0
      BY <1>1, <2>1, SeekIs, FreshIs
    <3> HIDE DEF C
    <3>2. Append(C, 0)[Len(C) + 1] = 0
      BY <1>3
    <3> QED BY <2>1, <3>1, <3>2
  <2>2. CASE v # Len(C)
    <3>1. SeekVcn(FreshRl, runs, v).lcn = C[v + 1]
      BY <1>1, <2>2, SeekIs, FreshIs
    <3> HIDE DEF C
    <3>2. v + 1 \in 1..Len(C)
      BY <1>3, <2>2
    <3>3. Append(C, 0)[v + 1] = C[v + 1]
      BY <1>3, <3>2
    <3> QED BY <3>1, <3>3
  <2> QED BY <2>1, <2>2
<1>5. ASSUME NEW v \in 0..Len(C), v < Len(C), v \in RunStarts(runs)
      PROVE  NextLcn(SeekVcn(FreshRl, runs, v).rl, runs).lcn = Append(C, 0)[v + 2]
  <2>1. v # Len(C)
    BY <1>3, <1>5
  <2> QED BY <1>1, <1>5, <2>1, SeekGoesOn
<1> QED BY <1>2, <1>4, <1>5
-----------------------------------------------------------------------------
(* Reading a file of NTFS                                                  *)

\* The code can decode the runs of all files.
FilesDecodable ==
  \A v \in NtfsNames : \A r \in DOMAIN VolumeOf[v].recs : Decodable(VolumeOf[v].recs[r].runs)

CallTyped ==
  call = [op |-> call.op, path |-> call.path, rest |-> call.rest, list |-> call.list, dir |-> call.dir,
          i |-> call.i, lfn |-> call.lfn, count |-> call.count, size |-> call.size,
          remain |-> call.remain, vcn |-> call.vcn, at |-> call.at, from |-> call.from,
          out |-> call.out, cached |-> call.cached, tail |-> call.tail]
RlTyped(rl) == rl = [next |-> rl.next, start |-> rl.start, at |-> rl.at, size |-> rl.size]

Recs == DOMAIN Volume.recs
Finding == {"stat", "open", "list"}

\* A read has begun at the position of the file, and has copied nothing.
AtStart(offset) ==
  call.remain = call.size /\ call.from = offset /\ call.at = offset % ClusterSize /\ call.out = <<>>

\* What a read has copied is what it should be.
SectorsRight(out) ==
  /\ Len(out) = call.size
  /\ \A p \in 1..call.size :
       BehindValid(attrs, call.from, call.from + p - 1) \/ out[p] = NtfsSector(attrs, call.from + p - 1)

\* A round of the loop copies all that was asked for, or leaves the buffers.
NtfsInv ==
  /\ CallTyped /\ vol \in NtfsNames /\ RlTyped(data_rl) /\ attrs \in Recs /\ n_offset \in Nat
  /\ pc \in {"record", "root", "blocks", "stat", "open"} => call.op \in Finding
  /\ pc \in {"record", "stat", "open"} => call.dir \in Recs
  /\ pc = "data" => call.size \in Int /\ AtStart(n_offset)
  /\ pc = "copy blocks" =>
       call.size \in Int /\ call.remain \in Int /\ call.at \in 0..(ClusterSize - 1) /\ ~Record.resident
  /\ pc = "copy blocks" /\ trust # "spoilt" =>
       \/ /\ AtStart(n_offset) /\ n_offset \div ClusterSize < Len(Clusters(Record.runs))
          /\ call.dir = Clusters(Record.runs)[(n_offset \div ClusterSize) + 1]
       \/ call.remain = 0 /\ call.size \in Nat /\ SectorsRight(call.out)
  /\ pc = "done" /\ call.op = "read" /\ result.kind = "data" /\ trust # "spoilt" =>
       result.n = call.size /\ SectorsRight(result.out)

LEMMA NtfsVolumeIs ==
  ASSUME vol \in NtfsNames
  PROVE  /\ OnNtfsVolume(Volume) /\ Recs \subseteq Nat /\ 0 \in Recs /\ RootRecord \in Recs
         /\ \A r \in Recs : /\ Volume.recs[r].index \in Seq(Recs) /\ OnVolume(Volume.recs[r].runs)
                            /\ Volume.recs[r].resident \in BOOLEAN
                            /\ Volume.recs[r].size \in Nat /\ Volume.recs[r].valid \in Nat
         /\ \A b : IndexOf(b) \in Seq(Recs)
<1>1. OnNtfsVolume(Volume)
  BY NtfsVolumesAssumption DEF Volume
<1>2. /\ Recs \subseteq Nat /\ 0 \in Recs /\ RootRecord \in Recs
      /\ \A r \in Recs : /\ Volume.recs[r].index \in Seq(Recs) /\ OnVolume(Volume.recs[r].runs)
                         /\ Volume.recs[r].resident \in BOOLEAN
                         /\ Volume.recs[r].size \in Nat /\ Volume.recs[r].valid \in Nat
  BY <1>1, Zenon DEF OnNtfsVolume, Recs
<1>3. \A b \in DOMAIN Volume.blocks : Volume.blocks[b] \in Seq(Recs)
  BY <1>1, Zenon DEF OnNtfsVolume, Recs
<1>4. \A b : IndexOf(b) \in Seq(Recs)
  BY <1>3 DEF IndexOf
<1> QED BY <1>1, <1>2, <1>4

LEMMA ReadRecordKeeps ==
  ASSUME NEW index \in Recs, NEW got, ReadRecord(index, got), vol \in NtfsNames, UNCHANGED vol,
         attrs \in Recs, RlTyped(data_rl)
  PROVE  attrs' \in Recs /\ RlTyped(data_rl')
<1> DEFINE new == FoundAt[vol][index]
<1>1. UNCHANGED <<attrs, data_rl>> \/ (attrs' = new /\ Good(new) /\ data_rl' = FreshRl)
  BY DEF ReadRecord, recordVars, Parsed
<1>2. new # Nothing => new \in Recs
  <2> DEFINE places == {i \in Recs : Clusters(Volume.mft)[i + 1] = LcnOfRecord[vol][index]}
  <2>1. new = IF places = {} THEN Nothing ELSE CHOOSE i \in places : TRUE
    BY DEF FoundAt, Recs, Volume
  <2> QED BY <2>1
<1>3. RlTyped(FreshRl)
  BY DEF RlTyped, FreshRl
<1> QED BY <1>1, <1>2, <1>3 DEF Good

LEMMA SearchedKeeps ==
  ASSUME NEW index \in Seq(Recs), NEW count, Searched(index, count), CallTyped, call.op \in Finding,
         Recs \subseteq Nat
  PROVE  /\ CallTyped' /\ call'.op = call.op
         /\ pc' = "blocks" \/ (pc' \in {"record", "stat", "open"} /\ call'.dir \in Recs)
<1>1. CASE Hits(index) # {}
  <2>1. Hits(index) \subseteq DOMAIN index
    BY DEF Hits, ShownIn
  <2>2. Least(Hits(index)) \in DOMAIN index
    BY <1>1, <2>1, LeastIsLeast
  <2> DEFINE fd == index[Least(Hits(index))]
  <2>3. fd \in Recs
    BY <2>2
  <2>4. NtfsFound(fd)
    BY <1>1 DEF Searched
  <2> HIDE DEF fd
  <2>5. /\ call' = [call EXCEPT !.rest = Tail(call.rest), !.dir = fd, !.list = (Tail(call.rest) = <<>> /\ call.op = "list")]
        /\ pc' = IF Tail(call.rest) # <<>> \/ call.op = "list" THEN "record" ELSE call.op
    BY <2>4 DEF NtfsFound, GoOn
  <2>6. CallTyped' /\ call'.op = call.op /\ call'.dir = fd
    BY <2>5 DEF CallTyped
  <2> QED BY <2>3, <2>5, <2>6 DEF Finding
<1>2. CASE Hits(index) = {}
  BY <1>2 DEF Searched, GoOn, CallTyped
<1> QED BY <1>1, <1>2

\* A step that is not of a read, and leaves what a read needs
LEMMA NtfsInvKept ==
  ASSUME NtfsInv, UNCHANGED vol, CallTyped', RlTyped(data_rl'), attrs' \in Recs, n_offset' \in Nat,
         pc' \in {"record", "root", "blocks", "stat", "open"} => call'.op \in Finding,
         pc' \in {"record", "stat", "open"} => call'.dir \in Recs,
         pc' \notin {"data", "copy blocks"}, pc' = "done" => call'.op \in Finding
  PROVE  NtfsInv'
<1>1. Recs' = Recs
  BY DEF Recs, Volume
<1>2. pc' = "done" => call'.op # "read"
  BY DEF Finding
<1> QED BY <1>1, <1>2 DEF NtfsInv

LEMMA NtfsFindSteps ==
  ASSUME NtfsInv, FindRecord \/ FindInRoot \/ FindInBlock \/ Stat \/ Open
  PROVE  NtfsInv'
<1>1. /\ CallTyped /\ vol \in NtfsNames /\ RlTyped(data_rl) /\ attrs \in Recs /\ n_offset \in Nat
      /\ pc \in {"record", "root", "blocks", "stat", "open"} => call.op \in Finding
      /\ pc \in {"record", "stat", "open"} => call.dir \in Recs
  BY DEF NtfsInv
<1>2. Recs \subseteq Nat /\ (\A b : IndexOf(b) \in Seq(Recs)) /\ Record.index \in Seq(Recs)
  BY <1>1, NtfsVolumeIs DEF Record
<1>3. CASE FindRecord
  <2>1. PICK got \in Gots : /\ ReadRecord(call.dir, got)
                            /\ IF got = "negative" THEN Finish(NoResult) ELSE GoOn("root")
    BY <1>3 DEF FindRecord
  <2>2. pc = "record" /\ UNCHANGED <<vol, call, n_offset>>
    BY <1>3 DEF FindRecord
  <2>3. attrs' \in Recs /\ RlTyped(data_rl')
    BY <1>1, <2>1, <2>2, ReadRecordKeeps
  <2>4. pc' \in {"root", "done"}
    BY <2>1 DEF Finish, GoOn
  <2>5. CallTyped' /\ call'.op \in Finding
    BY <1>1, <2>2 DEF CallTyped
  <2> QED BY <1>1, <2>2, <2>3, <2>4, <2>5, NtfsInvKept
<1>4. CASE FindInRoot
  <2>1. pc = "root" /\ UNCHANGED <<vol, attrs, data_rl, n_offset>> /\ call.op \in Finding
    BY <1>1, <1>4 DEF FindInRoot
  <2>2. CASE UNCHANGED call /\ pc' \in {"done", "broken"}
    <3>1. CallTyped' /\ call'.op \in Finding
      BY <1>1, <2>1, <2>2 DEF CallTyped
    <3> QED BY <1>1, <2>1, <2>2, <3>1, NtfsInvKept
  <2>3. CASE \E count : Searched(Record.index, count)
    <3>1. /\ CallTyped' /\ call'.op = call.op
          /\ pc' = "blocks" \/ (pc' \in {"record", "stat", "open"} /\ call'.dir \in Recs)
      BY <1>1, <1>2, <2>1, <2>3, SearchedKeeps
    <3> QED BY <1>1, <2>1, <3>1, NtfsInvKept
  <2>4. (UNCHANGED call /\ pc' \in {"done", "broken"}) \/ (\E count : Searched(Record.index, count))
    BY <1>4, Zenon DEF FindInRoot, Break, Finish
  <2> QED BY <2>2, <2>3, <2>4
<1>5. CASE FindInBlock
  <2> DEFINE next == NextLcn(alloc_rl, Record.alloc)
  <2>1. pc = "blocks" /\ UNCHANGED <<vol, attrs, data_rl, n_offset>> /\ call.op \in Finding
    BY <1>1, <1>5 DEF FindInBlock
  <2>2. CASE next.lcn = 0
    <3>1. UNCHANGED call /\ pc' = "done"
      BY <1>5, <2>2 DEF FindInBlock, NotFound, Finish
    <3>2. CallTyped' /\ call'.op \in Finding
      BY <1>1, <2>1, <3>1 DEF CallTyped
    <3> QED BY <1>1, <2>1, <3>1, <3>2, NtfsInvKept
  <2>3. CASE next.lcn # 0
    <3>1. PICK index \in Seq(Recs) : \E count : Searched(index, count)
      <4>1. IndexOf(block') \in Seq(Recs)
        BY <1>2
      <4> QED BY <1>5, <2>3, <4>1 DEF FindInBlock
    <3>2. /\ CallTyped' /\ call'.op = call.op
          /\ pc' = "blocks" \/ (pc' \in {"record", "stat", "open"} /\ call'.dir \in Recs)
      BY <1>1, <1>2, <2>1, <3>1, SearchedKeeps
    <3> QED BY <1>1, <2>1, <3>2, NtfsInvKept
  <2> QED BY <2>2, <2>3
<1>6. CASE Stat \/ Open
  <2>1. /\ pc \in {"stat", "open"} /\ pc' \in {"done", "broken"} /\ UNCHANGED <<vol, call>>
        /\ \E got : ReadRecord(call.dir, got)
    BY <1>6 DEF Stat, Open, Finish, Break
  <2>2. n_offset' \in Nat
    <3>1. UNCHANGED n_offset \/ n_offset' = 0
      BY <1>6, Zenon DEF Stat, Open
    <3> QED BY <1>1, <3>1
  <2>3. attrs' \in Recs /\ RlTyped(data_rl')
    BY <1>1, <2>1, ReadRecordKeeps
  <2>4. CallTyped' /\ call'.op \in Finding
    BY <1>1, <2>1 DEF CallTyped
  <2> QED BY <1>1, <2>1, <2>2, <2>3, <2>4, NtfsInvKept
<1> QED BY <1>3, <1>4, <1>5, <1>6

\* Where a search leads, from any run list.
LEMMA SearchIs ==
  ASSUME NEW runs, OnVolume(runs), Decodable(runs), NEW rl, RlTyped(rl), NEW v \in Nat
  PROVE  /\ RlTyped(SeekVcn(rl, runs, v).rl)
         /\ SeekVcn(rl, runs, v).lcn # 0 =>
              v < Len(Clusters(runs)) /\ SeekVcn(rl, runs, v).lcn = Clusters(runs)[v + 1]
<1> DEFINE n == Len(runs)
           B == Before(runs)
           C == Clusters(runs)
           within == {k \in DOMAIN runs : v < B[k]}
           S == SeekVcn(rl, runs, v)
<1>1. Reset(rl).next = 0 /\ RlTyped(Reset(rl))
  BY DEF Reset, RlTyped
<1>2. n \in Nat /\ DOMAIN runs = 1..n
  BY VolumeIs
<1>3. Len(C) \in Nat /\ Len(C) = B[n] /\ \A j \in 0..n : B[j] \in Nat /\ B[j] <= B[n]
  <2>1. \A j \in 0..n : j <= n /\ n \in 0..n
    BY <1>2
  <2> QED BY <2>1, FileIs
<1>4. \A k \in 0..n : Rounds(rl, runs)[k] = IF k = 0 THEN Reset(rl) ELSE RunRl(runs, k, 0)
  BY <1>1, RoundsAre
<1>5. \A k \in 0..n : RlTyped(Rounds(rl, runs)[k])
  <2>1. \A k : RlTyped(RunRl(runs, k, 0))
    BY DEF RunRl, RlTyped
  <2> QED BY <1>1, <1>4, <2>1
<1>6. CASE within = {}
  <2>1. S = [rl |-> NoRun(Rounds(rl, runs)[n]), lcn |-> 0]
    BY <1>6 DEF SeekVcn
  <2>2. n \in 0..n
    BY <1>2
  <2>3. \A r : RlTyped(r) => RlTyped(NoRun(r))
    BY DEF NoRun, RlTyped
  <2> QED BY <1>5, <2>1, <2>2, <2>3
<1>7. CASE within # {}
  <2>1. PICK k \in 1..n : v < B[k]
    BY <1>2, <1>7
  <2>2. v < Len(C)
    <3>1. B[k] \in Nat /\ B[k] <= B[n] /\ v < B[k]
      <4>1. k \in 0..n
        BY <1>2
      <4> QED BY <1>3, <2>1, <4>1
    <3> HIDE DEF B, C
    <3> QED BY <1>3, <3>1
  <2>3. v \in 0..Len(C) /\ v # Len(C)
    <3> HIDE DEF C
    <3> QED BY <1>3, <2>2
  <2>4. S.lcn = C[v + 1] /\ \E j \in 1..n : S.rl = RunRl(runs, j, 0)
    BY <1>1, <2>3, SeekIs
  <2>5. RlTyped(S.rl)
    BY <2>4 DEF RunRl, RlTyped
  <2> QED BY <2>2, <2>4, <2>5
<1> QED BY <1>6, <1>7

\* rl_seek_vcn, or the data are in the record.
LEMMA NtfsFindData ==
  ASSUME NtfsInv, FindData, FilesDecodable
  PROVE  NtfsInv'
<1> DEFINE v == n_offset \div ClusterSize
           found == SeekVcn(data_rl, Record.runs, v)
<1>1. /\ CallTyped /\ vol \in NtfsNames /\ RlTyped(data_rl) /\ attrs \in Recs /\ n_offset \in Nat
      /\ call.size \in Int /\ AtStart(n_offset) /\ pc = "data"
  BY DEF NtfsInv, FindData
<1>2. UNCHANGED <<vol, trust, attrs>> /\ Recs' = Recs /\ Record' = Record
  BY DEF FindData, Recs, Record, Volume
<1>3. v \in Nat /\ n_offset % ClusterSize \in 0..(ClusterSize - 1)
  BY <1>1, CallAssumption
<1>4. /\ RlTyped(found.rl)
      /\ found.lcn # 0 => v < Len(Clusters(Record.runs)) /\ found.lcn = Clusters(Record.runs)[v + 1]
  <2>1. OnVolume(Record.runs) /\ Decodable(Record.runs)
    BY <1>1, NtfsVolumeIs DEF FilesDecodable, Record, Recs, Volume
  <2> HIDE DEF v
  <2> QED BY <1>1, <1>3, <2>1, SearchIs
<1>5. CASE /\ pc' = "broken" \/ (pc' = "done" /\ result' = NoResult)
           /\ UNCHANGED <<data_rl, n_offset, call>>
  <2>1. CallTyped'
    BY <1>1, <1>5 DEF CallTyped
  <2>2. pc' \in {"done", "broken"} /\ (pc' = "done" => result'.kind # "data")
    BY <1>5 DEF NoResult
  <2>3. vol' \in NtfsNames /\ attrs' \in Recs' /\ RlTyped(data_rl)' /\ n_offset' \in Nat
    BY <1>1, <1>2, <1>5
  <2> QED BY <2>1, <2>2, <2>3 DEF NtfsInv
<1>6. CASE /\ Record.resident /\ ~(call.size < 0) /\ UNCHANGED data_rl
           /\ call' = [call EXCEPT !.out = [p \in 1..call.size |-> <<attrs, n_offset + p>>]]
           /\ n_offset' = n_offset + call.size
           /\ Finish([kind |-> "data", n |-> call.size, out |-> call'.out])
  <2> DEFINE out == [p \in 1..call.size |-> <<attrs, n_offset + p>>]
  <2>1. call.size \in Nat /\ n_offset' \in Nat
    BY <1>1, <1>6
  <2>2. CallTyped' /\ call'.size = call.size /\ call'.from = call.from /\ call'.out = out
    BY <1>1, <1>6 DEF CallTyped
  <2>3. Len(out) = call.size /\ \A p \in 1..call.size : out[p] = <<attrs, n_offset + p>>
    BY <2>1
  <2>4. pc' = "done" /\ result' = [kind |-> "data", n |-> call.size, out |-> out]
    BY <1>6, <2>2 DEF Finish
  <2> HIDE DEF out
  <2>5. \A p \in 1..call.size : NtfsSector(attrs, call.from + p - 1)' = <<attrs, n_offset + p>>
    <3>1. \A p \in 1..call.size : NtfsSector(attrs, call.from + p - 1)' = <<attrs, call.from + p - 1 + 1>>
      BY <1>2, <1>6, <2>2 DEF NtfsSector, Record, Volume
    <3>2. \A p \in 1..call.size : call.from + p - 1 + 1 = n_offset + p
      BY <1>1, <2>1 DEF AtStart
    <3> QED BY <3>1, <3>2
  <2>6. SectorsRight(result.out)'
    BY <1>2, <2>2, <2>3, <2>4, <2>5 DEF SectorsRight
  <2> QED BY <1>1, <1>2, <1>6, <2>1, <2>2, <2>4, <2>6 DEF NtfsInv
<1>7. CASE /\ ~SeemsResident /\ data_rl' = found.rl /\ call' = [call EXCEPT !.dir = found.lcn]
           /\ UNCHANGED n_offset
           /\ IF found.lcn = 0 THEN Finish(NoResult) ELSE GoOn("copy blocks")
  <2>1. /\ CallTyped' /\ call'.size = call.size /\ call'.from = call.from /\ call'.out = call.out
        /\ call'.remain = call.remain /\ call'.at = call.at /\ call'.dir = found.lcn
    BY <1>1, <1>7 DEF CallTyped
  <2>2. AtStart(n_offset)'
    BY <1>1, <1>7, <2>1 DEF AtStart
  <2>3. ~Record.resident
    BY <1>7 DEF SeemsResident
  <2>4. CASE found.lcn = 0
    <3>1. pc' = "done" /\ result' = NoResult
      BY <1>7, <2>4 DEF Finish
    <3> QED BY <1>1, <1>2, <1>4, <1>7, <2>1, <3>1 DEF NtfsInv, NoResult
  <2>5. CASE found.lcn # 0
    <3>1. pc' = "copy blocks"
      BY <1>7, <2>5 DEF GoOn
    <3>2. /\ (n_offset \div ClusterSize < Len(Clusters(Record.runs)))'
          /\ (call.dir = Clusters(Record.runs)[(n_offset \div ClusterSize) + 1])'
      BY <1>2, <1>4, <1>7, <2>1, <2>5
    <3>3. call'.size \in Int /\ call'.remain \in Int /\ call'.at \in 0..(ClusterSize - 1)
      BY <1>1, <1>3, <2>1 DEF AtStart
    <3> QED BY <1>1, <1>2, <1>4, <1>7, <2>1, <2>2, <2>3, <3>1, <3>2, <3>3 DEF NtfsInv
  <2> QED BY <2>4, <2>5
<1> QED
  <2>1. CASE Stale
    BY <1>5, <2>1 DEF FindData, Break
  <2>2. CASE ~Stale /\ (Record.dir \/ (SeemsResident /\ (~Record.resident \/ call.size < 0)))
    BY <1>5, <2>2 DEF FindData, Break, Finish
  <2>3. CASE ~Stale /\ ~Record.dir /\ SeemsResident /\ ~(~Record.resident \/ call.size < 0)
    BY <1>6, <2>3 DEF FindData
  <2>4. CASE ~Stale /\ ~Record.dir /\ ~SeemsResident
    BY <1>7, <2>4 DEF FindData
  <2> QED BY <2>1, <2>2, <2>3, <2>4

\* Division and remainder of a natural number.
LEMMA DivMod ==
  ASSUME NEW x \in Nat, NEW c \in Nat \ {0}
  PROVE  x \div c \in Nat /\ x % c \in 0..(c - 1) /\ (x \div c) * c + (x % c) = x
OBVIOUS

\* Quotient and remainder are unique,
LEMMA DivIs ==
  ASSUME NEW c \in Nat \ {0}, NEW q \in Int, NEW r \in 0..(c - 1), NEW x \in Int, x = q * c + r
  PROVE  x \div c = q /\ x % c = r
<1> DEFINE y == x \div c
           s == x % c
<1>1. y \in Int /\ s \in 0..(c - 1) /\ x = y * c + s
  OBVIOUS
<1> HIDE DEF y, s
<1>2. (y - q) * c = r - s
  BY <1>1
<1>3. y - q = 0
  <2> DEFINE t == y - q
  <2>1. t \in Int
    BY <1>1
  <2>2. t * c = r - s
    BY <1>2
  <2> HIDE DEF t
  <2>3. t * c < c /\ -c < t * c
    BY <1>1, <2>2
  <2>4. t = 0
    <3>1. t >= 1 => t * c >= c
      BY <2>1
    <3>2. t <= -1 => t * c <= -c
      BY <2>1
    <3> QED BY <2>1, <2>3, <3>1, <3>2
  <2> QED BY <2>4 DEF t
<1>4. y = q /\ s = r
  BY <1>1, <1>2, <1>3
<1> QED BY <1>4 DEF y, s

\* so that the sectors of a cluster have its number.
LEMMA SameCluster ==
  ASSUME NEW o \in Nat, NEW k \in Nat, (o % ClusterSize) + k < ClusterSize
  PROVE  (o + k) \div ClusterSize = o \div ClusterSize /\ (o + k) % ClusterSize = (o % ClusterSize) + k
<1> DEFINE q == o \div ClusterSize
           r == o % ClusterSize
           s == r + k
           x == o + k
<1>1. ClusterSize \in Nat \ {0}
  BY CallAssumption
<1>2. q \in Int /\ r \in 0..(ClusterSize - 1) /\ o = q * ClusterSize + r
  BY <1>1
<1>3. r + k < ClusterSize
  OBVIOUS
<1> HIDE DEF q, r
<1>4. s \in 0..(ClusterSize - 1) /\ x \in Int /\ x = q * ClusterSize + s
  BY <1>1, <1>2, <1>3
<1> HIDE DEF s, x
<1>5. x \div ClusterSize = q /\ x % ClusterSize = s
  BY <1>1, <1>2, <1>4, DivIs
<1> QED BY <1>5 DEF x, s, q, r

\* A round that does not leave the buffers copies what is left.
LEMMA RoundIs ==
  ASSUME NEW left \in Nat \ {0}, NEW remain \in Int
  PROVE  LET n == ReadSize(left, remain)
         IN  /\ n \in Nat \ {0} /\ n >= left
             /\ n <= remain => n = remain
BY DEF ReadSize

LEMMA SectorsKept ==
  ASSUME UNCHANGED <<vol, attrs>>, call'.size = call.size, call'.from = call.from, NEW out
  PROVE  /\ SectorsRight(out) => SectorsRight(call.out)' \/ call'.out # out
         /\ SectorsRight(out) => SectorsRight(result.out)' \/ result'.out # out
<1>1. \A x : /\ NtfsSector(attrs, x)' = NtfsSector(attrs, x)
             /\ BehindValid(attrs, call.from, x)' = BehindValid(attrs, call.from, x)
  BY DEF NtfsSector, BehindValid, Volume
<1> QED BY <1>1 DEF SectorsRight

LEMMA NtfsCopy ==
  ASSUME NtfsInv, CopyBlocks
  PROVE  NtfsInv'
<1> DEFINE left == ClusterSize - call.at
           n == ReadSize(left, call.remain)
           zero == Zeroed(n_offset)
           next == NextLcn(data_rl, Record.runs)
           part == [p \in 1..n |-> IF zero THEN <<0, 0>> ELSE <<block', call.at + p>>]
<1>1. /\ CallTyped /\ vol \in NtfsNames /\ RlTyped(data_rl) /\ attrs \in Recs /\ n_offset \in Nat
      /\ call.size \in Int /\ call.remain \in Int /\ call.at \in 0..(ClusterSize - 1) /\ ~Record.resident
      /\ trust # "spoilt" =>
           \/ /\ AtStart(n_offset) /\ n_offset \div ClusterSize < Len(Clusters(Record.runs))
              /\ call.dir = Clusters(Record.runs)[(n_offset \div ClusterSize) + 1]
           \/ call.remain = 0 /\ call.size \in Nat /\ SectorsRight(call.out)
  BY DEF NtfsInv, CopyBlocks
<1>2. UNCHANGED <<vol, attrs>> /\ Recs' = Recs /\ Record' = Record /\ pc = "copy blocks"
  BY DEF CopyBlocks, Recs, Record, Volume
<1>3. left \in Nat \ {0} /\ n \in Nat \ {0} /\ n >= left /\ (n <= call.remain => n = call.remain)
  <2>1. left \in Nat \ {0}
    BY <1>1, CallAssumption
  <2> QED BY <1>1, <2>1, RoundIs
<1>4. trust' # "spoilt" => trust # "spoilt" /\ (call.remain = 0 \/ zero \/ block' = call.dir)
  BY DEF CopyBlocks, ReadBlock, Unnoticed
<1>5. CASE call.remain = 0
  <2>1. /\ pc' = "done" /\ result' = [kind |-> "data", n |-> call.size, out |-> call.out]
        /\ UNCHANGED <<data_rl, n_offset, call>>
    <3>1. /\ Finish([kind |-> "data", n |-> call.size, out |-> call.out])
          /\ UNCHANGED <<block, trust, fails, data_rl, n_offset, call>>
      BY <1>5, Zenon DEF CopyBlocks
    <3>2. UNCHANGED <<data_rl, n_offset, call>>
      BY <3>1
    <3> QED BY <3>1, <3>2, Zenon DEF Finish
  <2>2. trust' # "spoilt" => SectorsRight(call.out)
    <3> SUFFICES ASSUME trust # "spoilt", AtStart(n_offset) PROVE SectorsRight(call.out)
      BY <1>1, <1>4
    <3>1. call.size = 0 /\ call.out = <<>>
      BY <1>5 DEF AtStart
    <3> QED BY <3>1 DEF SectorsRight
  <2>3. SectorsRight(call.out) => SectorsRight(result.out)'
    BY <1>2, <2>1, SectorsKept
  <2>4. CallTyped' /\ result'.n = call'.size
    BY <1>1, <1>5, <2>1 DEF CallTyped
  <2> QED BY <1>1, <1>2, <2>1, <2>2, <2>3, <2>4 DEF NtfsInv
<1>6. CASE pc' = "broken" /\ UNCHANGED <<data_rl, n_offset, call>>
  <2>1. CallTyped'
    BY <1>1, <1>6 DEF CallTyped
  <2> QED BY <1>1, <1>2, <1>6, <2>1 DEF NtfsInv
<1>7. CASE /\ call.remain # 0 /\ n <= call.remain /\ (zero \/ call.at + n <= ClusterSize)
           /\ data_rl' = next.rl /\ n_offset' = n_offset + n
           /\ call' = [call EXCEPT !.remain = @ - n, !.at = 0, !.dir = next.lcn, !.out = @ \o part]
           /\ UNCHANGED <<pc, result, fault>>
  <2>1. n = call.remain
    BY <1>3, <1>7
  <2>2. /\ CallTyped' /\ call'.size = call.size /\ call'.remain = call.remain - n /\ call'.at = 0
        /\ call'.from = call.from /\ call'.out = call.out \o part
    BY <1>1, <1>7 DEF CallTyped
  <2>3. RlTyped(data_rl') /\ n_offset' \in Nat
    <3>1. RlTyped(next.rl)
      BY <1>1 DEF NextLcn, NoRun, NextRun, RlTyped
    <3> QED BY <1>1, <1>3, <1>7, <3>1
  <2>4. call'.remain = 0 /\ call'.at \in 0..(ClusterSize - 1) /\ call'.size \in Int
    BY <1>1, <1>3, <2>1, <2>2, CallAssumption
  <2>5. ASSUME trust' # "spoilt"
        PROVE  call.size \in Nat /\ SectorsRight(call.out)'
    <3>1. /\ AtStart(n_offset) /\ n_offset \div ClusterSize < Len(Clusters(Record.runs))
          /\ call.dir = Clusters(Record.runs)[(n_offset \div ClusterSize) + 1]
          /\ zero \/ block' = call.dir
      BY <1>1, <1>4, <1>7, <2>5
    <3>2. call.size = n /\ call.from = n_offset /\ call.at = n_offset % ClusterSize /\ call.out = <<>>
      BY <2>1, <3>1 DEF AtStart
    <3>3. Len(part) = n /\ (\A p \in 1..n : part[p] = IF zero THEN <<0, 0>> ELSE <<block', call.at + p>>)
          /\ <<>> \o part = part
      BY <1>3
    <3> HIDE DEF part
    <3>4. ASSUME NEW p \in 1..n
          PROVE  \/ BehindValid(attrs, call.from, call.from + p - 1)
                 \/ part[p] = NtfsSector(attrs, call.from + p - 1)
      <4> DEFINE x == n_offset + (p - 1)
      <4>1. call.from + p - 1 = x /\ x \in Nat /\ x >= n_offset /\ p - 1 \in Nat
        BY <1>1, <1>3, <3>2
      <4>2. /\ Record = Volume.recs[attrs] /\ Record.valid \in Nat
        BY <1>1, NtfsVolumeIs DEF Record
      <4> HIDE DEF x
      <4>3. CASE zero
        <5>1. x >= Record.valid
          BY <1>1, <4>1, <4>2, <4>3 DEF Zeroed
        <5>2. NtfsSector(attrs, x) = <<0, 0>>
          BY <1>1, <4>2, <5>1 DEF NtfsSector
        <5> QED BY <3>3, <4>1, <4>3, <5>2
      <4>4. CASE ~zero /\ x >= Record.valid
        <5> DEFINE k == Record.valid - n_offset
        <5>1. /\ (n_offset % ClusterSize) + (p - 1) < ClusterSize /\ k \in Nat /\ k <= p - 1
              /\ n_offset + k = Record.valid
          <6>1. (n_offset % ClusterSize) + (p - 1) < ClusterSize
            BY <1>1, <1>3, <1>7, <3>2, <4>4, CallAssumption
          <6>2. ~(n_offset >= Record.valid)
            BY <4>4 DEF Zeroed
          <6>3. n_offset + (p - 1) >= Record.valid
            BY <4>4 DEF x
          <6>4. n_offset \in Nat /\ Record.valid \in Nat /\ p \in Nat /\ p - 1 \in Nat
            BY <1>1, <1>3, <4>1, <4>2
          <6> QED BY <6>1, <6>2, <6>3, <6>4
        <5>2. x \div ClusterSize = n_offset \div ClusterSize
          BY <1>1, <4>1, <5>1, SameCluster DEF x
        <5>3. (n_offset + k) \div ClusterSize = n_offset \div ClusterSize
          <6>1. (n_offset % ClusterSize) + k < ClusterSize
            <7> DEFINE r == n_offset % ClusterSize
            <7>1. r \in Nat /\ ClusterSize \in Nat
              BY <1>1, DivMod, CallAssumption
            <7>2. p - 1 \in Nat /\ k \in Nat /\ k <= p - 1 /\ r + (p - 1) < ClusterSize
              BY <4>1, <5>1
            <7> HIDE DEF r, k
            <7>3. r + k < ClusterSize
              <8> DEFINE y == p - 1
              <8>1. y \in Nat /\ k <= y /\ r + y < ClusterSize
                BY <7>2
              <8> HIDE DEF y
              <8> QED BY <7>1, <7>2, <8>1
            <7> QED BY <7>3 DEF r
          <6> QED BY <1>1, <5>1, <6>1, SameCluster
        <5>4. x \div ClusterSize = Record.valid \div ClusterSize
          BY <5>1, <5>2, <5>3
        <5>5. BehindValid(attrs, call.from, x)
          BY <1>1, <3>2, <4>2, <4>4, <5>4 DEF BehindValid, Zeroed
        <5> QED BY <4>1, <5>5
      <4>5. CASE ~zero /\ ~(x >= Record.valid)
        <5>1. (n_offset % ClusterSize) + (p - 1) < ClusterSize
          BY <1>1, <1>3, <1>7, <3>2, <4>5, CallAssumption
        <5>2. x \div ClusterSize = n_offset \div ClusterSize /\ x % ClusterSize = (n_offset % ClusterSize) + (p - 1)
          BY <1>1, <4>1, <5>1, SameCluster DEF x
        <5>3. NtfsSector(attrs, x) = <<Clusters(Record.runs)[(x \div ClusterSize) + 1], (x % ClusterSize) + 1>>
          BY <1>1, <4>2, <4>5 DEF NtfsSector
        <5>4. call.at + p = (x % ClusterSize) + 1
          BY <1>1, <3>2, <5>2
        <5> QED BY <3>1, <3>3, <4>1, <4>5, <5>2, <5>3, <5>4
      <4> QED BY <4>3, <4>4, <4>5
    <3>5. SectorsRight(part)
      BY <3>2, <3>3, <3>4 DEF SectorsRight
    <3>6. call'.out = part
      BY <2>2, <3>2, <3>3
    <3> QED BY <1>2, <1>3, <2>2, <3>2, <3>5, <3>6, SectorsKept
  <2>6. pc' = "copy blocks" /\ vol' \in NtfsNames /\ attrs' \in Recs' /\ ~Record'.resident
    BY <1>1, <1>2, <1>7
  <2>7. call'.size = call.size
    BY <2>2
  <2> HIDE DEF n, zero, next, part
  <2>8. (pc = "copy blocks" /\ trust # "spoilt")' => (call.remain = 0 /\ call.size \in Nat /\ SectorsRight(call.out))'
    BY <2>4, <2>5, <2>7
  <2>9. (CallTyped /\ vol \in NtfsNames /\ RlTyped(data_rl) /\ attrs \in Recs /\ n_offset \in Nat)'
    BY <2>2, <2>3, <2>6
  <2>10. (call.size \in Int /\ call.remain \in Int /\ call.at \in 0..(ClusterSize - 1) /\ ~Record.resident)'
    <3>1. (~Record.resident)'
      BY <2>6, Zenon
    <3> QED BY <2>4, <3>1
  <2>11. (pc \notin {"record", "root", "blocks", "stat", "open", "data", "done"})'
    BY <2>6
  <2> QED BY <2>8, <2>9, <2>10, <2>11 DEF NtfsInv
<1> QED
  <2>1. CASE call.remain # 0 /\ (Overrun(n) = "caller's buffer" \/ (Overrun(n) = "dbuf" /\ ~zero))
    BY <1>6, <2>1 DEF CopyBlocks, Break
  <2>2. CASE call.remain # 0 /\ ~(Overrun(n) = "caller's buffer" \/ (Overrun(n) = "dbuf" /\ ~zero))
    <3>1. n <= call.remain /\ (zero \/ call.at + n <= ClusterSize)
      <4> HIDE DEF n, zero
      <4>1. n \in Nat
        BY <1>3
      <4>2. n > call.remain => Overrun(n) = "caller's buffer"
        BY Zenon DEF Overrun
      <4>3. ~(n > call.remain) /\ call.at + n > ClusterSize => Overrun(n) = "dbuf"
        BY DEF Overrun
      <4>4. ~(n > call.remain) /\ (zero \/ ~(call.at + n > ClusterSize))
        BY <2>2, <4>2, <4>3, Zenon
      <4>5. n <= call.remain /\ (~(call.at + n > ClusterSize) => call.at + n <= ClusterSize)
        BY <1>1, <4>1, <4>4, CallAssumption
      <4> QED BY <4>4, <4>5, Zenon
    <3> QED BY <1>7, <2>2, <3>1 DEF CopyBlocks
  <2> QED BY <1>5, <2>1, <2>2

\* What leaves the variables of a read alone, in no read
LEMMA NtfsInvApart ==
  ASSUME NtfsInv, UNCHANGED <<vol, n_offset, attrs, data_rl>>,
         \/ UNCHANGED <<pc, call, result, trust>> /\ pc = "idle"
         \/ pc' = "idle" /\ call' = NoCall
  PROVE  NtfsInv'
<1>1. CallTyped /\ vol \in NtfsNames /\ RlTyped(data_rl) /\ attrs \in Recs /\ n_offset \in Nat
  BY DEF NtfsInv
<1>3. UNCHANGED vol /\ RlTyped(data_rl') /\ attrs' \in Recs /\ n_offset' \in Nat
  BY <1>1
<1>4. CASE UNCHANGED <<pc, call, result, trust>> /\ pc = "idle"
  <2>1. CallTyped' /\ pc' = "idle"
    BY <1>1, <1>4 DEF CallTyped
  <2> QED BY <1>3, <2>1, NtfsInvKept
<1>5. CASE pc' = "idle" /\ call' = NoCall
  <2>1. CallTyped'
    BY <1>5 DEF CallTyped, NoCall
  <2> QED BY <1>3, <1>5, <2>1, NtfsInvKept
<1> QED BY <1>4, <1>5

LEMMA NtfsCalls ==
  ASSUME NtfsInv, FileCall1
  PROVE  NtfsInv'
<1>1. CallTyped /\ vol \in NtfsNames /\ RlTyped(data_rl) /\ attrs \in Recs /\ n_offset \in Nat
  BY DEF NtfsInv
<1>2. Ntfs /\ RootRecord \in Recs
  BY <1>1, NtfsVolumeIs DEF NtfsNames, Ntfs, Volume
<1>3. ASSUME NEW op \in {"stat", "open", "list"}, NEW path, NtfsFind(op, path)
      PROVE  NtfsInv'
  <2>1. PICK tail : Starts([NoCall EXCEPT !.op = op, !.path = path, !.rest = path, !.dir = RootRecord,
                              !.list = (path = <<>>), !.tail = tail], "record")
    BY <1>3 DEF NtfsFind
  <2>2. CallTyped' /\ call'.op = op /\ call'.dir = RootRecord /\ pc' = "record"
    BY <2>1 DEF Starts, CallTyped, NoCall
  <2>3. UNCHANGED <<vol, n_offset, attrs, data_rl>>
    BY <1>3 DEF NtfsFind, Starts, ntfsVars
  <2> QED BY <1>1, <1>2, <1>3, <2>2, <2>3, NtfsInvKept DEF Finding
<1>4. ASSUME NEW offset, NtfsLseek(offset)
      PROVE  NtfsInv'
  <2>1. UNCHANGED callVars /\ UNCHANGED recordVars /\ pc = "idle"
    BY <1>4 DEF NtfsLseek
  <2>2. UNCHANGED <<vol, call, pc, attrs, data_rl>>
    BY <2>1 DEF callVars, recordVars
  <2>3. n_offset' \in Nat
    <3>1. Record.size \in Nat
      BY <1>1, NtfsVolumeIs DEF Record
    <3> QED BY <1>4, <3>1 DEF NtfsLseek
  <2>4. CallTyped'
    BY <1>1, <2>2 DEF CallTyped
  <2> QED BY <1>1, <2>1, <2>2, <2>3, <2>4, NtfsInvKept
<1>5. ASSUME NEW n \in Sizes, NtfsRead(n)
      PROVE  NtfsInv'
  <2> DEFINE size == IF n_offset + n > Record.size THEN Record.size - n_offset ELSE n
  <2>1. size \in Int
    <3>1. Record.size \in Nat /\ n \in Nat
      BY <1>1, NtfsVolumeIs, VfsAssumption DEF Record
    <3> QED BY <1>1, <3>1
  <2>2. /\ Starts([NoCall EXCEPT !.op = "read", !.size = size, !.remain = size, !.from = n_offset,
                             !.at = n_offset % ClusterSize], "data")
        /\ UNCHANGED ntfsVars
    BY <1>5 DEF NtfsRead
  <2> HIDE DEF size
  <2>3. /\ CallTyped' /\ call'.op = "read" /\ call'.size = size /\ call'.remain = size
        /\ call'.from = n_offset /\ call'.at = n_offset % ClusterSize /\ call'.out = <<>> /\ pc' = "data"
    BY <2>2 DEF Starts, CallTyped, NoCall
  <2>4. UNCHANGED <<vol, n_offset, attrs, data_rl>>
    BY <2>2 DEF Starts, ntfsVars
  <2>5. AtStart(n_offset)'
    BY <2>3, <2>4 DEF AtStart
  <2>6. Recs' = Recs
    BY <2>4 DEF Recs, Volume
  <2> QED BY <1>1, <2>1, <2>3, <2>4, <2>5, <2>6 DEF NtfsInv
<1> QED
  <2>1. \/ \E op \in {"stat", "open", "list"}, path \in Paths : NtfsFind(op, path)
        \/ \E n \in Sizes : NtfsLseek(n) \/ NtfsRead(n)
    BY <1>2, Zenon DEF FileCall1
  <2> QED BY <1>3, <1>4, <1>5, <2>1

LEMMA NtfsStepKeeps ==
  ASSUME NtfsInv, [Next]_vars, FilesDecodable
  PROVE  NtfsInv'
<1>1. CallTyped /\ vol \in NtfsNames /\ RlTyped(data_rl) /\ attrs \in Recs /\ n_offset \in Nat
  BY DEF NtfsInv
<1>2. Ntfs
  BY <1>1 DEF NtfsNames, Ntfs, Volume
<1>5. CASE Step
  <2>1. NtfsStep
    BY <1>2, <1>5 DEF Step
  <2>2. CASE Return /\ UNCHANGED ntfsVars
    <3>1. pc' = "idle" /\ call' = NoCall /\ UNCHANGED <<vol, n_offset, attrs, data_rl>>
      BY <2>2 DEF Return, ntfsVars
    <3> QED BY <3>1, NtfsInvApart
  <2> QED BY <2>1, <2>2, NtfsFindSteps, NtfsFindData, NtfsCopy DEF NtfsStep
<1>6. CASE UNCHANGED vars
  <2>1. /\ UNCHANGED callVars /\ UNCHANGED ntfsVars
    BY <1>6 DEF vars
  <2>2. UNCHANGED <<vol, pc, call, result, trust, n_offset, attrs, data_rl>>
    BY <2>1 DEF callVars, ntfsVars
  <2>3. Recs' = Recs /\ Record' = Record /\ CallTyped' /\ (AtStart(n_offset) => AtStart(n_offset)')
    BY <1>1, <2>2 DEF Recs, Record, Volume, CallTyped, AtStart
  <2>5. (SectorsRight(call.out) => SectorsRight(call.out)') /\ (SectorsRight(result.out) => SectorsRight(result.out)')
    BY <2>2, SectorsKept
  <2> QED BY <2>2, <2>3, <2>5 DEF NtfsInv
<1> QED BY <1>5, <1>6, NtfsCalls DEF Next

LEMMA NtfsInitInv == Init /\ Ntfs => NtfsInv
<1> SUFFICES ASSUME Init, Ntfs PROVE NtfsInv
  OBVIOUS
<1>1. vol \in NtfsNames
  BY DEF Init, Ntfs, NtfsNames, Volume
<1>2. 0 \in Recs
  BY <1>1, NtfsVolumeIs
<1>3. CallTyped /\ pc = "idle"
  BY DEF Init, CallInit, CallTyped, NoCall
<1>4. RlTyped(data_rl) /\ attrs = 0 /\ n_offset = 0
  BY DEF Init, NtfsInit, RlTyped, FreshRl
<1> QED BY <1>1, <1>2, <1>3, <1>4 DEF NtfsInv

LEMMA NtfsInvReads == NtfsInv => NtfsReadRight
BY DEF NtfsInv, NtfsReadRight, SectorsRight
-----------------------------------------------------------------------------
(* Reading a file of FAT                                                   *)

LEMMA FollowIs ==
  ASSUME NEW next, IsFiniteSet(DOMAIN next), next \in [DOMAIN next -> DOMAIN next], NEW c \in DOMAIN next
  PROVE  LET last == Cardinality(DOMAIN next)
             at == Follow(next, c)
         IN  /\ last \in Nat /\ at \in [0..last -> DOMAIN next] /\ at[0] = c
             /\ \A k \in 1..last : at[k] = next[at[k - 1]]
<1> DEFINE S == DOMAIN next
           n == Cardinality(S)
           Solves(f) == f = [k \in 0..n |-> IF k = 0 THEN c ELSE next[f[k - 1]]]
           F == [x \in S \X Nat |-> next[x[1]]]
<1>1. n \in Nat
  BY FS_CardinalityType
<1> HIDE DEF n
<1>2. F \in [S \X Nat -> S]
  OBVIOUS
<1>3. \A x \in S, k \in Nat : F[<<x, k>>] = next[x]
  OBVIOUS
<1> HIDE DEF F
<1>4. PICK f \in [0..n -> S] : f[0] = c /\ \A k \in 1..n : f[k] = F[<<f[k - 1], k>>]
  <2>1. \E f \in [0..n -> S] : Comes(f, n, c, F)
    BY <1>1, <1>2, Recursion, Zenon
  <2> QED BY <2>1 DEF Comes
<1>5. \A k \in 1..n : k \in Nat /\ k - 1 \in 0..n /\ k \in 0..n /\ k # 0
  BY <1>1
<1>6. \A k \in 1..n : f[k] = next[f[k - 1]]
  BY <1>3, <1>4, <1>5
<1>7. \A k \in 0..n : f[k] = IF k = 0 THEN c ELSE next[f[k - 1]]
  <2>1. \A k \in 0..n : k # 0 => k \in 1..n
    BY <1>1
  <2> QED BY <1>4, <1>6, <2>1
<1>8. Solves(f)
  BY <1>4, <1>7
<1> DEFINE g == Follow(next, c)
<1>9. Solves(g)
  BY <1>8 DEF Follow, n
<1> HIDE DEF g
<1>10. g[0] = c /\ DOMAIN g = 0..n /\ \A k \in 1..n : g[k] = next[g[k - 1]]
  BY <1>1, <1>5, <1>9
<1>11. \A k \in 0..n : g[k] \in S
  <2> DEFINE T == {k \in 0..n : g[k] \in S}
  <2>1. 0 \in T
    BY <1>1, <1>10
  <2>2. ASSUME NEW k \in 1..n, k - 1 \in T
        PROVE  k \in T
    BY <1>5, <1>10, <2>2
  <2> HIDE DEF T
  <2>3. 0..n \subseteq T
    BY <1>1, <2>1, <2>2, Reaches
  <2> QED BY <2>3 DEF T
<1>12. g \in [0..n -> S]
  <2>1. g = [k \in 0..n |-> g[k]]
    BY <1>9, <1>10
  <2> QED BY <1>11, <2>1
<1> QED BY <1>1, <1>10, <1>12 DEF g, n

LEMMA FatVolumeIs ==
  ASSUME vol \in DOMAIN VolumeOf, ~Ntfs
  PROVE  OnFatVolume(Volume)
BY FatVolumesAssumption DEF Ntfs, Volume

\* The clusters of a file come one from another in the FAT, and reach for its size.
LEMMA NthIs ==
  ASSUME OnFatVolume(Volume), NEW e, HasClusters(Volume.next, e)
  PROVE  /\ Nth(e, 0) = e.first /\ \A k : Nth(e, k) \in DOMAIN Volume.next
         /\ \A k \in Nat : Nth(e, k) # 0 => Nth(e, k + 1) = Volume.next[Nth(e, k)]
         /\ \A p \in 0..(e.size - 1) : ClusterAt(e, p) # 0
<1> DEFINE next == Volume.next
           last == Cardinality(DOMAIN next)
           at == Follow(next, e.first)
<1>1. /\ e.first \in DOMAIN next /\ at[last] = 0
      /\ \A p \in 0..(e.size - 1) : (p \div ClusterSize) \in DOMAIN at /\ at[p \div ClusterSize] # 0
  BY DEF HasClusters, ChainEnds
<1>2. IsFiniteSet(DOMAIN next) /\ 0 \in DOMAIN next /\ next \in [DOMAIN next -> DOMAIN next]
  BY DEF OnFatVolume
<1> HIDE DEF next
<1>3. /\ last \in Nat /\ at \in [0..last -> DOMAIN next] /\ at[0] = e.first
      /\ \A k \in 1..last : at[k] = next[at[k - 1]]
  BY <1>1, <1>2, FollowIs
<1>4. \A k : Nth(e, k) = IF k \in DOMAIN at THEN at[k] ELSE 0
  BY DEF Nth, next
<1> HIDE DEF at, last
<1>5. DOMAIN at = 0..last /\ \A k \in 0..last : at[k] \in DOMAIN next
  BY <1>3
<1>6. Nth(e, 0) = e.first /\ \A k : Nth(e, k) \in DOMAIN next
  BY <1>2, <1>3, <1>4, <1>5
<1>7. ASSUME NEW k \in Nat, Nth(e, k) # 0
      PROVE  Nth(e, k + 1) = next[Nth(e, k)]
  <2>1. k \in 0..last /\ Nth(e, k) = at[k]
    BY <1>4, <1>5, <1>7
  <2>2. k # last
    BY <1>1, <1>7, <2>1
  <2>3. k + 1 \in 1..last /\ k + 1 \in 0..last /\ (k + 1) - 1 = k
    BY <1>3, <2>1, <2>2
  <2>4. at[k + 1] = next[at[(k + 1) - 1]]
    BY <1>3, <2>3
  <2> QED BY <1>4, <1>5, <2>1, <2>3, <2>4
<1>8. \A p \in 0..(e.size - 1) : ClusterAt(e, p) # 0
  BY <1>1, <1>4 DEF ClusterAt
<1> QED BY <1>6, <1>7, <1>8 DEF next

\* What the FAT says, when it is read and its error is noticed.
LEMMA NextIs ==
  ASSUME OnFatVolume(Volume), BuffersHonest, NEW c \in DOMAIN Volume.next, NEW n, NextCluster(c, n),
         trust # "spoilt", trust' # "spoilt", trust # "clean" => c = 0
  PROVE  /\ trust' = "clean" => trust = "clean" /\ c # 0 /\ n = Volume.next[c]
         /\ trust' # "clean" => n = 0
<1>1. CASE ReadFat(c, "negative") /\ n = 0 /\ Noticed
  BY <1>1 DEF Noticed
<1>2. CASE ReadFat(c, "ok") /\ n \in FatValues(fbuf', c) /\ c # 0 /\ UNCHANGED trust
  <2>1. trust = "clean" /\ fbuf = fat_sector
    BY <1>2 DEF BuffersHonest
  <2>2. fbuf' = FatSector(c)
    BY <1>2, <2>1 DEF ReadFat
  <2> DEFINE s == c \div FatPer
             r == c % FatPer
  <2>3. c \in Nat /\ c \in DOMAIN Volume.next
    BY DEF OnFatVolume
  <2>4. s \in Nat /\ r \in Int /\ s * FatPer + r = c
    <3>1. s \in Nat /\ r \in 0..(FatPer - 1) /\ s * FatPer + r = c
      BY <2>3, FatAssumption, DivMod, Zenon
    <3> HIDE DEF s, r
    <3> QED BY <3>1
  <2>5. FatSector(c) = s
    BY DEF FatSector
  <2>6. (s * FatPer) + (c % FatPer) = c /\ s # Nothing
    <3>1. s # -1
      <4> HIDE DEF s
      <4> QED BY <2>4
    <3> QED BY <2>4, <3>1 DEF Nothing
  <2> HIDE DEF s, r
  <2>7. FatValues(s, c) = {Volume.next[c]}
    BY <2>3, <2>6 DEF FatValues
  <2> QED BY <1>2, <2>1, <2>2, <2>5, <2>7
<1>3. ~((ReadFat(c, "ok") /\ c = 0 /\ Unnoticed) \/ (ReadFat(c, "positive") /\ Unnoticed))
  BY DEF Unnoticed
<1> QED BY <1>1, <1>2, <1>3 DEF NextCluster

\* An entry of a directory
Fitting ==
  {e \in [kind : STRING, name : STRING, first : DOMAIN Volume.next, size : Nat] :
     /\ e.kind = "file" => HasClusters(Volume.next, e)
     /\ e.kind = "dir" => ChainEnds(Volume.next, e.first) /\ e.first # 0}

LEMMA AppendedIs ==
  ASSUME NEW E, NEW u \in Seq(E), NEW p \in Seq(E)
  PROVE  u \o p \in Seq(E)
OBVIOUS

LEMMA HeldIs ==
  ASSUME OnFatVolume(Volume)
  PROVE  \A s : Held(s) \in Seq(Fitting)
<1> DEFINE E == [kind : STRING, name : STRING, first : DOMAIN Volume.next, size : Nat]
<1>1. ASSUME NEW s \in DOMAIN Volume.sect
      PROVE  Volume.sect[s] \in Seq(Fitting)
  <2> DEFINE q == Volume.sect[s]
  <2>1. /\ q \in Seq(E)
        /\ \A n \in DOMAIN q : /\ q[n].kind = "file" => HasClusters(Volume.next, q[n])
                               /\ q[n].kind = "dir" => ChainEnds(Volume.next, q[n].first)
    BY DEF OnFatVolume
  <2> HIDE DEF q, E
  <2>2. DOMAIN q = 1..Len(q) /\ Len(q) \in Nat /\ \A n \in 1..Len(q) : q[n] \in E
    BY <2>1
  <2>3. \A n \in 1..Len(q) : q[n] \in Fitting
    <3> SUFFICES ASSUME NEW n \in 1..Len(q) PROVE q[n] \in Fitting
      OBVIOUS
    <3>1. n \in DOMAIN q
      BY <2>2
    <3>2. /\ q[n].kind = "file" => HasClusters(Volume.next, q[n])
          /\ q[n].kind = "dir" => ChainEnds(Volume.next, q[n].first)
      BY <2>1, <3>1, Zenon
    <3> QED BY <2>2, <3>2 DEF Fitting, E
  <2>4. q = [n \in 1..Len(q) |-> q[n]]
    BY <2>1
  <2> DEFINE l == Len(q)
  <2>5. l \in Nat /\ q = [n \in 1..l |-> q[n]] /\ \A n \in 1..l : q[n] \in Fitting
    BY <2>2, <2>3, <2>4
  <2> HIDE DEF l
  <2>6. q \in [1..l -> Fitting]
    BY <2>5
  <2>7. q \in Seq(Fitting)
    BY <2>5, <2>6
  <2> QED BY <2>7 DEF q
<1>2. <<>> \in Seq(Fitting)
  OBVIOUS
<1> QED BY <1>1, <1>2 DEF Held

\* What sectors hold are entries, one sector after the other.
LEMMA EntriesAre ==
  ASSUME NEW sectors, Len(sectors) \in Nat, OnFatVolume(Volume)
  PROVE  /\ EntriesUpto(sectors) \in [0..Len(sectors) -> Seq(Fitting)] /\ EntriesUpto(sectors)[0] = <<>>
         /\ \A k \in 1..Len(sectors) : EntriesUpto(sectors)[k] = EntriesUpto(sectors)[k - 1] \o Held(sectors[k])
         /\ EntriesIn(sectors) \in Seq(Fitting)
<1> DEFINE S == Seq(Fitting)
           n == Len(sectors)
           Solves(f) == f = [k \in 0..n |-> IF k = 0 THEN <<>> ELSE f[k - 1] \o Held(sectors[k])]
           F == [x \in S \X Nat |-> x[1] \o Held(sectors[x[2]])]
<1>1. <<>> \in S /\ \A s : Held(s) \in S
  BY HeldIs
<1>2. \A x \in S, k \in Nat : x \o Held(sectors[k]) \in S
  BY <1>1, AppendedIs
<1> HIDE DEF S
<1>3. F \in [S \X Nat -> S]
  BY <1>2
<1>4. \A x \in S, k \in Nat : F[<<x, k>>] = x \o Held(sectors[k])
  OBVIOUS
<1> HIDE DEF F, n
<1>5. n \in Nat
  BY DEF n
<1>6. PICK f \in [0..n -> S] : f[0] = <<>> /\ \A k \in 1..n : f[k] = F[<<f[k - 1], k>>]
  <2>1. \E f \in [0..n -> S] : Comes(f, n, <<>>, F)
    BY <1>1, <1>3, <1>5, Recursion, Zenon
  <2> QED BY <2>1 DEF Comes
<1>7. \A k \in 1..n : k \in Nat /\ k - 1 \in 0..n /\ k \in 0..n /\ k # 0
  BY <1>5
<1>8. \A k \in 1..n : f[k] = f[k - 1] \o Held(sectors[k])
  BY <1>4, <1>6, <1>7
<1>9. \A k \in 0..n : f[k] = IF k = 0 THEN <<>> ELSE f[k - 1] \o Held(sectors[k])
  <2>1. \A k \in 0..n : k # 0 => k \in 1..n
    BY <1>5
  <2> QED BY <1>6, <1>8, <2>1
<1>10. Solves(f)
  BY <1>6, <1>9, Zenon
<1> DEFINE g == CHOOSE upto : Solves(upto)
<1>11. EntriesUpto(sectors) = g /\ EntriesIn(sectors) = g[n]
  BY DEF EntriesIn, EntriesUpto, n
<1>12. Solves(g)
  BY <1>10, Zenon
<1> HIDE DEF g
<1>13. g[0] = <<>> /\ \A k \in 1..n : g[k] = g[k - 1] \o Held(sectors[k])
  <2>1. 0 \in 0..n /\ \A k \in 0..n : g[k] = IF k = 0 THEN <<>> ELSE g[k - 1] \o Held(sectors[k])
    <3>1. 0 \in 0..n
      BY <1>5
    <3>2. ASSUME NEW k \in 0..n
          PROVE  g[k] = IF k = 0 THEN <<>> ELSE g[k - 1] \o Held(sectors[k])
      BY <1>12, Zenon
    <3> QED BY <3>1, <3>2
  <2> QED BY <1>7, <2>1
<1>14. \A k \in 0..n : g[k] \in S
  <2> DEFINE T == {k \in 0..n : g[k] \in S}
  <2>1. 0 \in T
    BY <1>1, <1>5, <1>13
  <2>2. ASSUME NEW k \in 1..n, k - 1 \in T
        PROVE  k \in T
    <3>1. g[k - 1] \in S /\ Held(sectors[k]) \in S
      BY <1>1, <2>2
    <3>2. g[k - 1] \o Held(sectors[k]) \in S
      BY <3>1, AppendedIs DEF S
    <3> QED BY <1>7, <1>13, <3>2
  <2> HIDE DEF T
  <2>3. 0..n \subseteq T
    BY <1>5, <2>1, <2>2, Reaches
  <2> QED BY <2>3 DEF T
<1>15. n \in 0..n
  BY <1>5
<1>16. g \in [0..n -> S]
  <2>1. g = [k \in 0..n |-> g[k]]
    BY <1>12
  <2> QED BY <1>14, <2>1
<1> QED BY <1>11, <1>13, <1>14, <1>15, <1>16 DEF S, n

LEMMA VisibleIs ==
  ASSUME DbufTyped
  PROVE  Len(Visible(dbuf)) \in Nat
<1>1. ClusterSize \in Nat
  BY CallAssumption
<1>2. Len([k \in 1..ClusterSize |-> dbuf[k]]) \in Nat
  BY <1>1
<1>3. Len(dbuf) \in Nat
  BY <1>2, Zenon DEF DbufTyped
<1>4. Len(SubSeq(dbuf, 1, 1)) \in Nat
  OBVIOUS
<1> QED BY <1>3, <1>4 DEF Visible

\* The sectors of a file that are not behind the root's buffer
SectorsCopied(out, n) ==
  call.cached = Nothing \/ call.cached # ClusterAt(opened, call.from) =>
    out = [p \in 1..n |-> SectorAt(opened, call.from + p - 1)]

\* A read has copied nothing yet: where its file is, and where its clusters are followed to.
FatBegun ==
  /\ call.size \in Nat /\ call.remain = call.size /\ call.from = f_offset
  /\ f_offset + call.size <= opened.size
  /\ call.at = f_offset % ClusterSize /\ call.out = <<>>
  /\ call.cached = IF dbuf[1][1] = 0 THEN data_cluster ELSE Nothing
  /\ call.vcn \in 0..(f_offset \div ClusterSize)
  /\ f_cluster = IF trust = "clean" THEN Nth(opened, (f_offset \div ClusterSize) - call.vcn) ELSE 0

\* A read has copied all that it was asked for.
FatCopied ==
  /\ call.remain = 0 /\ call.size \in Nat /\ SectorsCopied(call.out, call.size)
  /\ call.from \in Nat

\* The cluster of the position
Placed == trust = "clean" /\ f_cluster # 0 => f_cluster = ClusterAt(opened, f_offset)

\* The open file is that of the entry found last.
FileFits ==
  opened.kind = "file" =>
    /\ HasClusters(Volume.next, opened) /\ cur_dir = opened
    /\ trust # "spoilt" => f_offset \in 0..opened.size

\* No step repairs trust.
Unrepaired == (trust' = "clean" => trust = "clean") /\ (trust' # "spoilt" => trust # "spoilt")

FatReading ==
  opened.kind = "file" /\ trust # "spoilt" =>
    /\ pc = "locate" => FatBegun
    /\ pc = "copy" => (FatBegun /\ call.vcn = 0) \/ (FatCopied /\ Placed)
    /\ pc = "turn" =>
         /\ FatCopied /\ trust = "clean" /\ f_cluster # 0 /\ f_cluster = ClusterAt(opened, call.from)
         /\ f_offset \div ClusterSize = (call.from \div ClusterSize) + 1
    /\ pc = "done" /\ call.op = "read" =>
         SectorsCopied(result.out, result.n) /\ (trust = "clean" => result.n = call.size)
    /\ pc \notin {"locate", "copy", "turn", "broken"} => Placed

FatInv ==
  /\ CallTyped /\ vol \in DOMAIN VolumeOf /\ ~Ntfs /\ DbufTyped /\ BuffersHonest /\ FileFits
  /\ pc \in {"dir", "scan", "next"} => call.op # "read"
  /\ FatReading

Searching == {"idle", "dir", "scan", "next", "done", "broken"}

\* A step that is not of a read.
LEMMA FatInvKept ==
  ASSUME FatInv, UNCHANGED vol, CallTyped', DbufTyped', BuffersHonest', FileFits',
         pc' \in Searching, pc' \in {"dir", "scan", "next", "done"} => call'.op # "read",
         pc' # "broken" /\ (opened.kind = "file")' => Placed'
  PROVE  FatInv'
<1>1. ~Ntfs' /\ vol' \in DOMAIN VolumeOf
  BY DEF FatInv, Ntfs, Volume
<1>2. pc' \notin {"locate", "copy", "turn"}
  BY DEF Searching
<1>3. pc' = "done" => call'.op # "read"
  OBVIOUS
<1>4. FatReading'
  BY <1>2, <1>3 DEF FatReading
<1> QED BY <1>1, <1>4 DEF FatInv

\* One that leaves the open file and its position alone.
LEMMA FatInvApart ==
  ASSUME FatInv, UNCHANGED <<vol, cur_dir, opened, f_offset, f_cluster>>, CallTyped', DbufTyped', BuffersHonest',
         Unrepaired, pc \in Searching, pc # "broken",
         pc' \in Searching, pc' \in {"dir", "scan", "next", "done"} => call'.op # "read"
  PROVE  FatInv'
<1>1. FileFits'
  BY DEF FatInv, FileFits, Volume, Unrepaired
<1>2. ASSUME opened.kind = "file" PROVE Placed'
  <2>1. trust' = "clean" => trust = "clean"
    BY DEF Unrepaired
  <2>2. trust = "clean" => Placed
    BY <1>2 DEF FatInv, FatReading, Searching
  <2> QED BY <2>1, <2>2 DEF Placed, ClusterAt, Nth, Volume
<1> QED BY <1>1, <1>2, FatInvKept

\* An entry is found, and it is the open file from now on or not.
LEMMA FoundKeeps ==
  ASSUME FatInv, NEW e \in Fitting, Found(e), UNCHANGED <<vol, trust>>, DbufTyped', BuffersHonest',
         pc = "scan", OnFatVolume(Volume)
  PROVE  FatInv'
<1> DEFINE rest == Tail(call.rest)
<1>1. CallTyped /\ call.op # "read" /\ FileFits /\ (opened.kind = "file" => Placed)
  <2>1. trust # "clean" => Placed
    BY DEF Placed
  <2> QED BY <2>1 DEF FatInv, FatReading
<1>2. CallTyped' /\ call'.op = call.op /\ pc' \in {"dir", "done"}
  <2>1. CASE rest # <<>> /\ e.kind # "dir"
    BY <1>1, <2>1 DEF Found, CallTyped, Finish
  <2>2. CASE rest # <<>> /\ ~(e.kind # "dir")
    BY <1>1, <2>2 DEF Found, CallTyped, GoOn, Scan
  <2>3. CASE rest = <<>> /\ call.op = "list" /\ e.kind = "dir"
    BY <1>1, <2>3 DEF Found, CallTyped, GoOn, Scan
  <2>4. CASE rest = <<>> /\ ~(call.op = "list" /\ e.kind = "dir")
    BY <1>1, <2>4 DEF Found, CallTyped, Finish
  <2> QED BY <2>1, <2>2, <2>3, <2>4
<1>3. \/ UNCHANGED <<cur_dir, opened, f_offset, f_cluster>>
      \/ cur_dir' = e /\ UNCHANGED <<f_offset, f_cluster>> /\ Replaces(e)
      \/ cur_dir' = e /\ Opens(e)
  BY Zenon DEF Found
<1>4. FileFits' /\ ((opened.kind = "file")' => Placed')
  <2>1. CASE UNCHANGED <<cur_dir, opened, f_offset, f_cluster>>
    BY <1>1, <2>1 DEF FileFits, Placed, ClusterAt, Nth, Volume
  <2>2. CASE cur_dir' = e /\ UNCHANGED <<f_offset, f_cluster>> /\ Replaces(e)
    <3>1. SUFFICES ASSUME (opened.kind = "file")' PROVE FileFits' /\ Placed'
      BY DEF FileFits
    <3>2. opened' = e /\ opened = e
      BY <2>2, <3>1 DEF Replaces, Lost, NoEntry
    <3> QED BY <1>1, <2>2, <3>1, <3>2 DEF FileFits, Placed, ClusterAt, Nth, Volume
  <2>3. CASE cur_dir' = e /\ Opens(e)
    <3>1. opened' = e /\ f_offset' = 0 /\ f_cluster' = 0
      BY <2>3 DEF Opens
    <3>2. e.size \in Nat /\ (e.kind = "file" => HasClusters(Volume.next, e))
      BY DEF Fitting
    <3>3. Volume' = Volume
      BY DEF Volume
    <3> QED BY <2>3, <3>1, <3>2, <3>3 DEF FileFits, Placed
  <2> QED BY <1>3, <2>1, <2>2, <2>3
<1> QED BY <1>1, <1>2, <1>4, FatInvKept DEF Searching

LEMMA FatScan ==
  ASSUME FatInv, ScanBuffer, DbufTyped', BuffersHonest'
  PROVE  FatInv'
<1> DEFINE entries == EntriesIn(Visible(dbuf))
           before == LfnBefore(entries, call.lfn)
           hits == {n \in Shown(entries) : ~call.list /\ Named(entries[n], before[n], call.rest)}
<1>1. CallTyped /\ call.op # "read" /\ pc = "scan" /\ OnFatVolume(Volume) /\ UNCHANGED <<vol, trust>>
  BY FatVolumeIs DEF FatInv, ScanBuffer
<1>2. CASE hits # {}
  <2>1. Len(Visible(dbuf)) \in Nat
    BY VisibleIs DEF FatInv
  <2>2. entries \in Seq(Fitting)
    BY <1>1, <2>1, EntriesAre
  <2> HIDE DEF entries
  <2>3. hits \subseteq DOMAIN entries /\ DOMAIN entries \subseteq Nat
    <3>1. hits \subseteq DOMAIN entries
      BY DEF Shown
    <3>2. DOMAIN entries \subseteq Nat
      BY <2>2
    <3> QED BY <3>1, <3>2
  <2> HIDE DEF hits
  <2>4. Least(hits) \in DOMAIN entries
    BY <1>2, <2>3, LeastIsLeast
  <2>5. entries[Least(hits)] \in Fitting
    BY <2>2, <2>4
  <2>6. Found(entries[Least(hits)])
    BY <1>2 DEF ScanBuffer, hits, entries
  <2> QED BY <1>1, <2>5, <2>6, FoundKeeps
<1>3. CASE hits = {}
  <2>1. pc' = "next" /\ UNCHANGED <<cur_dir, opened, f_offset, f_cluster>> /\
        \E lfn, count : call' = [call EXCEPT !.lfn = lfn, !.count = count]
    <3> HIDE DEF before, entries
    <3>1. GoOn("next") /\ UNCHANGED <<cur_dir, opened, f_offset, f_cluster>> /\
          call' = [call EXCEPT !.lfn = before[Len(entries) + 1],
                               !.count = @ + IF call.list THEN Cardinality(Shown(entries)) ELSE 0]
      BY <1>3, Zenon DEF ScanBuffer, before, entries
    <3> QED BY <3>1 DEF GoOn
  <2>2. CallTyped' /\ call'.op = call.op
    BY <1>1, <2>1 DEF CallTyped
  <2> QED BY <1>1, <2>1, <2>2, FatInvApart DEF Searching, Unrepaired
<1> QED BY <1>2, <1>3

LEMMA NextUnrepaired ==
  ASSUME NEW c, NEW n, NextCluster(c, n)
  PROVE  Unrepaired
BY DEF NextCluster, Noticed, Unnoticed, Unrepaired

LEMMA FatFindSteps ==
  ASSUME FatInv, DbufTyped', BuffersHonest',
         ReadRoot \/ ReadDir \/ NextRootSector \/ NextDirCluster
  PROVE  FatInv'
<1>1. CallTyped /\ (pc \in {"dir", "scan", "next"} => call.op # "read")
  BY DEF FatInv
<1>2. pc \in {"dir", "next"} /\ pc' \in Searching
  <2>1. ReadRoot => pc = "dir" /\ pc' \in Searching
    BY DEF ReadRoot, Finish, GoOn, Searching
  <2>2. ReadDir => pc = "dir" /\ pc' \in Searching
    BY DEF ReadDir, Finish, GoOn, Searching
  <2>3. NextRootSector \/ NextDirCluster => pc = "next" /\ pc' \in Searching
    BY DEF NextRootSector, NextDirCluster, NotFound, Finish, GoOn, Searching
  <2> QED BY <2>1, <2>2, <2>3
<1>3. UNCHANGED <<vol, cur_dir, opened, f_offset, f_cluster>>
  BY DEF ReadRoot, ReadDir, NextRootSector, NextDirCluster, fatVars
<1>4. Unrepaired
  <2>1. ReadRoot => Unrepaired
    BY DEF ReadRoot, Noticed, Unnoticed, Unrepaired
  <2>2. ReadDir => Unrepaired
    BY DEF ReadDir, Noticed, Unrepaired
  <2>3. NextRootSector => Unrepaired
    BY DEF NextRootSector, Unrepaired
  <2>4. NextDirCluster => Unrepaired
    BY NextUnrepaired DEF NextDirCluster, Unrepaired
  <2> QED BY <2>1, <2>2, <2>3, <2>4
<1>5. CallTyped' /\ call'.op = call.op
  <2>1. \/ UNCHANGED call
        \/ call' = [call EXCEPT !.i = @ + 1]
        \/ \E n : call' = [call EXCEPT !.dir = n]
    <3>1. ReadRoot \/ ReadDir => UNCHANGED call
      BY DEF ReadRoot, ReadDir
    <3>2. NextRootSector => UNCHANGED call \/ call' = [call EXCEPT !.i = @ + 1]
      BY DEF NextRootSector
    <3>3. NextDirCluster => UNCHANGED call \/ \E n : call' = [call EXCEPT !.dir = n]
      BY DEF NextDirCluster
    <3> QED BY <3>1, <3>2, <3>3
  <2> QED BY <1>1, <2>1 DEF CallTyped
<1> QED BY <1>1, <1>2, <1>3, <1>4, <1>5, FatInvApart DEF Searching

LEMMA SectorsCopiedKept ==
  ASSUME UNCHANGED <<vol, opened>>, call'.cached = call.cached, call'.from = call.from,
         NEW out, NEW n, SectorsCopied(out, n)
  PROVE  /\ call'.out = out /\ call'.size = n => SectorsCopied(call.out, call.size)'
         /\ result'.out = out /\ result'.n = n => SectorsCopied(result.out, result.n)'
BY DEF SectorsCopied, SectorAt, ClusterAt, Nth, Volume

\* What a step of a read has to show
LEMMA FatInvRead ==
  ASSUME FatInv, UNCHANGED <<vol, cur_dir, opened>>, CallTyped', DbufTyped', BuffersHonest', Unrepaired,
         pc' \notin {"dir", "scan", "next"},
         opened.kind = "file" /\ trust' # "spoilt" => FatReading' /\ f_offset' \in 0..opened.size
  PROVE  FatInv'
<1>1. ~Ntfs' /\ vol' \in DOMAIN VolumeOf /\ FileFits
  BY DEF FatInv, Ntfs, Volume
<1>2. FileFits'
  BY <1>1 DEF FileFits, Volume
<1>3. FatReading'
  BY DEF FatReading
<1> QED BY <1>1, <1>2, <1>3 DEF FatInv

\* the loop that follows the chain to the position
LEMMA FatLocate ==
  ASSUME FatInv, Locate, DbufTyped', BuffersHonest'
  PROVE  FatInv'
<1> DEFINE q == f_offset \div ClusterSize
<1>1. /\ CallTyped /\ pc = "locate" /\ OnFatVolume(Volume) /\ BuffersHonest
      /\ UNCHANGED <<vol, dbuf, data_cluster, cur_dir, f_offset, opened>>
  BY FatVolumeIs DEF FatInv, Locate
<1>2. ASSUME opened.kind = "file", trust # "spoilt"
      PROVE  FatBegun /\ HasClusters(Volume.next, opened) /\ f_offset \in 0..opened.size
  BY <1>1, <1>2 DEF FatInv, FatReading, FileFits
<1>3. CASE call.vcn = 0
  <2>1. pc' = "copy" /\ UNCHANGED <<call, f_cluster, trust>>
    BY <1>3 DEF Locate, GoOn
  <2>2. CallTyped' /\ Unrepaired
    BY <1>1, <2>1 DEF CallTyped, Unrepaired
  <2>3. ASSUME opened.kind = "file", trust' # "spoilt"
        PROVE  FatReading' /\ f_offset' \in 0..opened.size
    <3>1. FatBegun /\ f_offset \in 0..opened.size
      BY <1>2, <2>1, <2>3
    <3>2. FatBegun' /\ call'.vcn = 0
      BY <1>1, <1>3, <2>1, <3>1 DEF FatBegun, Nth, Volume
    <3> QED BY <1>1, <2>1, <3>1, <3>2 DEF FatReading
  <2> QED BY <1>1, <2>1, <2>2, <2>3, FatInvRead
<1>4. CASE call.vcn # 0
  <2>1. PICK n : NextCluster(f_cluster, n) /\ f_cluster' = n
    BY <1>4 DEF Locate
  <2>2. call' = [call EXCEPT !.vcn = @ - 1] /\ pc' = "locate"
    BY <1>1, <1>4 DEF Locate, GoOn
  <2>3. /\ CallTyped' /\ call'.vcn = call.vcn - 1 /\ call'.size = call.size /\ call'.remain = call.remain
        /\ call'.from = call.from /\ call'.at = call.at /\ call'.out = call.out /\ call'.cached = call.cached
    BY <1>1, <2>2 DEF CallTyped
  <2>4. Unrepaired
    BY <2>1, NextUnrepaired
  <2>5. ASSUME opened.kind = "file", trust' # "spoilt"
        PROVE  FatReading' /\ f_offset' \in 0..opened.size
    <3> DEFINE k == q - call.vcn
    <3>1. trust # "spoilt"
      BY <2>4, <2>5 DEF Unrepaired
    <3>2. FatBegun /\ HasClusters(Volume.next, opened) /\ f_offset \in 0..opened.size
      BY <1>2, <2>5, <3>1
    <3>3. q \in Nat /\ call.vcn \in 0..q
      <4>1. f_offset \in Nat
        BY <3>2
      <4>2. q \in Nat
        BY <4>1, DivMod, CallAssumption
      <4> QED BY <3>2, <4>2 DEF FatBegun
    <3> HIDE DEF q
    <3>4. k \in Nat /\ q - (call.vcn - 1) = k + 1 /\ call.vcn - 1 \in 0..q
      BY <1>4, <3>3
    <3>5. f_cluster = IF trust = "clean" THEN Nth(opened, k) ELSE 0
      BY <3>2 DEF FatBegun, q
    <3>6. f_cluster \in DOMAIN Volume.next
      <4>1. 0 \in DOMAIN Volume.next
        BY <1>1 DEF OnFatVolume
      <4> QED BY <1>1, <3>2, <3>5, <4>1, NthIs
    <3>7. /\ trust' = "clean" => trust = "clean" /\ f_cluster # 0 /\ f_cluster' = Volume.next[f_cluster]
          /\ trust' # "clean" => f_cluster' = 0
      <4>1. trust # "clean" => f_cluster = 0
        BY <3>5
      <4> QED BY <1>1, <2>1, <2>5, <3>1, <3>6, <4>1, NextIs
    <3> HIDE DEF k
    <3>8. trust' = "clean" => f_cluster' = Nth(opened, k + 1)
      BY <1>1, <3>2, <3>4, <3>5, <3>7, NthIs
    <3>9. f_cluster' = IF trust' = "clean" THEN Nth(opened, q - (call.vcn - 1)) ELSE 0
      BY <3>4, <3>7, <3>8
    <3>10. (f_cluster = IF trust = "clean" THEN Nth(opened, (f_offset \div ClusterSize) - call.vcn) ELSE 0)'
      BY <1>1, <2>3, <3>9 DEF q, Nth, Volume
    <3>11. (call.vcn \in 0..(f_offset \div ClusterSize))'
      BY <1>1, <2>3, <3>4 DEF q
    <3>12. FatBegun'
      BY <1>1, <2>3, <3>2, <3>10, <3>11 DEF FatBegun
    <3> QED BY <1>1, <2>2, <3>2, <3>12 DEF FatReading
  <2> QED BY <1>1, <2>2, <2>3, <2>4, <2>5, FatInvRead
<1> QED BY <1>3, <1>4

\* and the one that goes on behind a cluster
LEMMA FatTurn ==
  ASSUME FatInv, Turn, DbufTyped', BuffersHonest'
  PROVE  FatInv'
<1>1. /\ CallTyped /\ pc = "turn" /\ OnFatVolume(Volume) /\ BuffersHonest
      /\ UNCHANGED <<vol, dbuf, data_cluster, cur_dir, f_offset, opened>>
      /\ pc' = "copy" /\ call' = [call EXCEPT !.at = 0]
  BY FatVolumeIs DEF FatInv, Turn
<1>2. /\ CallTyped' /\ call'.size = call.size /\ call'.remain = call.remain
      /\ call'.from = call.from /\ call'.out = call.out /\ call'.cached = call.cached
  BY <1>1 DEF CallTyped
<1>3. PICK n : NextCluster(f_cluster, n) /\ f_cluster' = n
  BY DEF Turn
<1>4. Unrepaired
  BY <1>3, NextUnrepaired
<1>5. ASSUME opened.kind = "file", trust' # "spoilt"
      PROVE  FatReading' /\ f_offset' \in 0..opened.size
  <2> DEFINE k == call.from \div ClusterSize
  <2>1. trust # "spoilt"
    BY <1>4, <1>5 DEF Unrepaired
  <2>2. /\ FatCopied /\ trust = "clean" /\ f_cluster # 0 /\ f_cluster = ClusterAt(opened, call.from)
        /\ f_offset \div ClusterSize = k + 1
        /\ HasClusters(Volume.next, opened) /\ f_offset \in 0..opened.size
    BY <1>1, <1>5, <2>1 DEF FatInv, FatReading, FileFits
  <2>3. k \in Nat
    <3>1. call.from \in Nat
      BY <2>2 DEF FatCopied
    <3> QED BY <3>1, DivMod, CallAssumption
  <2> HIDE DEF k
  <2>4. f_cluster = Nth(opened, k) /\ f_cluster \in DOMAIN Volume.next
    BY <1>1, <2>2, NthIs DEF ClusterAt, k
  <2>5. trust' = "clean" => f_cluster' = Volume.next[f_cluster]
    BY <1>1, <1>3, <1>5, <2>2, <2>4, NextIs
  <2>6. trust' = "clean" => f_cluster' = Nth(opened, k + 1)
    BY <1>1, <2>2, <2>3, <2>4, <2>5, NthIs
  <2>7. Placed'
    BY <1>1, <2>2, <2>6 DEF Placed, ClusterAt, Nth, Volume
  <2>8. FatCopied'
    <3>1. SectorsCopied(call.out, call.size)'
      BY <1>1, <1>2, <2>2, SectorsCopiedKept DEF FatCopied
    <3> QED BY <1>2, <2>2, <3>1 DEF FatCopied
  <2> QED BY <1>1, <2>2, <2>7, <2>8 DEF FatReading
<1> QED BY <1>1, <1>2, <1>4, <1>5, FatInvRead

\* After a read of the cluster the buffer holds it, if no root sector lies over it.
LEMMA CopiedFrom ==
  ASSUME FatInv, trust = "clean", FatBegun, NEW c \in Nat, ReadCluster(c, "ok"),
         call.cached = Nothing \/ call.cached # c
  PROVE  \A k \in 1..ClusterSize : dbuf'[k] = <<c, k>>
<1>1. CASE data_cluster = c
  <2>1. dbuf' = dbuf
    BY <1>1 DEF ReadCluster
  <2>2. dbuf[1][1] # 0
    <3>1. c # Nothing
      BY DEF Nothing
    <3> QED BY <1>1, <3>1 DEF FatBegun
  <2>3. \A k \in 1..ClusterSize : dbuf[k] = <<data_cluster, k>> \/ (k = 1 /\ dbuf[k][1] = 0)
    BY <1>1 DEF FatInv, BuffersHonest, Nothing
  <2> QED BY <1>1, <2>1, <2>2, <2>3
<1>2. CASE data_cluster # c
  <2>1. dbuf' = Cluster(c)
    BY <1>2 DEF ReadCluster, ReadSectors
  <2> QED BY <2>1 DEF Cluster
<1> QED BY <1>1, <1>2

\* The sectors from a position to the end of its cluster
LEMMA PartIs ==
  ASSUME NEW o \in Nat, NEW n \in Nat, (o % ClusterSize) + n = ClusterSize, NEW e, NEW c, c = ClusterAt(e, o),
         NEW buffer, \A k \in 1..ClusterSize : buffer[k] = <<c, k>>
  PROVE  SubSeq(buffer, (o % ClusterSize) + 1, (o % ClusterSize) + n) = [p \in 1..n |-> SectorAt(e, o + p - 1)]
<1> DEFINE at == o % ClusterSize
<1>1. at \in Nat /\ at + n = ClusterSize
  BY DivMod, CallAssumption
<1>2. \A p \in 1..n : SectorAt(e, o + p - 1) = <<c, at + p>>
  <2> SUFFICES ASSUME NEW p \in 1..n PROVE SectorAt(e, o + p - 1) = <<c, at + p>>
    OBVIOUS
  <2> DEFINE x == o + (p - 1)
  <2>1. p - 1 \in Nat /\ o + p - 1 = x
    OBVIOUS
  <2>2. (o % ClusterSize) + (p - 1) < ClusterSize
    <3> HIDE DEF at
    <3>1. at + (p - 1) < ClusterSize
      BY <1>1
    <3> QED BY <3>1 DEF at
  <2>3. x \div ClusterSize = o \div ClusterSize /\ x % ClusterSize = at + (p - 1)
    BY <2>1, <2>2, SameCluster
  <2> HIDE DEF x, at
  <2>4. (at + (p - 1)) + 1 = at + p
    BY <1>1
  <2> QED BY <2>1, <2>3, <2>4 DEF SectorAt, ClusterAt
<1> HIDE DEF at
<1>3. \A p \in 1..n : at + p \in 1..ClusterSize
  BY <1>1
<1>4. SubSeq(buffer, at + 1, at + n) = [p \in 1..n |-> <<c, at + p>>]
  <2>1. SubSeq(buffer, at + 1, at + n) = [p \in 1..n |-> buffer[at + p]]
    <3> DEFINE S == {buffer[k] : k \in 1..ClusterSize}
               s == SubSeq(buffer, at + 1, at + n)
    <3>1. at + 1 \in Int /\ at + n \in Int /\ \A k \in (at + 1)..(at + n) : k \in 1..ClusterSize
      BY <1>1
    <3>2. \A k \in (at + 1)..(at + n) : buffer[k] \in S
      BY <3>1
    <3> HIDE DEF S
    <3>3. /\ s \in Seq(S) /\ Len(s) = IF at + 1 <= at + n THEN (at + n) - (at + 1) + 1 ELSE 0
          /\ \A p \in 1..((at + n) - (at + 1) + 1) : s[p] = buffer[(at + 1) + p - 1]
      BY <3>1, <3>2, SubSeqProperties
    <3> HIDE DEF s
    <3>4. (at + n) - (at + 1) + 1 = n /\ (at + 1 <= at + n <=> n # 0) /\ \A p \in 1..n : (at + 1) + p - 1 = at + p
      BY <1>1
    <3>5. Len(s) = n /\ \A p \in 1..n : s[p] = buffer[at + p]
      BY <3>3, <3>4
    <3>6. s = [p \in 1..Len(s) |-> s[p]]
      BY <3>3
    <3> QED BY <3>5, <3>6 DEF s
  <2> QED BY <1>3, <2>1
<1> QED BY <1>2, <1>4 DEF at

\* A round that ends with its cluster
LEMMA NextClusterOf ==
  ASSUME NEW o \in Nat, NEW n \in Nat, (o % ClusterSize) + n = ClusterSize
  PROVE  (o + n) \div ClusterSize = (o \div ClusterSize) + 1
<1> DEFINE q == o \div ClusterSize
           r == o % ClusterSize
           x == o + n
<1>1. q \in Nat /\ r \in Nat /\ q * ClusterSize + r = o /\ ClusterSize \in Nat \ {0} /\ r + n = ClusterSize
  BY DivMod, CallAssumption
<1> HIDE DEF q, r
<1>2. x \in Int /\ q + 1 \in Int /\ 0 \in 0..(ClusterSize - 1) /\ x = (q + 1) * ClusterSize + 0
  BY <1>1
<1> HIDE DEF x
<1>3. x \div ClusterSize = q + 1
  BY <1>1, <1>2, DivIs
<1> QED BY <1>3 DEF x, q

\* A round that copies: it copies all, since otherwise it leaves the buffers.
LEMMA FatRound ==
  ASSUME FatInv, Copy, pc = "copy", call.remain # 0, f_cluster # 0, opened.kind = "file",
         trust' # "spoilt", OnFatVolume(Volume), CallTyped',
         Overrun(ReadSize(ClusterSize - call.at, call.remain)) = "none"
  PROVE  FatReading' /\ f_offset' \in 0..opened.size
<1> DEFINE n == ReadSize(ClusterSize - call.at, call.remain)
           part == SubSeq(dbuf', call.at + 1, call.at + n)
<1>1. /\ UNCHANGED <<vol, cur_dir, f_cluster, opened>> /\ f_offset' = f_offset + n
      /\ call' = [call EXCEPT !.out = @ \o part, !.remain = @ - n, !.at = @ + n]
      /\ pc' = IF call.at + n >= ClusterSize THEN "turn" ELSE "copy"
  BY DEF Copy, GoOn
<1>2. PICK got \in {"ok", "negative"} : ReadCluster(f_cluster, got) /\ (IF got = "ok" THEN UNCHANGED trust ELSE Unnoticed)
  BY DEF Copy
<1>3. got = "ok" /\ trust' = trust
  BY <1>2 DEF Unnoticed
<1>4. /\ trust # "spoilt" /\ FatReading /\ CallTyped /\ FileFits
  BY <1>3 DEF FatInv
<1>5. /\ FatBegun /\ call.vcn = 0 /\ HasClusters(Volume.next, opened) /\ f_offset \in 0..opened.size
  BY <1>4 DEF FatReading, FatCopied, FileFits
<1>6. /\ call.size \in Nat /\ call.remain = call.size /\ call.from = f_offset /\ f_offset \in Nat
      /\ f_offset + call.size <= opened.size /\ call.at = f_offset % ClusterSize /\ call.out = <<>>
      /\ opened.size \in Nat
  BY <1>5 DEF FatBegun, HasClusters
<1>7. trust = "clean" /\ f_cluster = ClusterAt(opened, f_offset)
  <2> DEFINE q == f_offset \div ClusterSize
  <2>1. q \in Nat
    BY <1>6, DivMod, CallAssumption
  <2>2. f_cluster = IF trust = "clean" THEN Nth(opened, q - call.vcn) ELSE 0
    BY <1>5 DEF FatBegun
  <2> HIDE DEF q
  <2>3. q - call.vcn = q
    BY <1>5, <2>1
  <2> QED BY <2>2, <2>3 DEF ClusterAt, q
<1>8. call.at \in 0..(ClusterSize - 1) /\ ClusterSize \in Nat
  BY <1>6, DivMod, CallAssumption
<1>9. n = call.size /\ call.at + n = ClusterSize
  <2> DEFINE left == ClusterSize - call.at
  <2>1. left \in Nat \ {0}
    BY <1>8
  <2>2. call.remain \in Int
    BY <1>6
  <2>3. n \in Nat /\ n >= left /\ (n <= call.remain => n = call.remain)
    BY <2>1, <2>2, RoundIs
  <2> HIDE DEF n
  <2>4. ~(n > call.remain) /\ ~(call.at + n > ClusterSize)
    BY DEF Overrun, n
  <2> QED BY <1>6, <1>8, <2>3, <2>4
<1> HIDE DEF n
<1>10. /\ call'.size = call.size /\ call'.from = call.from /\ call'.cached = call.cached
       /\ call'.remain = call.remain - n /\ call'.out = call.out \o part
  <2> HIDE DEF part
  <2>1. CallTyped
    BY <1>4
  <2>2. call' = [call EXCEPT !.out = @ \o part, !.remain = @ - n, !.at = @ + n]
    BY <1>1
  <2> QED BY <2>1, <2>2 DEF CallTyped
<1> DEFINE sectors == [p \in 1..n |-> SectorAt(opened, f_offset + p - 1)]
<1>11. call.cached = Nothing \/ call.cached # f_cluster => part = sectors
  <2> SUFFICES ASSUME call.cached = Nothing \/ call.cached # f_cluster PROVE part = sectors
    OBVIOUS
  <2>1. f_cluster \in Nat
    BY <1>5, <1>7, NthIs DEF ClusterAt, OnFatVolume
  <2>2. \A k \in 1..ClusterSize : dbuf'[k] = <<f_cluster, k>>
    BY <1>2, <1>3, <1>5, <1>7, <2>1, CopiedFrom
  <2>3. n \in Nat /\ (f_offset % ClusterSize) + n = ClusterSize /\ call.at = f_offset % ClusterSize
    BY <1>6, <1>9
  <2>4. f_offset \in Nat /\ f_cluster = ClusterAt(opened, f_offset)
    BY <1>6, <1>7
  <2>5. SubSeq(dbuf', (f_offset % ClusterSize) + 1, (f_offset % ClusterSize) + n)
          = [p \in 1..n |-> SectorAt(opened, f_offset + p - 1)]
    BY <2>2, <2>3, <2>4, PartIs
  <2> QED BY <2>3, <2>5
<1>12. call.out \o sectors = sectors
  <2>1. n \in Nat
    BY <1>6, <1>9
  <2>2. sectors \in Seq({sectors[p] : p \in 1..n})
    <3> DEFINE S == {sectors[p] : p \in 1..n}
    <3>1. \A p \in 1..n : sectors[p] \in S
      OBVIOUS
    <3>2. sectors = [p \in 1..n |-> sectors[p]]
      OBVIOUS
    <3> HIDE DEF S, sectors
    <3>3. sectors \in [1..n -> S]
      BY <3>1, <3>2
    <3>4. sectors \in Seq(S)
      BY <2>1, <3>3
    <3> QED BY <3>4 DEF S
  <2> HIDE DEF sectors
  <2>3. <<>> \o sectors = sectors
    BY <2>2
  <2> QED BY <1>6, <2>3
<1>13. SectorsCopied(sectors, call.size)
  BY <1>6, <1>9 DEF SectorsCopied
<1> HIDE DEF part, sectors
<1>14. SectorsCopied(call.out, call.size)'
  <2>1. CASE call.cached = Nothing \/ call.cached # f_cluster
    <3>1. call'.out = sectors
      BY <1>10, <1>11, <1>12, <2>1
    <3> QED BY <1>1, <1>10, <1>13, <3>1, SectorsCopiedKept
  <2>2. CASE ~(call.cached = Nothing \/ call.cached # f_cluster)
    <3>1. call'.cached # Nothing /\ call'.cached = ClusterAt(opened, call.from)'
      BY <1>1, <1>6, <1>7, <1>10, <2>2 DEF ClusterAt, Nth, Volume
    <3> QED BY <3>1 DEF SectorsCopied
  <2> QED BY <2>1, <2>2
<1>15. FatCopied' /\ pc' = "turn"
  <2>1. call'.remain = 0 /\ call.at + n >= ClusterSize
    BY <1>6, <1>8, <1>9, <1>10
  <2> QED BY <1>1, <1>6, <1>10, <1>14, <2>1 DEF FatCopied
<1>16. f_cluster' = ClusterAt(opened, call.from)'
  BY <1>1, <1>6, <1>7, <1>10 DEF ClusterAt, Nth, Volume
<1>17. (f_offset \div ClusterSize = (call.from \div ClusterSize) + 1)'
  <2>1. n \in Nat /\ (f_offset % ClusterSize) + n = ClusterSize
    BY <1>6, <1>9
  <2>2. (f_offset + n) \div ClusterSize = (f_offset \div ClusterSize) + 1
    BY <1>6, <2>1, NextClusterOf
  <2> QED BY <1>1, <1>6, <1>10, <2>2
<1>18. f_offset' \in 0..opened.size
  BY <1>1, <1>6, <1>9
<1> QED BY <1>1, <1>3, <1>7, <1>15, <1>16, <1>17, <1>18 DEF FatReading

\* The end of the loop
LEMMA FatReadEnds ==
  ASSUME FatInv, Copy, call.remain = 0 \/ f_cluster = 0, opened.kind = "file", trust' # "spoilt",
         OnFatVolume(Volume)
  PROVE  FatReading' /\ f_offset' \in 0..opened.size
<1>1. /\ pc = "copy" /\ pc' = "done" /\ result' = [kind |-> "data", n |-> call.size - call.remain, out |-> call.out]
      /\ UNCHANGED <<vol, opened, f_cluster, f_offset, call, trust>>
  BY DEF Copy, Finish
<1>2. /\ (FatBegun /\ call.vcn = 0) \/ (FatCopied /\ Placed)
      /\ HasClusters(Volume.next, opened) /\ f_offset \in 0..opened.size /\ CallTyped
  BY <1>1 DEF FatInv, FatReading, FileFits
<1>3. Placed => Placed'
  BY <1>1 DEF Placed, ClusterAt, Nth, Volume
<1>4. ASSUME NEW n, SectorsCopied(call.out, n), call.size - call.remain = n,
             trust = "clean" => call.size = n, Placed
      PROVE  FatReading' /\ f_offset' \in 0..opened.size
  <2>1. result'.out = call.out /\ result'.n = n
    BY <1>1, <1>4
  <2>2. SectorsCopied(result.out, result.n)'
    BY <1>1, <1>4, <2>1, SectorsCopiedKept
  <2> QED BY <1>1, <1>2, <1>3, <1>4, <2>1, <2>2 DEF FatReading
<1>5. CASE FatCopied /\ Placed
  <2>1. SectorsCopied(call.out, call.size) /\ call.size - call.remain = call.size
    BY <1>5 DEF FatCopied
  <2> QED BY <1>4, <1>5, <2>1
<1>6. CASE FatBegun /\ call.vcn = 0
  <2>1. /\ call.size \in Nat /\ call.remain = call.size /\ f_offset + call.size <= opened.size /\ call.out = <<>>
        /\ f_cluster = IF trust = "clean" THEN Nth(opened, (f_offset \div ClusterSize) - call.vcn) ELSE 0
        /\ opened.size \in Nat /\ f_offset \in Nat
    BY <1>2, <1>6 DEF FatBegun, HasClusters
  <2>2. trust = "clean" => f_cluster = ClusterAt(opened, f_offset)
    <3> DEFINE q == f_offset \div ClusterSize
    <3>1. q \in Nat
      BY <2>1, DivMod, CallAssumption
    <3>2. f_cluster = IF trust = "clean" THEN Nth(opened, q - call.vcn) ELSE 0
      BY <2>1
    <3> HIDE DEF q
    <3>3. q - call.vcn = q
      BY <1>6, <3>1
    <3> QED BY <3>2, <3>3 DEF ClusterAt, q
  <2>3. trust = "clean" => call.size = 0
    <3> SUFFICES ASSUME trust = "clean", call.size # 0 PROVE FALSE
      OBVIOUS
    <3>1. f_cluster = 0 /\ f_offset \in 0..(opened.size - 1)
      BY <2>1, <1>2
    <3>2. ClusterAt(opened, f_offset) # 0
      BY <1>2, <3>1, NthIs
    <3> QED BY <2>2, <3>1, <3>2
  <2>4. call.size - call.remain = 0
    BY <2>1
  <2>5. SectorsCopied(call.out, 0)
    <3>1. \A e, o : [p \in 1..0 |-> SectorAt(e, o + p - 1)] = <<>>
      OBVIOUS
    <3> QED BY <2>1, <3>1 DEF SectorsCopied
  <2>6. Placed
    BY <2>2 DEF Placed
  <2> QED BY <1>4, <2>3, <2>4, <2>5, <2>6
<1> QED BY <1>2, <1>5, <1>6

LEMMA FatCopy ==
  ASSUME FatInv, Copy, DbufTyped', BuffersHonest'
  PROVE  FatInv'
<1> DEFINE n == ReadSize(ClusterSize - call.at, call.remain)
<1>1. /\ CallTyped /\ pc = "copy" /\ OnFatVolume(Volume) /\ UNCHANGED <<vol, cur_dir, opened>>
  BY FatVolumeIs DEF FatInv, Copy
<1>2. CASE call.remain = 0 \/ f_cluster = 0
  <2>1. pc' = "done" /\ UNCHANGED <<call, trust>>
    BY <1>2 DEF Copy, Finish
  <2>2. CallTyped' /\ Unrepaired
    BY <1>1, <2>1 DEF CallTyped, Unrepaired
  <2>3. opened.kind = "file" /\ trust' # "spoilt" => FatReading' /\ f_offset' \in 0..opened.size
    BY <1>1, <1>2, FatReadEnds
  <2> QED BY <1>1, <2>1, <2>2, <2>3, FatInvRead
<1>3. CASE ~(call.remain = 0 \/ f_cluster = 0)
  <2>1. Unrepaired
    BY <1>3 DEF Copy, Unnoticed, Unrepaired
  <2>2. CASE Overrun(n) # "none"
    <3>1. pc' = "broken" /\ UNCHANGED <<f_offset, call, f_cluster>>
      BY <1>3, <2>2 DEF Copy, Break
    <3>2. CallTyped'
      BY <1>1, <3>1 DEF CallTyped
    <3>3. ASSUME opened.kind = "file", trust' # "spoilt"
          PROVE  FatReading' /\ f_offset' \in 0..opened.size
      <4>1. trust # "spoilt"
        BY <2>1, <3>3 DEF Unrepaired
      <4>2. f_offset \in 0..opened.size
        BY <3>3, <4>1 DEF FatInv, FileFits
      <4> QED BY <3>1, <4>2 DEF FatReading
    <3> QED BY <1>1, <2>1, <3>1, <3>2, <3>3, FatInvRead
  <2>3. CASE Overrun(n) = "none"
    <3>1. /\ \E out, remain, at : call' = [call EXCEPT !.out = out, !.remain = remain, !.at = at]
          /\ pc' \in {"turn", "copy"}
      <4>1. /\ call' = [call EXCEPT !.out = @ \o SubSeq(dbuf', call.at + 1, call.at + n), !.remain = @ - n, !.at = @ + n]
            /\ pc' = IF call.at + n >= ClusterSize THEN "turn" ELSE "copy"
        BY <1>3, <2>3 DEF Copy, GoOn
      <4> HIDE DEF n
      <4> QED BY <4>1
    <3>2. CallTyped'
      BY <1>1, <3>1 DEF CallTyped
    <3>3. opened.kind = "file" /\ trust' # "spoilt" => FatReading' /\ f_offset' \in 0..opened.size
      BY <1>1, <1>3, <2>3, <3>2, FatRound
    <3> QED BY <1>1, <2>1, <3>1, <3>2, <3>3, FatInvRead
  <2> QED BY <2>2, <2>3
<1> QED BY <1>2, <1>3

LEMMA FatRead ==
  ASSUME FatInv, NEW n \in Nat, Read(n), DbufTyped', BuffersHonest'
  PROVE  FatInv'
<1> DEFINE size == IF f_offset + n > cur_dir.size THEN cur_dir.size - f_offset ELSE n
           vcn == IF f_cluster = 0 THEN f_offset \div ClusterSize ELSE 0
           q == f_offset \div ClusterSize
<1>1. /\ CallTyped /\ OnFatVolume(Volume)
      /\ UNCHANGED <<vol, dbuf, data_cluster, cur_dir, f_offset, opened>>
      /\ f_cluster' = IF f_cluster = 0 THEN cur_dir.first ELSE f_cluster
  BY FatVolumeIs DEF FatInv, Read, Starts
<1>2. Starts([NoCall EXCEPT !.op = "read", !.size = size, !.remain = size, !.from = f_offset,
                !.vcn = vcn, !.at = f_offset % ClusterSize,
                !.cached = IF dbuf[1][1] = 0 THEN data_cluster ELSE Nothing], "locate")
  BY DEF Read
<1> HIDE DEF size, vcn
<1>3. /\ CallTyped' /\ call'.size = size /\ call'.remain = size /\ call'.from = f_offset /\ call'.vcn = vcn
      /\ call'.at = f_offset % ClusterSize /\ call'.out = <<>>
      /\ call'.cached = IF dbuf[1][1] = 0 THEN data_cluster ELSE Nothing
      /\ pc = "idle" /\ pc' = "locate" /\ trust' = IF trust = "clean" THEN "clean" ELSE "spoilt"
  BY <1>2 DEF Starts, NoCall, CallTyped
<1>4. Unrepaired
  BY <1>3 DEF Unrepaired
<1>5. ASSUME opened.kind = "file", trust' # "spoilt"
      PROVE  FatReading' /\ f_offset' \in 0..opened.size
  <2>1. trust = "clean" /\ trust' = "clean"
    BY <1>3, <1>5
  <2>2. /\ HasClusters(Volume.next, opened) /\ cur_dir = opened /\ f_offset \in 0..opened.size /\ Placed
    BY <1>3, <1>5, <2>1 DEF FatInv, FileFits, FatReading
  <2>3. opened.size \in Nat /\ f_offset \in Nat
    BY <2>2 DEF HasClusters
  <2>4. size \in Nat /\ f_offset + size <= opened.size
    BY <2>2, <2>3 DEF size
  <2>5. q \in Nat
    BY <2>3, DivMod, CallAssumption
  <2>6. vcn \in 0..q /\ f_cluster' = Nth(opened, q - vcn)
    <3>1. CASE f_cluster = 0
      <4>1. vcn = q
        BY <3>1 DEF vcn
      <4> HIDE DEF q
      <4>2. vcn \in 0..q /\ q - vcn = 0
        BY <2>5, <4>1
      <4> QED BY <1>1, <2>2, <3>1, <4>2, NthIs
    <3>2. CASE f_cluster # 0
      <4>1. vcn = 0 /\ f_cluster' = Nth(opened, q)
        BY <1>1, <2>1, <2>2, <3>2 DEF vcn, Placed, ClusterAt
      <4> HIDE DEF q
      <4>2. vcn \in 0..q /\ q - vcn = q
        BY <2>5, <4>1
      <4> QED BY <4>1, <4>2
    <3> QED BY <3>1, <3>2
  <2>7. (f_cluster = IF trust = "clean" THEN Nth(opened, (f_offset \div ClusterSize) - call.vcn) ELSE 0)'
    BY <1>1, <1>3, <2>1, <2>6 DEF Nth, Volume
  <2>8. (call.vcn \in 0..(f_offset \div ClusterSize))'
    BY <1>1, <1>3, <2>6
  <2>9. FatBegun'
    BY <1>1, <1>3, <2>4, <2>7, <2>8 DEF FatBegun
  <2> QED BY <1>1, <1>3, <2>2, <2>9 DEF FatReading
<1> QED BY <1>1, <1>3, <1>4, <1>5, FatInvRead

LEMMA FatCalls ==
  ASSUME FatInv, FileCall1, DbufTyped', BuffersHonest'
  PROVE  FatInv'
<1>1. CallTyped /\ ~Ntfs /\ FileFits
  BY DEF FatInv
<1>2. ASSUME NEW op \in {"stat", "open", "list"}, NEW path, FatFind(op, path)
      PROVE  FatInv'
  <2>1. PICK tail : Starts([NoCall EXCEPT !.op = op, !.path = path, !.rest = path, !.dir = RootCluster,
                              !.tail = tail, !.list = (path = <<>>), !.cached = data_cluster], "dir")
    BY <1>2 DEF FatFind
  <2>2. /\ CallTyped' /\ call'.op = op /\ pc = "idle" /\ pc' = "dir" /\ UNCHANGED vol
        /\ trust' = IF trust = "clean" THEN "clean" ELSE "spoilt"
    BY <2>1 DEF Starts, NoCall, CallTyped
  <2>3. UNCHANGED <<cur_dir, opened, f_offset, f_cluster>>
    BY <1>2 DEF FatFind, fatVars
  <2>4. Unrepaired
    BY <2>2 DEF Unrepaired
  <2> QED BY <2>2, <2>3, <2>4, FatInvApart DEF Searching
<1>3. ASSUME NEW offset, Lseek(offset)
      PROVE  FatInv'
  <2>1. pc = "idle" /\ UNCHANGED <<vol, pc, call, trust, cur_dir, opened>> /\ f_cluster' = 0
        /\ offset \in 0..(cur_dir.size - 1) /\ f_offset' = offset
    BY <1>3 DEF Lseek, callVars
  <2>2. CallTyped'
    BY <1>1, <2>1 DEF CallTyped
  <2>3. FileFits'
    <3>1. ASSUME opened.kind = "file" PROVE f_offset' \in 0..opened.size
      <4>1. cur_dir = opened /\ opened.size \in Nat
        BY <1>1, <3>1 DEF FileFits, HasClusters
      <4> QED BY <2>1, <4>1
    <3> QED BY <1>1, <2>1, <3>1 DEF FileFits, Volume
  <2>4. Placed'
    BY <2>1 DEF Placed
  <2> QED BY <2>1, <2>2, <2>3, <2>4, FatInvKept DEF Searching
<1>4. ASSUME NEW n \in Sizes, Read(n)
      PROVE  FatInv'
  BY <1>4, FatRead, VfsAssumption
<1> QED
  <2>1. \/ \E op \in {"stat", "open", "list"}, path \in Paths : FatFind(op, path)
        \/ \E n \in Sizes : Lseek(n) \/ Read(n)
    BY <1>1, Zenon DEF FileCall1
  <2> QED BY <1>2, <1>3, <1>4, <2>1

LEMMA FatStepKeeps ==
  ASSUME FatInv, [Next]_vars
  PROVE  FatInv'
<1>1. CallTyped /\ ~Ntfs
  BY DEF FatInv
<1>2. DbufTyped' /\ BuffersHonest'
  BY BuffersStep DEF FatInv
<1>5. CASE Step
  <2>1. FatStep
    BY <1>1, <1>5 DEF Step
  <2>2. CASE Return /\ UNCHANGED fatVars
    <3>1. pc = "done" /\ pc' = "idle" /\ call' = NoCall /\ UNCHANGED <<vol, trust>>
      BY <2>2 DEF Return
    <3>2. CallTyped' /\ Unrepaired
      BY <3>1 DEF CallTyped, NoCall, Unrepaired
    <3>3. UNCHANGED <<cur_dir, opened, f_offset, f_cluster>>
      BY <2>2 DEF fatVars
    <3> QED BY <1>2, <3>1, <3>2, <3>3, FatInvApart DEF Searching
  <2> QED BY <1>2, <2>1, <2>2, FatFindSteps, FatScan, FatLocate, FatCopy, FatTurn DEF FatStep
<1>6. CASE UNCHANGED vars
  <2>1. UNCHANGED <<vol, pc, call, result, trust, dbuf, data_cluster, cur_dir, f_offset, f_cluster, opened>>
    BY <1>6 DEF vars, callVars, fatVars
  <2>2. CallTyped' /\ ~Ntfs' /\ vol' \in DOMAIN VolumeOf /\ Unrepaired
    BY <1>1, <2>1 DEF FatInv, CallTyped, Ntfs, Volume, Unrepaired
  <2>3. (FatBegun => FatBegun') /\ (Placed => Placed')
    BY <2>1 DEF FatBegun, Placed, ClusterAt, Nth, Volume
  <2>4. /\ SectorsCopied(call.out, call.size) => SectorsCopied(call.out, call.size)'
        /\ SectorsCopied(result.out, result.n) => SectorsCopied(result.out, result.n)'
    BY <2>1, SectorsCopiedKept
  <2>5. FatCopied => FatCopied'
    BY <2>1, <2>4 DEF FatCopied
  <2>6. ClusterAt(opened, call.from)' = ClusterAt(opened, call.from)
    BY <2>1 DEF ClusterAt, Nth, Volume
  <2>7. FatReading'
    BY <2>1, <2>3, <2>4, <2>5, <2>6 DEF FatInv, FatReading
  <2>8. FileFits'
    BY <2>1 DEF FatInv, FileFits, Volume
  <2>9. pc' \in {"dir", "scan", "next"} => call'.op # "read"
    BY <2>1 DEF FatInv
  <2> QED BY <1>2, <2>2, <2>7, <2>8, <2>9 DEF FatInv
<1> QED BY <1>2, <1>5, <1>6, FatCalls DEF Next

LEMMA FatInitInv == Init /\ ~Ntfs => FatInv
<1> SUFFICES ASSUME Init, ~Ntfs PROVE FatInv
  OBVIOUS
<1>1. vol \in DOMAIN VolumeOf /\ DbufTyped /\ BuffersHonest
  BY DEF Init, FatInit, DbufTyped, BuffersHonest
<1>2. CallTyped /\ pc = "idle"
  BY DEF Init, CallInit, CallTyped, NoCall
<1>3. opened.kind # "file"
  BY DEF Init, FatInit, NoEntry
<1> QED BY <1>1, <1>2, <1>3 DEF FatInv, FileFits, FatReading

LEMMA FatInvReads == FatInv => ReadRight
<1> SUFFICES ASSUME FatInv, opened.kind = "file" PROVE ReadRight
  BY DEF ReadRight
<1>1. ASSUME pc = "done", call.op = "read", trust # "spoilt",
             call.cached = Nothing \/ call.cached # ClusterAt(opened, call.from)
      PROVE  /\ result.out = [p \in 1..result.n |-> SectorAt(opened, call.from + p - 1)]
             /\ trust = "clean" => result.n = call.size
  BY <1>1 DEF FatInv, FatReading, SectorsCopied
<1>2. ASSUME pc = "idle", trust = "clean", f_cluster # 0
      PROVE  f_cluster = ClusterAt(opened, f_offset)
  BY <1>2 DEF FatInv, FatReading, Placed
<1> QED BY <1>1, <1>2 DEF ReadRight
-----------------------------------------------------------------------------
(* Looking up a path of FAT                                                *)

\* Sequences that are made of pieces.
Begins(p, q) == Len(p) <= Len(q) /\ \A x \in 1..Len(p) : q[x] = p[x]

\* Each f[k] is the one before with the piece G[k] behind it.
MadeOf(E, n, f, G) ==
  /\ \A k \in 0..n : f[k] \in Seq(E)
  /\ \A k \in 1..n : G[k] \in Seq(E) /\ f[k] = f[k - 1] \o G[k]
AllBegin(n, f) == \A i \in 0..n : \A k \in i..n : Begins(f[i], f[k])

\* What is made of pieces begins with all that was made before.
LEMMA PiecesAre ==
  ASSUME NEW E, NEW n \in Nat, NEW f, NEW G, MadeOf(E, n, f, G)
  PROVE  AllBegin(n, f)
<1>0. /\ \A k \in 0..n : f[k] \in Seq(E)
      /\ \A k \in 1..n : G[k] \in Seq(E) /\ f[k] = f[k - 1] \o G[k]
  BY DEF MadeOf
<1>1. \A k \in 0..n : f[k] \in Seq(E) /\ Len(f[k]) \in Nat
  BY <1>0
<1>2. ASSUME NEW k \in 1..n
      PROVE  /\ k - 1 \in 0..n /\ k \in 0..n
             /\ Len(f[k]) = Len(f[k - 1]) + Len(G[k]) /\ Len(G[k]) \in Nat
             /\ \A x \in 1..Len(G[k]) : f[k][Len(f[k - 1]) + x] = G[k][x]
             /\ \A x \in 1..Len(f[k - 1]) : f[k][x] = f[k - 1][x]
  <2>1. k - 1 \in 0..n /\ k \in 0..n
    OBVIOUS
  <2>2. f[k - 1] \in Seq(E) /\ G[k] \in Seq(E) /\ f[k] = f[k - 1] \o G[k]
    BY <1>0, <2>1
  <2>3. Len(G[k]) \in Nat
    BY <2>2
  <2> DEFINE u == f[k - 1]
             p == G[k]
  <2>4. u \in Seq(E) /\ p \in Seq(E) /\ f[k] = u \o p
    BY <2>2
  <2> HIDE DEF u, p
  <2>5. /\ Len(u \o p) = Len(u) + Len(p)
        /\ \A i \in 1..Len(u) : (u \o p)[i] = u[i]
        /\ \A i \in 1..Len(p) : (u \o p)[Len(u) + i] = p[i]
    BY <2>4, JoinedIs
  <2> QED BY <2>1, <2>3, <2>4, <2>5 DEF u, p
<1>3. ASSUME NEW i \in 0..n, NEW k \in i..n
      PROVE  Begins(f[i], f[k])
  <2> DEFINE Later(d) == i + d <= n => Len(f[i]) <= Len(f[i + d]) /\ \A x \in 1..Len(f[i]) : f[i + d][x] = f[i][x]
             T == {d \in Nat : Later(d)}
  <2>1. 0 \in T
    BY <1>1
  <2>2. ASSUME NEW d \in 1..(k - i), d - 1 \in T
        PROVE  d \in T
    <3>1. d \in Nat /\ i + d \in 1..n /\ (i + d) - 1 = i + (d - 1) /\ i + (d - 1) \in 0..n
      OBVIOUS
    <3>2. Len(f[i]) <= Len(f[i + (d - 1)]) /\ \A x \in 1..Len(f[i]) : f[i + (d - 1)][x] = f[i][x]
      <4>1. Later(d - 1)
        <5> HIDE DEF Later
        <5> QED BY <2>2
      <4>2. i + (d - 1) <= n
        BY <3>1
      <4> QED BY <4>1, <4>2, Zenon
    <3>3. /\ Len(f[i + d]) = Len(f[i + (d - 1)]) + Len(G[i + d]) /\ Len(G[i + d]) \in Nat
          /\ \A x \in 1..Len(f[i + (d - 1)]) : f[i + d][x] = f[i + (d - 1)][x]
      <4> DEFINE y == i + d
                 z == i + (d - 1)
      <4>1. y \in 1..n /\ y - 1 = z
        BY <3>1
      <4> HIDE DEF y, z
      <4>2. /\ Len(f[y]) = Len(f[y - 1]) + Len(G[y]) /\ Len(G[y]) \in Nat
            /\ \A x \in 1..Len(f[y - 1]) : f[y][x] = f[y - 1][x]
        BY <1>2, <4>1, Zenon
      <4>3. /\ Len(f[y]) = Len(f[z]) + Len(G[y]) /\ Len(G[y]) \in Nat
            /\ \A x \in 1..Len(f[z]) : f[y][x] = f[z][x]
        BY <4>1, <4>2, Zenon
      <4> QED BY <4>3 DEF y, z
    <3>4. Len(f[i]) \in Nat /\ Len(f[i + (d - 1)]) \in Nat
      BY <1>1, <3>1
    <3>5. Len(f[i]) <= Len(f[i + d])
      <4> DEFINE A == Len(f[i])
                 B == Len(f[i + (d - 1)])
                 C == Len(f[i + d])
                 D == Len(G[i + d])
      <4>1. A \in Nat /\ B \in Nat /\ D \in Nat /\ A <= B /\ C = B + D
        BY <3>2, <3>3, <3>4
      <4> HIDE DEF A, B, C, D
      <4>2. A <= C
        BY <4>1
      <4> QED BY <4>2 DEF A, C
    <3>6. \A x \in 1..Len(f[i]) : x \in 1..Len(f[i + (d - 1)])
      BY <3>2, <3>4
    <3> QED BY <3>1, <3>2, <3>3, <3>5, <3>6
  <2> HIDE DEF T
  <2>3. 0..(k - i) \subseteq T
    <3>1. k - i \in Nat
      OBVIOUS
    <3> QED BY <2>1, <2>2, <3>1, Reaches
  <2>4. i + (k - i) = k /\ k - i \in 0..(k - i) /\ k <= n
    OBVIOUS
  <2>5. Later(k - i)
    BY <2>3, <2>4 DEF T
  <2> QED BY <2>4, <2>5 DEF Begins
<1> QED BY <1>3 DEF AllBegin

\* A search that goes on behind the first a places, for l more: where it finds places of S.
PlacesOf(S, a, l) == {x \in 1..l : a + x \in S}

LEMMA FirstBehind ==
  ASSUME NEW X, X \subseteq Nat, NEW a \in Nat, NEW l \in Nat, \A n \in X : n > a, PlacesOf(X, a, l) # {}
  PROVE  Least(PlacesOf(X, a, l)) \in PlacesOf(X, a, l) /\ Least(X) = a + Least(PlacesOf(X, a, l)) /\ X # {}
<1> DEFINE Y == PlacesOf(X, a, l)
<1>0. Y = {x \in 1..l : a + x \in X} /\ Y # {}
  BY DEF PlacesOf
<1> HIDE DEF Y
<1>1. Y \subseteq Nat /\ \A y \in Y : y \in 1..l /\ a + y \in X
  BY <1>0
<1>2. Least(Y) \in Y /\ \A y \in Y : Least(Y) <= y
  BY <1>0, <1>1, LeastIsLeast
<1>3. X # {} /\ a + Least(Y) \in X
  BY <1>1, <1>2
<1>4. Least(X) \in X /\ \A n \in X : Least(X) <= n
  BY <1>3, LeastIsLeast
<1>5. Least(X) \in Nat /\ Least(X) > a /\ Least(X) <= a + Least(Y) /\ Least(Y) \in 1..l
  BY <1>1, <1>2, <1>3, <1>4
<1>6. Least(X) - a \in 1..l /\ a + (Least(X) - a) = Least(X)
  BY <1>5
<1>7. Least(X) - a \in Y
  BY <1>0, <1>4, <1>6
<1>8. Least(Y) <= Least(X) - a
  BY <1>2, <1>7
<1> QED BY <1>2, <1>3, <1>5, <1>8 DEF Y

LEMMA CountBehind ==
  ASSUME NEW X, X \subseteq Nat, NEW a \in Nat, NEW l \in Nat
  PROVE  /\ Cardinality({n \in X : n <= a}) \in Nat /\ Cardinality(PlacesOf(X, a, l)) \in Nat
         /\ Cardinality({n \in X : n <= a + l}) = Cardinality({n \in X : n <= a}) + Cardinality(PlacesOf(X, a, l))
<1> DEFINE A == {n \in X : n <= a}
           B == {n \in X : n > a /\ n <= a + l}
           Y == {x \in 1..l : a + x \in X}
<1>1. IsFiniteSet(0..a) /\ IsFiniteSet(0..(a + l)) /\ IsFiniteSet(1..l)
  BY FS_Interval
<1>0. \A n \in X : n \in Nat
  OBVIOUS
<1>2. A \subseteq 0..a /\ B \subseteq 0..(a + l) /\ Y \subseteq 1..l
  <2>1. \A n \in A : n \in 0..a
    BY <1>0
  <2>2. \A n \in B : n \in 0..(a + l)
    BY <1>0
  <2> QED BY <2>1, <2>2
<1>3. IsFiniteSet(A) /\ IsFiniteSet(B) /\ IsFiniteSet(Y)
  <2> HIDE DEF A, B, Y
  <2> QED BY <1>1, <1>2, FS_Subset
<1>4. A \cap B = {} /\ {n \in X : n <= a + l} = A \cup B
  <2>1. \A n \in X : ~(n <= a /\ n > a) /\ (n <= a + l <=> n <= a \/ (n > a /\ n <= a + l))
    BY <1>0
  <2> QED BY <2>1
<1>5. Cardinality(B) = Cardinality(Y)
  <2> DEFINE f == [x \in Y |-> a + x]
  <2>1. \A x \in Y : x \in 1..l /\ a + x \in B
    OBVIOUS
  <2>2. \A n \in B : n - a \in Y /\ a + (n - a) = n
    OBVIOUS
  <2> HIDE DEF B, Y
  <2>3. f \in [Y -> B] /\ \A x, y \in Y : f[x] = f[y] => x = y
    BY <2>1
  <2>4. \A n \in B : \E x \in Y : f[x] = n
    BY <2>2
  <2>5. f \in Bijection(Y, B)
    <3> HIDE DEF f
    <3> QED BY <2>3, <2>4, Fun_IsBij
  <2>6. ExistsBijection(Y, B)
    BY <2>5, Fun_ExistsBij
  <2> QED BY <1>3, <2>6, FS_Bijection
<1> HIDE DEF A, B, Y
<1>6. Cardinality(A \cup B) = Cardinality(A) + Cardinality(B) - Cardinality(A \cap B)
  BY <1>3, FS_Union
<1>7. Cardinality(A \cap B) = 0
  BY <1>4, FS_EmptySet
<1>8. Cardinality(A) \in Nat /\ Cardinality(B) \in Nat
  BY <1>3, FS_CardinalityType
<1>9. Cardinality(A \cup B) = Cardinality(A) + Cardinality(Y) /\ Cardinality(Y) \in Nat
  BY <1>5, <1>6, <1>7, <1>8
<1> QED BY <1>4, <1>8, <1>9 DEF A, Y, PlacesOf

\* The entries g come behind the first a of A.
Continues(A, a, g) == \A x \in 1..Len(g) : A[a + x] = g[x]

\* A part of the sectors holds a part of the entries.
LEMMA GroupIs ==
  ASSUME OnFatVolume(Volume), NEW S, Len(S) \in Nat, NEW b \in Nat, NEW w \in Nat, b + w <= Len(S),
         NEW part, part = [j \in 1..w |-> S[b + j]]
  PROVE  LET A == EntriesIn(S)
             a == Len(EntriesUpto(S)[b])
             g == EntriesIn(part)
         IN  /\ A \in Seq(Fitting) /\ g \in Seq(Fitting) /\ a \in Nat /\ Len(g) \in Nat
             /\ Len(EntriesUpto(S)[b + w]) = a + Len(g) /\ a + Len(g) <= Len(A) /\ Continues(A, a, g)
<1> DEFINE N == Len(S)
           E == Fitting
           U == EntriesUpto(S)
           V == EntriesUpto(part)
<1>1. Len(part) = w /\ \A j \in 1..w : part[j] = S[b + j]
  OBVIOUS
<1>2. /\ U \in [0..N -> Seq(E)] /\ U[0] = <<>>
      /\ \A k \in 1..N : U[k] = U[k - 1] \o Held(S[k])
      /\ EntriesIn(S) = U[N]
  BY EntriesAre DEF EntriesIn
<1>3. /\ V \in [0..w -> Seq(E)] /\ V[0] = <<>>
      /\ \A k \in 1..w : V[k] = V[k - 1] \o Held(part[k])
      /\ EntriesIn(part) = V[w]
  BY <1>1, EntriesAre DEF EntriesIn
<1>4. \A s : Held(s) \in Seq(E)
  BY HeldIs
<1> HIDE DEF U, V, E
<1>5. N \in Nat /\ b \in 0..N /\ \A j \in 0..w : b + j \in 0..N
  BY DEF N
<1> HIDE DEF N
<1>6. \A j \in 0..w : U[b + j] = U[b] \o V[j]
  <2> DEFINE T == {j \in 0..w : U[b + j] = U[b] \o V[j]}
  <2>1. 0 \in T
    <3>1. b + 0 = b /\ b \in 0..N /\ 0 \in 0..w
      BY <1>5
    <3>2. U[b] \in Seq(E)
      BY <1>2, <3>1
    <3>3. U[b] \o <<>> = U[b]
      BY <3>2
    <3> QED BY <1>3, <3>1, <3>3
  <2>2. ASSUME NEW j \in 1..w, j - 1 \in T
        PROVE  j \in T
    <3>1. j \in 0..w /\ j - 1 \in 0..w /\ b + j \in 1..N /\ (b + j) - 1 = b + (j - 1) /\ b \in 0..N
      <4>1. j \in 0..w /\ j - 1 \in 0..w
        OBVIOUS
      <4>2. b + j \in 0..N /\ b \in 0..N
        BY <1>5
      <4> QED BY <4>1, <4>2
    <3> DEFINE h == Held(S[b + j])
               u == U[b]
               v == V[j - 1]
    <3>2. U[b + j] = U[b + (j - 1)] \o h /\ V[j] = v \o h
      BY <1>1, <1>2, <1>3, <3>1
    <3>3. U[b + (j - 1)] = u \o v
      BY <2>2
    <3>4. u \in Seq(E) /\ v \in Seq(E) /\ h \in Seq(E)
      BY <1>2, <1>3, <1>4, <3>1
    <3> HIDE DEF u, v, h
    <3>5. (u \o v) \o h = u \o (v \o h)
      BY <3>4, ConcatAssociative, SMTT(30)
    <3>6. U[b + j] = u \o V[j]
      BY <3>2, <3>3, <3>5
    <3> QED BY <3>1, <3>6 DEF u
  <2> HIDE DEF T
  <2>3. 0..w \subseteq T
    BY <2>1, <2>2, Reaches
  <2> QED BY <2>3 DEF T
<1>7. w \in 0..w /\ b \in 0..N /\ b + w \in 0..N /\ N \in (b + w)..N
  <2>1. w \in 0..w /\ 0 \in 0..w /\ b + 0 = b
    OBVIOUS
  <2>2. b + w \in 0..N
    BY <1>5, <2>1
  <2> QED BY <1>5, <2>1, <2>2
<1>8. U[b] \in Seq(E) /\ V[w] \in Seq(E) /\ U[N] \in Seq(E) /\ U[b + w] = U[b] \o V[w]
  <2>1. N \in 0..N
    BY <1>5
  <2>2. U[b] \in Seq(E) /\ V[w] \in Seq(E) /\ U[N] \in Seq(E)
    BY <1>2, <1>3, <1>7, <2>1
  <2>3. U[b + w] = U[b] \o V[w]
    BY <1>6, <1>7
  <2> QED BY <2>2, <2>3
<1>9. /\ Len(U[b + w]) = Len(U[b]) + Len(V[w])
      /\ \A i \in 1..Len(V[w]) : U[b + w][Len(U[b]) + i] = V[w][i]
  <2> DEFINE u == U[b]
             p == V[w]
  <2>1. u \in Seq(E) /\ p \in Seq(E) /\ U[b + w] = u \o p
    BY <1>8
  <2> HIDE DEF u, p
  <2>2. Len(u \o p) = Len(u) + Len(p) /\ \A i \in 1..Len(p) : (u \o p)[Len(u) + i] = p[i]
    BY <2>1, JoinedIs
  <2> QED BY <2>1, <2>2 DEF u, p
<1>10. Len(U[b + w]) <= Len(U[N]) /\ \A x \in 1..Len(U[b + w]) : U[N][x] = U[b + w][x]
  <2> DEFINE G == [k \in 1..N |-> Held(S[k])]
  <2>1. \A k \in 1..N : G[k] \in Seq(E) /\ U[k] = U[k - 1] \o G[k]
    BY <1>2, <1>4
  <2> HIDE DEF G
  <2>2. \A k \in 0..N : U[k] \in Seq(E)
    BY <1>2
  <2>3. N \in Nat
    BY <1>5
  <2>4. \A i \in 0..N : \A k \in i..N : Begins(U[i], U[k])
    <3>1. MadeOf(E, N, U, G)
      BY <2>1, <2>2 DEF MadeOf
    <3>2. AllBegin(N, U)
      BY <2>3, <3>1, PiecesAre
    <3> QED BY <3>2 DEF AllBegin
  <2> QED BY <1>7, <2>4 DEF Begins
<1>11. Len(U[b]) \in Nat /\ Len(V[w]) \in Nat
  BY <1>8
<1>12. ASSUME NEW x \in 1..Len(V[w])
       PROVE  U[N][Len(U[b]) + x] = V[w][x]
  <2> DEFINE y == Len(U[b])
             z == Len(V[w])
  <2>1. y + x \in 1..(y + z)
    <3>1. y \in Nat /\ z \in Nat /\ x \in 1..z
      BY <1>11
    <3> HIDE DEF y, z
    <3> QED BY <3>1
  <2> QED BY <1>9, <1>10, <2>1
<1>13. Continues(U[N], Len(U[b]), V[w])
  BY <1>12 DEF Continues
<1> QED BY <1>2, <1>3, <1>8, <1>9, <1>10, <1>11, <1>13 DEF U, V, E, N

\* A long name goes on over entries that are free and labels.
LEMMA LongIs ==
  ASSUME NEW es
  PROVE  ~Long(es, 1) /\ \A n \in Nat \ {0} : Long(es, n + 1) = LfnAfter(Long(es, n), es[n])
<1>1. ~Long(es, 1)
  BY DEF Long
<1>2. ASSUME NEW n \in Nat \ {0}
      PROVE  Long(es, n + 1) = LfnAfter(Long(es, n), es[n])
  <2> DEFINE Between(j, k) == \A i \in (j + 1)..(k - 1) : es[i].kind \in {"free", "label"}
  <2>1. \A j : j \in 1..((n + 1) - 1) <=> j \in 1..(n - 1) \/ j = n
    OBVIOUS
  <2>2. Between(n, n + 1)
    OBVIOUS
  <2>3. ASSUME NEW j \in 1..(n - 1)
        PROVE  Between(j, n + 1) <=> Between(j, n) /\ es[n].kind \in {"free", "label"}
    <3>1. \A i : i \in (j + 1)..((n + 1) - 1) <=> i \in (j + 1)..(n - 1) \/ i = n
      OBVIOUS
    <3> QED BY <3>1
  <2>4. Long(es, n) <=> \E j \in 1..(n - 1) : es[j].kind = "lfn" /\ Between(j, n)
    BY DEF Long
  <2>5. Long(es, n + 1) <=> \E j \in 1..((n + 1) - 1) : es[j].kind = "lfn" /\ Between(j, n + 1)
    BY DEF Long
  <2> HIDE DEF Between
  <2>6. Long(es, n + 1) <=> es[n].kind = "lfn" \/ (Long(es, n) /\ es[n].kind \in {"free", "label"})
    BY <2>1, <2>2, <2>3, <2>4, <2>5
  <2>7. Long(es, n) \in BOOLEAN /\ Long(es, n + 1) \in BOOLEAN
    BY DEF Long
  <2>8. CASE es[n].kind = "lfn"
    BY <2>6, <2>7, <2>8 DEF LfnAfter
  <2>9. CASE es[n].kind \in {"free", "label"}
    BY <2>6, <2>7, <2>9 DEF LfnAfter
  <2>10. CASE es[n].kind \notin {"lfn", "free", "label"}
    BY <2>6, <2>7, <2>10 DEF LfnAfter
  <2> QED BY <2>8, <2>9, <2>10
<1> QED BY <1>1, <1>2

\* have_lfn in a buffer says whether a long name stands before an entry of the directory.
LEMMA LfnBeforeIs ==
  ASSUME NEW g, Len(g) \in Nat, NEW A, NEW a \in Nat, \A x \in 1..Len(g) : A[a + x] = g[x],
         NEW lfn, lfn = Long(A, a + 1)
  PROVE  \A k \in 1..(Len(g) + 1) : LfnBefore(g, lfn)[k] = Long(A, a + k)
<1> DEFINE l == Len(g)
           Solves(f) == f = [n \in 1..(l + 1) |-> IF n = 1 THEN lfn ELSE LfnAfter(f[n - 1], g[n - 1])]
           f == [n \in 1..(l + 1) |-> Long(A, a + n)]
<1> HIDE DEF l
<1>1. l \in Nat
  BY DEF l
<1>2. \A n \in 1..(l + 1) : f[n] = IF n = 1 THEN lfn ELSE LfnAfter(f[n - 1], g[n - 1])
  <2> SUFFICES ASSUME NEW n \in 1..(l + 1), n # 1
               PROVE  Long(A, a + n) = LfnAfter(f[n - 1], g[n - 1])
    OBVIOUS
  <2>1. n - 1 \in 1..l /\ n - 1 \in 1..(l + 1) /\ a + (n - 1) \in Nat \ {0} /\ (a + (n - 1)) + 1 = a + n
    BY <1>1
  <2>2. A[a + (n - 1)] = g[n - 1]
    BY <2>1 DEF l
  <2>3. Long(A, (a + (n - 1)) + 1) = LfnAfter(Long(A, a + (n - 1)), A[a + (n - 1)])
    BY <2>1, LongIs
  <2>4. f[n - 1] = Long(A, a + (n - 1))
    BY <2>1
  <2> QED BY <2>1, <2>2, <2>3, <2>4
<1> HIDE DEF f
<1>3. Solves(f)
  BY <1>2 DEF f
<1> DEFINE h == LfnBefore(g, lfn)
<1>4. Solves(h)
  BY <1>3 DEF LfnBefore, l
<1> HIDE DEF h
<1>5. \A n \in 1..(l + 1) : h[n] = IF n = 1 THEN lfn ELSE LfnAfter(h[n - 1], g[n - 1])
  BY <1>4
<1>6. \A k \in 0..l : h[k + 1] = f[k + 1]
  <2> DEFINE T == {k \in 0..l : h[k + 1] = f[k + 1]}
  <2>1. 0 \in T
    <3>1. 1 \in 1..(l + 1) /\ 0 \in 0..l /\ 0 + 1 = 1
      BY <1>1
    <3>2. h[1] = lfn
      BY <1>5, <3>1
    <3>3. f[1] = lfn
      BY <1>2, <3>1
    <3> QED BY <3>1, <3>2, <3>3
  <2>2. ASSUME NEW k \in 1..l, k - 1 \in T
        PROVE  k \in T
    <3>1. k + 1 \in 1..(l + 1) /\ k + 1 # 1 /\ (k + 1) - 1 = k /\ (k - 1) + 1 = k
      BY <1>1
    <3>2. h[k] = f[k]
      BY <2>2, <3>1
    <3> QED BY <1>2, <1>5, <3>1, <3>2
  <2> HIDE DEF T
  <2>3. 0..l \subseteq T
    BY <1>1, <2>1, <2>2, Reaches
  <2> QED BY <2>3 DEF T
<1>7. ASSUME NEW k \in 1..(l + 1)
      PROVE  h[k] = Long(A, a + k)
  <2>1. k - 1 \in 0..l /\ (k - 1) + 1 = k
    BY <1>1
  <2>2. h[k] = f[k]
    BY <1>6, <2>1
  <2> QED BY <2>2 DEF f
<1> QED BY <1>7 DEF h, l

\* The clusters of a chain follow each other, to the last.
LEMMA ChainIs ==
  ASSUME OnFatVolume(Volume), NEW c, ChainEnds(Volume.next, c)
  PROVE  LET l == Len(Chain(c))
         IN  /\ l \in Nat /\ DOMAIN Chain(c) = 1..l /\ (c = 0 <=> l = 0)
             /\ c # 0 => Chain(c)[1] = c
             /\ \A k \in 1..l : /\ Chain(c)[k] \in DOMAIN Volume.next /\ Chain(c)[k] # 0
                                /\ Volume.next[Chain(c)[k]] = IF k = l THEN 0 ELSE Chain(c)[k + 1]
<1> DEFINE next == Volume.next
           last == Cardinality(DOMAIN next)
           at == Follow(next, c)
<1>1. c \in DOMAIN next /\ at[last] = 0
  BY DEF ChainEnds
<1>2. IsFiniteSet(DOMAIN next) /\ next \in [DOMAIN next -> DOMAIN next] /\ next[0] = 0
  BY DEF OnFatVolume
<1>3. Chain(c) = [n \in 1..Cardinality({m \in DOMAIN at : at[m] # 0}) |-> at[n - 1]]
  BY DEF Chain
<1> HIDE DEF next
<1>4. /\ last \in Nat /\ at \in [0..last -> DOMAIN next] /\ at[0] = c
      /\ \A k \in 1..last : at[k] = next[at[k - 1]]
  BY <1>1, <1>2, FollowIs
<1> HIDE DEF last, at
<1> DEFINE Z == {m \in 0..last : at[m] = 0}
           z == Least(Z)
<1>5. z \in 0..last /\ at[z] = 0 /\ \A m \in 0..last : at[m] = 0 => z <= m
  <2>1. Z \subseteq Nat /\ last \in Z
    BY <1>1, <1>4
  <2>2. z \in Z /\ \A y \in Z : z <= y
    BY <2>1, LeastIsLeast
  <2> QED BY <2>2
<1> HIDE DEF z
<1>6. \A m \in z..last : at[m] = 0
  <2> DEFINE T == {d \in Nat : z + d <= last => at[z + d] = 0}
  <2>1. 0 \in T
    BY <1>5
  <2>2. ASSUME NEW d \in 1..(last - z), d - 1 \in T
        PROVE  d \in T
    <3>1. z + d \in 1..last /\ (z + d) - 1 = z + (d - 1) /\ z + (d - 1) <= last /\ d \in Nat
      BY <1>4, <1>5
    <3>2. at[(z + d) - 1] = 0 /\ at[z + d] = next[at[(z + d) - 1]]
      BY <1>4, <2>2, <3>1
    <3> QED BY <1>2, <3>1, <3>2
  <2> HIDE DEF T
  <2>3. 0..(last - z) \subseteq T
    <3>1. last - z \in Nat
      BY <1>4, <1>5
    <3> QED BY <2>1, <2>2, <3>1, Reaches
  <2>4. ASSUME NEW m \in z..last
        PROVE  at[m] = 0
    <3>1. m - z \in 0..(last - z) /\ z + (m - z) = m /\ m <= last
      BY <1>4, <1>5
    <3>2. m - z \in T
      BY <2>3, <3>1
    <3> QED BY <3>1, <3>2 DEF T
  <2> QED BY <2>4
<1>7. {m \in DOMAIN at : at[m] # 0} = 0..(z - 1)
  <2>1. DOMAIN at = 0..last
    BY <1>4
  <2>2. \A m \in 0..last : at[m] # 0 => m \in 0..(z - 1)
    BY <1>4, <1>5, <1>6
  <2>3. \A m \in 0..(z - 1) : m \in 0..last /\ at[m] # 0
    BY <1>4, <1>5
  <2> QED BY <2>1, <2>2, <2>3
<1>8. z \in Nat /\ Cardinality(0..(z - 1)) = z
  <2>1. z \in Nat
    BY <1>4, <1>5
  <2>2. Cardinality(0..(z - 1)) = IF 0 > z - 1 THEN 0 ELSE (z - 1) - 0 + 1
    BY <2>1, FS_Interval
  <2> QED BY <2>1, <2>2
<1>9. Chain(c) = [n \in 1..z |-> at[n - 1]]
  BY <1>3, <1>7, <1>8
<1>10. Len(Chain(c)) = z /\ DOMAIN Chain(c) = 1..z /\ \A k \in 1..z : Chain(c)[k] = at[k - 1]
  BY <1>8, <1>9
<1>11. c = 0 <=> z = 0
  BY <1>4, <1>5
<1>12. ASSUME NEW k \in 1..z
       PROVE  /\ Chain(c)[k] \in DOMAIN next /\ Chain(c)[k] # 0
              /\ next[Chain(c)[k]] = IF k = z THEN 0 ELSE Chain(c)[k + 1]
  <2>1. k \in 1..last /\ k - 1 \in 0..last /\ ~(z <= k - 1)
    BY <1>4, <1>5
  <2>2. at[k - 1] \in DOMAIN next /\ at[k - 1] # 0 /\ next[at[k - 1]] = at[k]
    BY <1>4, <1>5, <2>1
  <2>3. k # z => k + 1 \in 1..z /\ (k + 1) - 1 = k
    BY <1>8
  <2> QED BY <1>5, <1>10, <2>2, <2>3
<1>13. c # 0 => Chain(c)[1] = c
  <2>1. z # 0 => 1 \in 1..z /\ 1 - 1 = 0
    BY <1>8
  <2> QED BY <1>4, <1>10, <1>11, <2>1
<1> QED BY <1>8, <1>10, <1>11, <1>12, <1>13 DEF next

\* The sectors of a directory that one buffer shows
Width == IF Fat32 THEN ClusterSize ELSE 1

LEMMA SectorsAre ==
  ASSUME OnFatVolume(Volume), NEW c, ChainEnds(Volume.next, c)
  PROVE  /\ Width \in Nat \ {0} /\ Len(Sectors(c)) \in Nat
         /\ c = 0 => /\ Len(Sectors(c)) = Volume.root
                     /\ \A i \in 0..(Volume.root - 1) : Sectors(c)[i + 1] = <<0, i>>
         /\ c # 0 => /\ Len(Sectors(c)) = Width * Len(Chain(c))
                     /\ \A m \in 0..(Len(Chain(c)) - 1) :
                          /\ m * Width + Width <= Len(Sectors(c))
                          /\ \A j \in 1..Width : Sectors(c)[m * Width + j] = <<Chain(c)[m + 1], j>>
<1>1. Width \in Nat \ {0}
  BY CallAssumption DEF Width
<1>2. CASE c = 0
  <2>1. Sectors(c) = [i \in 1..Volume.root |-> <<0, i - 1>>] /\ Volume.root \in Nat
    BY <1>2 DEF Sectors, OnFatVolume
  <2> DEFINE r == Volume.root
             s == [i \in 1..r |-> <<0, i - 1>>]
  <2>2. Sectors(c) = s /\ r \in Nat
    BY <2>1
  <2> HIDE DEF r
  <2>3. Len(s) = r
    BY <2>2
  <2>4. \A i \in 0..(r - 1) : s[i + 1] = <<0, i>>
    <3>1. \A i \in 0..(r - 1) : i + 1 \in 1..r /\ (i + 1) - 1 = i
      BY <2>2
    <3> QED BY <3>1
  <2> QED BY <1>1, <1>2, <2>2, <2>3, <2>4 DEF r
<1>3. CASE c # 0
  <2> DEFINE chain == Chain(c)
             l == Len(chain)
             w == Width
             Place(n) == <<chain[((n - 1) \div w) + 1], ((n - 1) % w) + 1>>
             s == [n \in 1..(w * l) |-> Place(n)]
  <2>1. Sectors(c) = s
    BY <1>3 DEF Sectors, SectorsOf, Width
  <2>2. w \in Nat \ {0} /\ l \in Nat
    BY <1>1, ChainIs
  <2> HIDE DEF chain, l, w
  <2>3. w * l \in Nat
    BY <2>2
  <2> HIDE DEF Place
  <2>4. Len(s) = w * l
    BY <2>3
  <2>5. ASSUME NEW m \in 0..(l - 1)
        PROVE  m * w + w <= w * l /\ \A j \in 1..w : s[m * w + j] = <<chain[m + 1], j>>
    <3>1. m \in Nat /\ m + 1 <= l /\ l - (m + 1) \in Nat
      BY <2>2
    <3>2. w * l = m * w + w + (l - (m + 1)) * w /\ (l - (m + 1)) * w \in Nat /\ m * w \in Nat
      BY <2>2, <3>1
    <3>3. m * w + w <= w * l
      <4> DEFINE x == m * w
                 y == (l - (m + 1)) * w
                 t == w * l
      <4>1. x \in Nat /\ y \in Nat /\ t = x + w + y
        BY <3>2
      <4> HIDE DEF x, y, t
      <4>2. x + w <= t
        BY <2>2, <4>1
      <4> QED BY <4>2 DEF x, t
    <3>4. ASSUME NEW j \in 1..w
          PROVE  s[m * w + j] = <<chain[m + 1], j>>
      <4>1. m * w + j \in 1..(w * l) /\ (m * w + j) - 1 = m * w + (j - 1) /\ j - 1 \in 0..(w - 1)
        <5> DEFINE x == m * w
                   t == w * l
        <5>1. x \in Nat /\ x + w <= t /\ t \in Nat
          BY <2>3, <3>2, <3>3
        <5> HIDE DEF x, t
        <5>2. x + j \in 1..t /\ (x + j) - 1 = x + (j - 1) /\ j - 1 \in 0..(w - 1)
          BY <2>2, <5>1
        <5> QED BY <5>2 DEF x, t
      <4>2. (m * w + (j - 1)) \div w = m /\ (m * w + (j - 1)) % w = j - 1
        BY <2>2, <3>1, <4>1, DivIs
      <4>3. Place(m * w + j) = <<chain[m + 1], j>>
        BY <4>1, <4>2 DEF Place
      <4> QED BY <4>1, <4>3
    <3> QED BY <3>3, <3>4
  <2> QED BY <1>1, <1>3, <2>1, <2>3, <2>4, <2>5 DEF chain, l, w
<1> QED BY <1>2, <1>3

\* What is left of a path behind its first n names
LEMMA RestIs ==
  ASSUME NEW p \in Seq(STRING), NEW n \in 0..Len(p)
  PROVE  LET rest == SubSeq(p, n + 1, Len(p))
         IN  /\ rest \in Seq(STRING) /\ (rest = <<>> <=> n = Len(p))
             /\ n = 0 => rest = p
             /\ n # Len(p) => n + 1 \in 0..Len(p) /\ Tail(rest) = SubSeq(p, (n + 1) + 1, Len(p))
<1>1. Len(p) \in Nat /\ \A i \in 1..Len(p) : p[i] \in STRING
  OBVIOUS
<1>2. CASE n = Len(p)
  <2>1. SubSeq(p, n + 1, Len(p)) = <<>>
    BY <1>1, <1>2, SubSeqEmpty
  <2>2. n = 0 => p = <<>>
    BY <1>2, EmptySeq
  <2> QED BY <1>2, <2>1, <2>2
<1>3. CASE n # Len(p)
  <2>1. n + 1 \in 1..Len(p) /\ Len(p) \in (n + 1)..Len(p) /\ n + 1 \in Int /\ Len(p) \in Int
    BY <1>1, <1>3
  <2>2. Tail(SubSeq(p, n + 1, Len(p))) = SubSeq(p, (n + 1) + 1, Len(p))
    BY <2>1, HeadTailOfSubSeq
  <2>3. SubSeq(p, n + 1, Len(p)) \in Seq(STRING) /\ Len(SubSeq(p, n + 1, Len(p))) = Len(p) - (n + 1) + 1
    <3>1. \A i \in (n + 1)..Len(p) : p[i] \in STRING
      BY <1>1, <2>1
    <3> QED BY <2>1, <3>1, SubSeqProperties
  <2>4. SubSeq(p, n + 1, Len(p)) # <<>>
    <3>1. Len(p) - (n + 1) + 1 # 0
      BY <2>1
    <3> QED BY <2>3, <3>1
  <2>5. n = 0 => SubSeq(p, n + 1, Len(p)) = p
    BY SubSeqFull
  <2>6. n + 1 \in 0..Len(p)
    BY <2>1
  <2> QED BY <1>3, <2>2, <2>3, <2>4, <2>5, <2>6, Zenon
<1> QED BY <1>2, <1>3

\* rest is that;
IsLeft(rest, p, n) == rest = SubSeq(p, n + 1, Len(p))

\* and a name less is left behind the next one.
LEMMA TailIs ==
  ASSUME NEW p \in Seq(STRING), NEW n \in 0..Len(p), n # Len(p), NEW rest, IsLeft(rest, p, n)
  PROVE  IsLeft(Tail(rest), p, n + 1)
BY RestIs DEF IsLeft

\* The directory that a path starts from, and all that a path may lead through
Start == [NoEntry EXCEPT !.kind = "dir", !.first = RootCluster]
OnTheWay == Fitting \cup {NoEntry, Start}

LEMMA StartIs ==
  ASSUME OnFatVolume(Volume)
  PROVE  /\ Start.kind = "dir" /\ Start.first = RootCluster /\ NoEntry.kind = "none"
         /\ \A e \in OnTheWay : e.kind = "dir" => ChainEnds(Volume.next, e.first) /\ (Fat32 => e.first # 0)
<1>1. Start.kind = "dir" /\ Start.first = RootCluster /\ NoEntry.kind = "none"
  BY DEF Start, NoEntry
<1>2. ChainEnds(Volume.next, RootCluster)
  <2>1. CASE Fat32
    BY <2>1 DEF OnFatVolume, Fat32, RootCluster
  <2>2. CASE ~Fat32
    <3> DEFINE next == Volume.next
               last == Cardinality(DOMAIN next)
               at == Follow(next, 0)
    <3>1. IsFiniteSet(DOMAIN next) /\ next \in [DOMAIN next -> DOMAIN next] /\ next[0] = 0 /\ 0 \in DOMAIN next
      BY DEF OnFatVolume
    <3> HIDE DEF next
    <3>2. last \in Nat /\ at[0] = 0 /\ \A k \in 1..last : at[k] = next[at[k - 1]]
      BY <3>1, FollowIs
    <3> HIDE DEF last, at
    <3> DEFINE T == {k \in Nat : at[k] = 0}
    <3>3. 0 \in T
      BY <3>2
    <3>4. \A k \in 1..last : k - 1 \in T => k \in T
      BY <3>1, <3>2
    <3> HIDE DEF T
    <3>5. 0..last \subseteq T
      BY <3>2, <3>3, <3>4, Reaches
    <3>6. at[last] = 0
      BY <3>2, <3>5 DEF T
    <3> QED BY <2>2, <3>1, <3>6 DEF RootCluster, ChainEnds, next, last, at
  <2> QED BY <2>1, <2>2
<1>3. Fat32 => RootCluster # 0
  BY DEF OnFatVolume, Fat32, RootCluster
<1>4. \A e \in Fitting : e.kind = "dir" => ChainEnds(Volume.next, e.first) /\ e.first # 0
  BY DEF Fitting
<1> QED BY <1>1, <1>2, <1>3, <1>4 DEF OnTheWay

\* The first entry that is meant is the least place of one.
LEMMA EntryInIs ==
  ASSUME NEW es \in Seq(Fitting), NEW path
  PROVE  /\ Meant(es, path) \subseteq Nat /\ Meant(es, path) \subseteq Shown(es) /\ Shown(es) \subseteq 1..Len(es)
         /\ Meant(es, path) = {} => EntryIn(es, path) = NoEntry
         /\ Meant(es, path) # {} =>
              /\ EntryIn(es, path) = es[Least(Meant(es, path))]
              /\ EntryIn(es, path) \in Fitting /\ EntryIn(es, path).kind \in {"file", "dir", "dots"}
         /\ EntryIn(es, path) \in OnTheWay
<1>1. DOMAIN es = 1..Len(es) /\ Len(es) \in Nat /\ \A i \in 1..Len(es) : es[i] \in Fitting
  OBVIOUS
<1> DEFINE M == Meant(es, path)
<1>2. M \subseteq Shown(es) /\ Shown(es) \subseteq 1..Len(es) /\ \A n \in Shown(es) : es[n].kind \in {"file", "dir", "dots"}
  BY <1>1 DEF Meant, Shown
<1>3. EntryIn(es, path) = IF M = {} THEN NoEntry ELSE es[Least(M)]
  BY DEF EntryIn
<1> HIDE DEF M
<1>4. M \subseteq Nat
  BY <1>1, <1>2
<1>5. CASE M = {}
  BY <1>2, <1>3, <1>4, <1>5 DEF M, OnTheWay
<1>6. CASE M # {}
  <2>1. Least(M) \in M
    BY <1>4, <1>6, LeastIsLeast
  <2>2. es[Least(M)] \in Fitting /\ es[Least(M)].kind \in {"file", "dir", "dots"}
    BY <1>1, <1>2, <2>1
  <2> QED BY <1>2, <1>3, <1>4, <1>6, <2>2 DEF M, OnTheWay
<1> QED BY <1>5, <1>6

\* A path leads from directory to directory.
LEMMA OnPathIs ==
  ASSUME OnFatVolume(Volume), NEW path \in Seq(STRING)
  PROVE  /\ OnPath(path)[0] = Start
         /\ \A k \in 0..Len(path) : OnPath(path)[k] \in OnTheWay
         /\ \A k \in 1..Len(path) :
              OnPath(path)[k] =
                IF OnPath(path)[k - 1].kind # "dir" THEN NoEntry
                ELSE EntryIn(EntriesIn(Sectors(OnPath(path)[k - 1].first)), SubSeq(path, k, Len(path)))
<1> DEFINE S == OnTheWay
           n == Len(path)
           Next1(x, k) == IF x.kind # "dir" THEN NoEntry
                          ELSE EntryIn(EntriesIn(Sectors(x.first)), SubSeq(path, k, n))
           Solves(f) == f = [k \in 0..n |-> IF k = 0 THEN Start ELSE Next1(f[k - 1], k)]
           F == [x \in S \X Nat |-> Next1(x[1], x[2])]
<1>1. n \in Nat /\ Start \in S
  BY DEF OnTheWay
<1>2. \A x \in S, k \in Nat : Next1(x, k) \in S
  <2> SUFFICES ASSUME NEW x \in S, NEW k \in Nat PROVE Next1(x, k) \in S
    OBVIOUS
  <2>1. CASE x.kind # "dir"
    BY <2>1 DEF OnTheWay
  <2>2. CASE ~(x.kind # "dir")
    <3>1. ChainEnds(Volume.next, x.first)
      BY <2>2, StartIs
    <3>2. Len(Sectors(x.first)) \in Nat
      BY <3>1, SectorsAre
    <3>3. EntriesIn(Sectors(x.first)) \in Seq(Fitting)
      BY <3>2, EntriesAre
    <3>4. EntryIn(EntriesIn(Sectors(x.first)), SubSeq(path, k, n)) \in S
      BY <3>3, EntryInIs
    <3> QED BY <2>2, <3>4
  <2> QED BY <2>1, <2>2
<1> DEFINE g == OnPath(path)
<1>3. g = CHOOSE step : Solves(step)
  BY DEF OnPath, Start
<1> HIDE DEF S, Next1, n, g
<1>4. F \in [S \X Nat -> S]
  BY <1>2
<1>5. \A x \in S, k \in Nat : F[<<x, k>>] = Next1(x, k)
  OBVIOUS
<1> HIDE DEF F
<1>6. PICK f \in [0..n -> S] : f[0] = Start /\ \A k \in 1..n : f[k] = F[<<f[k - 1], k>>]
  <2>1. \E f \in [0..n -> S] : Comes(f, n, Start, F)
    BY <1>1, <1>4, Recursion, Zenon
  <2> QED BY <2>1 DEF Comes
<1>7. \A k \in 1..n : k \in Nat /\ k - 1 \in 0..n /\ k \in 0..n /\ k # 0
  BY <1>1
<1>8. \A k \in 1..n : f[k] = Next1(f[k - 1], k)
  BY <1>5, <1>6, <1>7
<1>9. \A k \in 0..n : f[k] = IF k = 0 THEN Start ELSE Next1(f[k - 1], k)
  <2>1. \A k \in 0..n : k # 0 => k \in 1..n
    BY <1>1
  <2> QED BY <1>6, <1>8, <2>1
<1>10. Solves(f)
  BY <1>6, <1>9
<1>11. Solves(g)
  BY <1>3, <1>10
<1>12. g[0] = Start /\ \A k \in 1..n : g[k] = Next1(g[k - 1], k)
  <2>1. 0 \in 0..n /\ \A k \in 0..n : g[k] = IF k = 0 THEN Start ELSE Next1(g[k - 1], k)
    BY <1>1, <1>11
  <2> QED BY <1>7, <2>1
<1>13. \A k \in 0..n : g[k] \in S
  <2> DEFINE T == {k \in 0..n : g[k] \in S}
  <2>1. 0 \in T
    BY <1>1, <1>12
  <2>2. ASSUME NEW k \in 1..n, k - 1 \in T
        PROVE  k \in T
    BY <1>2, <1>7, <1>12, <2>2
  <2> HIDE DEF T
  <2>3. 0..n \subseteq T
    BY <1>1, <2>1, <2>2, Reaches
  <2> QED BY <2>3 DEF T
<1> QED BY <1>12, <1>13 DEF Next1, S, n, g

\* Behind what is no directory a path leads to nothing.
LEMMA NothingBehind ==
  ASSUME OnFatVolume(Volume), NEW path \in Seq(STRING), NEW n \in 0..Len(path), OnPath(path)[n].kind # "dir",
         n # Len(path) \/ OnPath(path)[n].kind = "none"
  PROVE  Lookup(path).kind = "none"
<1> DEFINE l == Len(path)
           g == OnPath(path)
           T == {d \in Nat : n + d <= l => g[n + d].kind # "dir" /\ (d # 0 => g[n + d].kind = "none")}
<1>1. l \in Nat /\ n \in 0..l
  OBVIOUS
<1>2. \A k \in 1..l : g[k - 1].kind # "dir" => g[k].kind = "none"
  BY OnPathIs, StartIs
<1>3. g[n].kind # "dir" /\ (n # l \/ g[n].kind = "none")
  OBVIOUS
<1>4. Lookup(path) = g[l]
  BY DEF Lookup
<1> HIDE DEF l, g
<1>5. 0 \in T
  BY <1>1, <1>3
<1>6. ASSUME NEW d \in 1..(l - n), d - 1 \in T
      PROVE  d \in T
  <2>1. n + d \in 1..l /\ (n + d) - 1 = n + (d - 1) /\ n + (d - 1) <= l /\ d \in Nat
    BY <1>1
  <2>2. g[(n + d) - 1].kind # "dir"
    BY <1>6, <2>1
  <2>3. g[n + d].kind = "none"
    BY <1>2, <2>1, <2>2
  <2> QED BY <2>1, <2>3
<1> HIDE DEF T
<1>7. 0..(l - n) \subseteq T
  <2>1. l - n \in Nat
    BY <1>1
  <2> QED BY <1>5, <1>6, <2>1, Reaches
<1>8. l - n \in T /\ n + (l - n) = l
  BY <1>1, <1>7
<1>9. l - n # 0 => g[l].kind = "none"
  BY <1>1, <1>8 DEF T
<1>10. l - n = 0 => n = l
  BY <1>1
<1> QED BY <1>3, <1>4, <1>9, <1>10

\* The entries of a buffer that a scan takes for the name
HitsIn(g, lfn, rest) == {n \in Shown(g) : Named(g[n], LfnBefore(g, lfn)[n], rest)}

\* What is in a buffer of the entries that are meant: those of its entries that have
\* the name, if all that comes before says whether a long name does.
LEMMA HitsAre ==
  ASSUME NEW A \in Seq(Fitting), NEW g \in Seq(Fitting), NEW a \in Nat, Continues(A, a, g),
         a + Len(g) <= Len(A), NEW lfn, lfn = Long(A, a + 1), NEW rest
  PROVE  /\ HitsIn(g, lfn, rest) = PlacesOf(Meant(A, rest), a, Len(g))
         /\ Shown(g) = PlacesOf(Shown(A), a, Len(g))
         /\ LfnBefore(g, lfn)[Len(g) + 1] = Long(A, (a + Len(g)) + 1)
<1> DEFINE l == Len(g)
           L == Len(A)
           before == LfnBefore(g, lfn)
<1>1. /\ DOMAIN A = 1..L /\ DOMAIN g = 1..l /\ l \in Nat /\ L \in Nat /\ a + l <= L
      /\ \A x \in 1..l : A[a + x] = g[x]
  BY DEF Continues
<1>2. \A k \in 1..(l + 1) : before[k] = Long(A, a + k)
  <2>1. Len(g) \in Nat /\ (\A x \in 1..Len(g) : A[a + x] = g[x]) /\ lfn = Long(A, a + 1)
    BY <1>1
  <2> HIDE DEF l, before
  <2>2. \A k \in 1..(Len(g) + 1) : LfnBefore(g, lfn)[k] = Long(A, a + k)
    BY <2>1, LfnBeforeIs
  <2> QED BY <2>2 DEF l, before
<1> HIDE DEF l, L, before
<1>3. \A x \in 1..l : a + x \in 1..L /\ x \in 1..(l + 1)
  BY <1>1
<1>4. \A x \in 1..l : x \in Shown(g) <=> a + x \in Shown(A)
  BY <1>1, <1>3 DEF Shown
<1>5. Shown(g) \subseteq 1..l
  BY <1>1 DEF Shown
<1>6. ASSUME NEW x \in 1..l
      PROVE  x \in Shown(g) /\ Named(g[x], before[x], rest) <=> a + x \in Meant(A, rest)
  <2>1. before[x] = Long(A, a + x) /\ A[a + x] = g[x]
    BY <1>1, <1>2, <1>3
  <2>2. Named(g[x], before[x], rest) <=>
          A[a + x].name = Dosname(Head(rest)) \/ (Long(A, a + x) /\ Strcasecmp(rest) = 0)
    BY <2>1 DEF Named
  <2>3. a + x \in Meant(A, rest) <=>
          a + x \in Shown(A) /\ (A[a + x].name = Dosname(Head(rest)) \/ (Long(A, a + x) /\ Strcasecmp(rest) = 0))
    BY DEF Meant
  <2> QED BY <1>4, <2>2, <2>3
<1>7. {n \in Shown(g) : Named(g[n], before[n], rest)} = {x \in 1..l : a + x \in Meant(A, rest)}
  BY <1>5, <1>6
<1>8. Shown(g) = {x \in 1..l : a + x \in Shown(A)}
  BY <1>4, <1>5
<1>9. before[l + 1] = Long(A, (a + l) + 1)
  <2>1. l + 1 \in 1..(l + 1) /\ a + (l + 1) = (a + l) + 1
    BY <1>1
  <2> QED BY <1>2, <2>1
<1> QED BY <1>7, <1>8, <1>9 DEF l, before, HitsIn, PlacesOf

\* What is on a disk does not change, nor what a call means by its path.
LEMMA SameDisk ==
  ASSUME UNCHANGED vol
  PROVE  /\ Volume' = Volume /\ (Fat32' <=> Fat32) /\ Width' = Width /\ RootCluster' = RootCluster
         /\ \A c : Chain(c)' = Chain(c) /\ Sectors(c)' = Sectors(c)
         /\ \A S : EntriesUpto(S)' = EntriesUpto(S) /\ EntriesIn(S)' = EntriesIn(S)
<1>1. Volume' = Volume /\ (Fat32' <=> Fat32) /\ Width' = Width /\ RootCluster' = RootCluster
  BY DEF Volume, Fat32, Width, RootCluster
<1>2. ASSUME NEW c
      PROVE  Chain(c)' = Chain(c)
  BY DEF Chain, Volume
<1>3. ASSUME NEW c
      PROVE  Sectors(c)' = Sectors(c)
  BY DEF Sectors, SectorsOf, Chain, Fat32, Volume
<1>4. ASSUME NEW S
      PROVE  EntriesUpto(S)' = EntriesUpto(S)
  BY DEF EntriesUpto, Held, Volume
<1>5. ASSUME NEW S
      PROVE  EntriesIn(S)' = EntriesIn(S)
  BY <1>4 DEF EntriesIn
<1> QED BY <1>1, <1>2, <1>3, <1>4, <1>5

PathsLead ==
  \A path \in Seq(STRING) :
    /\ OnPath(path)[0] = Start
    /\ \A k \in 1..Len(path) :
         OnPath(path)[k] =
           IF OnPath(path)[k - 1].kind # "dir" THEN NoEntry
           ELSE EntryIn(EntriesIn(Sectors(OnPath(path)[k - 1].first)), SubSeq(path, k, Len(path)))

LEMMA AllPathsLead == vol \in DOMAIN VolumeOf /\ ~Ntfs => PathsLead
BY OnPathIs, FatVolumeIs DEF PathsLead

LEMMA SameNames ==
  ASSUME UNCHANGED vol, call'.tail = call.tail, vol \in DOMAIN VolumeOf, ~Ntfs
  PROVE  /\ \A es, path : Meant(es, path)' = Meant(es, path)
         /\ \A path \in Seq(STRING) : \A k \in 0..Len(path) : (OnPath(path)[k])' = OnPath(path)[k]
<1>1. ASSUME NEW es, NEW path
      PROVE  Meant(es, path)' = Meant(es, path)
  BY DEF Meant, Shown, Long, Strcasecmp
<1>2. PathsLead
  BY AllPathsLead
<1>3. (vol \in DOMAIN VolumeOf /\ ~Ntfs => PathsLead)'
  BY AllPathsLead, PTL
<1>4. PathsLead'
  BY <1>3 DEF Ntfs, Volume
<1>5. ASSUME NEW path \in Seq(STRING)
      PROVE  \A k \in 0..Len(path) : (OnPath(path)[k])' = OnPath(path)[k]
  <2> DEFINE g == OnPath(path)
             n == Len(path)
             h(x, k) == EntryIn(EntriesIn(Sectors(x.first)), SubSeq(path, k, n))
             T == {k \in 0..n : (g[k])' = g[k]}
  <2>1. \A x, k : h(x, k)' = h(x, k)
    <3>1. \A es, q : EntryIn(es, q)' = EntryIn(es, q)
      BY <1>1 DEF EntryIn
    <3>2. (\A c : Sectors(c)' = Sectors(c)) /\ \A S : EntriesIn(S)' = EntriesIn(S)
      BY SameDisk
    <3> QED BY <3>1, <3>2
  <2>2. g[0] = Start /\ \A k \in 1..n : g[k] = IF g[k - 1].kind # "dir" THEN NoEntry ELSE h(g[k - 1], k)
    BY <1>2 DEF PathsLead
  <2>3. (g[0])' = Start' /\ \A k \in 1..n : (g[k])' = (IF g[k - 1].kind # "dir" THEN NoEntry ELSE h(g[k - 1], k))'
    BY <1>4 DEF PathsLead
  <2>4. Start' = Start /\ n \in Nat
    BY DEF Start, RootCluster, Fat32, Volume
  <2> HIDE DEF g, h, n
  <2>5. 0 \in T
    BY <2>2, <2>3, <2>4
  <2>6. ASSUME NEW k \in 1..n, k - 1 \in T
        PROVE  k \in T
    BY <2>1, <2>2, <2>3, <2>6
  <2> HIDE DEF T
  <2>7. 0..n \subseteq T
    BY <2>4, <2>5, <2>6, Reaches
  <2>8. \A k \in 0..n : (g[k])' = g[k]
    BY <2>7 DEF T
  <2> QED BY <2>8 DEF g, n
<1> QED BY <1>1, <1>5

LEMMA SameLookup ==
  ASSUME UNCHANGED vol, call'.tail = call.tail, vol \in DOMAIN VolumeOf, ~Ntfs
  PROVE  \A path \in Seq(STRING) :
           Through(path)' = Through(path) /\ Lookup(path)' = Lookup(path)
<1> SUFFICES ASSUME NEW path \in Seq(STRING)
             PROVE  Through(path)' = Through(path) /\ Lookup(path)' = Lookup(path)
  OBVIOUS
<1>1. (\A k \in 0..Len(path) : (OnPath(path)[k])' = OnPath(path)[k]) /\ \A c : Chain(c)' = Chain(c)
  BY SameNames, SameDisk
<1>2. DirsOn(path)' = DirsOn(path) /\ DirsOn(path) \subseteq 0..Len(path)
  BY <1>1 DEF DirsOn
<1>3. Through(path)' = Through(path)
  <2> DEFINE Of(n) == ClustersOf(Chain(OnPath(path)[n].first))
  <2>1. \A n \in DirsOn(path) : Of(n)' = Of(n)
    BY <1>1, <1>2 DEF ClustersOf
  <2>2. Through(path) = UNION {Of(n) : n \in DirsOn(path)} /\ Through(path)' = UNION {Of(n)' : n \in DirsOn(path)'}
    BY DEF Through
  <2> HIDE DEF Of
  <2> QED BY <1>2, <2>1, <2>2
<1>4. Lookup(path)' = Lookup(path)
  <2>1. Len(path) \in 0..Len(path)
    OBVIOUS
  <2> QED BY <1>1, <2>1 DEF Lookup
<1> QED BY <1>3, <1>4

\* A lookup is at the directory behind the first n names of its path.
OnWay(cl, n) ==
  /\ OnPath(cl.path)[n].kind = "dir"
  /\ cl.rest = SubSeq(cl.path, n + 1, Len(cl.path)) /\ (cl.list <=> n = Len(cl.path))
  /\ cl.list => cl.op = "list"

\* The scan is at group m of the sectors of directory c, from 0 on;
InDir(cl, c, m) ==
  IF c = 0 THEN cl.dir = 0 /\ cl.i = m /\ m < Volume.root
  ELSE m < Len(Chain(c)) /\ cl.dir = Chain(c)[m + 1]

\* the first k sectors are behind it,
Swept(cl, c, k) ==
  LET A == EntriesIn(Sectors(c))
      a == Len(EntriesUpto(Sectors(c))[k])
  IN  /\ cl.lfn = Long(A, a + 1)
      /\ cl.list => cl.count = Cardinality({i \in Shown(A) : i <= a})
      /\ ~cl.list => cl.count = 0 /\ \A i \in Meant(A, cl.rest) : i > a

\* and these are in the buffer.
Shows(buffer, c, m) == Visible(buffer) = [j \in 1..Width |-> Sectors(c)[m * Width + j]]

\* On FAT12/16 no cluster is taken for the root's sector.
Apart(cl, n, cluster, buffer) ==
  Fat32 \/ IF cl.dir = 0 THEN (n = 0 /\ cluster = cl.cached) \/ n = Len(cl.path)
           ELSE cluster = cl.cached \/ buffer[1] = <<cluster, 1>>

Looking(cl, at, cluster, buffer, n, m) ==
  LET c == OnPath(cl.path)[n].first
  IN  /\ OnWay(cl, n) /\ Apart(cl, n, cluster, buffer)
      /\ InDir(cl, c, m) /\ Swept(cl, c, (IF at = "next" THEN m + 1 ELSE m) * Width)
      /\ at = "scan" => Shows(buffer, c, m)

Claimed(cl) == Fat32 \/ cl.cached \notin Through(cl.path)

FatLook ==
  pc \in {"dir", "scan", "next"} /\ trust # "spoilt" /\ Claimed(call) =>
    trust = "clean" /\ \E n \in 0..Len(call.path), m \in Nat : Looking(call, pc, data_cluster, dbuf, n, m)

Answers(r, t) ==
  \/ r = Expected(call.path)
  \/ t = "failed" /\ r.kind = "none"
  \/ t = "failed" /\ r.kind = "count" /\ r.n <= Expected(call.path).n

FatLookInv ==
  /\ call.path \in Seq(STRING) /\ FatLook /\ FindRight
  /\ pc \in {"locate", "copy", "turn"} => call.op = "read"

LEMMA LookingSame ==
  ASSUME UNCHANGED vol, call'.tail = call.tail, vol \in DOMAIN VolumeOf, ~Ntfs,
         NEW cl, cl.path \in Seq(STRING), NEW at, NEW cluster, NEW buffer, NEW n \in 0..Len(cl.path), NEW m,
         Looking(cl, at, cluster, buffer, n, m)
  PROVE  Looking(cl, at, cluster, buffer, n, m)'
<1> DEFINE e == OnPath(cl.path)[n]
           c == e.first
<1>1. (OnPath(cl.path)[n])' = e /\ \A es, path : Meant(es, path)' = Meant(es, path)
  BY SameNames
<1>2. /\ Volume' = Volume /\ (Fat32' <=> Fat32) /\ Width' = Width
      /\ \A d : Chain(d)' = Chain(d) /\ Sectors(d)' = Sectors(d)
      /\ \A S : EntriesUpto(S)' = EntriesUpto(S) /\ EntriesIn(S)' = EntriesIn(S)
  BY SameDisk
<1>3. OnWay(cl, n)' <=> OnWay(cl, n)
  BY <1>1 DEF OnWay
<1>4. Apart(cl, n, cluster, buffer)' <=> Apart(cl, n, cluster, buffer)
  BY <1>2 DEF Apart
<1>5. \A d : InDir(cl, d, m)' <=> InDir(cl, d, m)
  BY <1>2 DEF InDir
<1>6. \A d, k : Swept(cl, d, k)' <=> Swept(cl, d, k)
  BY <1>1, <1>2 DEF Swept
<1>7. \A d : Shows(buffer, d, m)' <=> Shows(buffer, d, m)
  BY <1>2 DEF Shows, Visible
<1> QED BY <1>1, <1>2, <1>3, <1>4, <1>5, <1>6, <1>7 DEF Looking

\* A scan begins.
StartsLook ==
  \A cl, cluster, buffer, n :
    /\ cl.path \in Seq(STRING) /\ n \in 0..Len(cl.path) /\ OnWay(cl, n) /\ Apart(cl, n, cluster, buffer)
    /\ cl.dir = OnPath(cl.path)[n].first /\ cl.i = 0 /\ cl.lfn = FALSE /\ cl.count = 0
    => Looking(cl, "dir", cluster, buffer, n, 0)

LEMMA AllStartsLook == vol \in DOMAIN VolumeOf /\ ~Ntfs => StartsLook
<1> SUFFICES ASSUME vol \in DOMAIN VolumeOf, ~Ntfs, NEW cl, NEW cluster, NEW buffer, NEW n,
                    cl.path \in Seq(STRING), n \in 0..Len(cl.path), OnWay(cl, n), Apart(cl, n, cluster, buffer),
                    cl.dir = OnPath(cl.path)[n].first, cl.i = 0, cl.lfn = FALSE, cl.count = 0
             PROVE  Looking(cl, "dir", cluster, buffer, n, 0)
  BY DEF StartsLook
<1> DEFINE c == cl.dir
<1> SUFFICES InDir(cl, c, 0) /\ Swept(cl, c, 0 * Width)
  BY DEF Looking
<1>1. OnFatVolume(Volume)
  BY FatVolumeIs
<1>2. ChainEnds(Volume.next, c) /\ (Fat32 => c # 0)
  <2>1. OnPath(cl.path)[n] \in OnTheWay /\ OnPath(cl.path)[n].kind = "dir"
    BY <1>1, OnPathIs DEF OnWay
  <2> QED BY <1>1, <2>1, StartIs
<1>3. InDir(cl, c, 0)
  <2>1. CASE c = 0
    <3>1. Volume.root \in Nat /\ Volume.root # 0
      BY <1>1, <1>2, <2>1 DEF OnFatVolume, Fat32
    <3> QED BY <2>1, <3>1 DEF InDir
  <2>2. CASE c # 0
    <3>1. Len(Chain(c)) \in Nat /\ Len(Chain(c)) # 0 /\ Chain(c)[1] = c
      BY <1>1, <1>2, <2>2, ChainIs
    <3> QED BY <2>2, <3>1 DEF InDir
  <2> QED BY <2>1, <2>2
<1>4. Width \in Nat \ {0} /\ Len(Sectors(c)) \in Nat
  BY <1>1, <1>2, SectorsAre
<1>5. EntriesUpto(Sectors(c))[0] = <<>> /\ EntriesIn(Sectors(c)) \in Seq(Fitting) /\ 0 * Width = 0
  <2>1. EntriesUpto(Sectors(c))[0] = <<>> /\ EntriesIn(Sectors(c)) \in Seq(Fitting)
    BY <1>1, <1>4, EntriesAre
  <2> QED BY <1>4, <2>1
<1> DEFINE A == EntriesIn(Sectors(c))
<1>6. Len(EntriesUpto(Sectors(c))[0 * Width]) = 0
  BY <1>5
<1>7. Shown(A) \subseteq 1..Len(A) /\ Meant(A, cl.rest) \subseteq Shown(A) /\ Len(A) \in Nat
  BY <1>5, EntryInIs
<1> HIDE DEF A
<1>8. {i \in Shown(A) : i <= 0} = {} /\ \A i \in Meant(A, cl.rest) : i > 0
  BY <1>7
<1>9. Cardinality({}) = 0
  BY FS_EmptySet
<1>10. ~Long(A, 0 + 1)
  BY LongIs
<1>11. Swept(cl, c, 0 * Width)
  <2>1. Long(A, 0 + 1) = FALSE
    BY <1>10 DEF Long
  <2> QED BY <1>6, <1>8, <1>9, <2>1 DEF Swept, A
<1> QED BY <1>3, <1>11

LEMMA WayEnds ==
  ASSUME OnFatVolume(Volume), NEW path \in Seq(STRING), NEW n \in 0..Len(path), OnPath(path)[n].kind = "dir"
  PROVE  ChainEnds(Volume.next, OnPath(path)[n].first) /\ (Fat32 => OnPath(path)[n].first # 0)
<1>1. OnPath(path)[n] \in OnTheWay
  BY OnPathIs
<1> QED BY <1>1, StartIs

\* A scan that is through has counted all entries, or none is meant; one that is not
\* has counted no more.
LEMMA SweptIs ==
  ASSUME OnFatVolume(Volume), NEW c, ChainEnds(Volume.next, c), NEW cl, NEW k \in 0..Len(Sectors(c)), Swept(cl, c, k)
  PROVE  LET A == EntriesIn(Sectors(c))
         IN  /\ cl.list => cl.count \in Nat /\ cl.count <= Cardinality(Shown(A))
             /\ cl.list /\ k = Len(Sectors(c)) => cl.count = Cardinality(Shown(A))
             /\ ~cl.list /\ k = Len(Sectors(c)) => Meant(A, cl.rest) = {}
<1> DEFINE A == EntriesIn(Sectors(c))
           a == Len(EntriesUpto(Sectors(c))[k])
           X == {i \in Shown(A) : i <= a}
<1>1. Len(Sectors(c)) \in Nat
  BY SectorsAre
<1>2. EntriesUpto(Sectors(c)) \in [0..Len(Sectors(c)) -> Seq(Fitting)] /\ A \in Seq(Fitting)
  BY <1>1, EntriesAre
<1>3. a \in Nat /\ Len(A) \in Nat
  BY <1>2
<1>4. k = Len(Sectors(c)) => a = Len(A)
  BY DEF EntriesIn
<1>5. Meant(A, cl.rest) \subseteq Shown(A) /\ Shown(A) \subseteq 1..Len(A)
  BY <1>2, EntryInIs
<1>6. /\ cl.list => cl.count = Cardinality(X)
      /\ ~cl.list => cl.count = 0 /\ \A i \in Meant(A, cl.rest) : i > a
  BY DEF Swept
<1> HIDE DEF A, a
<1>7. IsFiniteSet(Shown(A)) /\ X \subseteq Shown(A)
  <2>1. IsFiniteSet(1..Len(A))
    BY <1>3, FS_Interval
  <2> QED BY <1>5, <2>1, FS_Subset
<1>8. Cardinality(X) \in Nat /\ Cardinality(X) <= Cardinality(Shown(A)) /\ Cardinality(Shown(A)) \in Nat
  <2> HIDE DEF X
  <2> QED BY <1>7, FS_Subset, FS_CardinalityType
<1>9. a = Len(A) => X = Shown(A)
  BY <1>3, <1>5
<1>10. a = Len(A) /\ (\A i \in Meant(A, cl.rest) : i > a) => Meant(A, cl.rest) = {}
  BY <1>3, <1>5
<1> HIDE DEF X
<1> QED BY <1>4, <1>6, <1>8, <1>9, <1>10 DEF A

\* A name that no entry has leads to nothing,
LEMMA LeadsNowhere ==
  ASSUME OnFatVolume(Volume), NEW path \in Seq(STRING), NEW n \in 0..Len(path), n # Len(path),
         OnPath(path)[n].kind = "dir",
         Meant(EntriesIn(Sectors(OnPath(path)[n].first)), SubSeq(path, n + 1, Len(path))) = {}
  PROVE  Lookup(path).kind = "none"
<1> DEFINE A == EntriesIn(Sectors(OnPath(path)[n].first))
           rest == SubSeq(path, n + 1, Len(path))
<1>1. n + 1 \in 1..Len(path) /\ n + 1 \in 0..Len(path) /\ (n + 1) - 1 = n
  OBVIOUS
<1>2. OnPath(path)[n + 1] = EntryIn(A, rest)
  <2>1. OnPath(path)[n + 1] =
          IF OnPath(path)[(n + 1) - 1].kind # "dir" THEN NoEntry
          ELSE EntryIn(EntriesIn(Sectors(OnPath(path)[(n + 1) - 1].first)), SubSeq(path, n + 1, Len(path)))
    BY <1>1, OnPathIs
  <2> QED BY <1>1, <2>1
<1>3. EntryIn(A, rest) = NoEntry
  BY DEF EntryIn
<1>4. OnPath(path)[n + 1].kind = "none"
  BY <1>2, <1>3, StartIs
<1> QED BY <1>1, <1>4, NothingBehind

\* and one that an entry has to the first of them.
LEMMA LeadsTo ==
  ASSUME OnFatVolume(Volume), NEW path \in Seq(STRING), NEW n \in 0..Len(path), n # Len(path),
         OnPath(path)[n].kind = "dir"
  PROVE  n + 1 \in 0..Len(path) /\
         OnPath(path)[n + 1] = EntryIn(EntriesIn(Sectors(OnPath(path)[n].first)), SubSeq(path, n + 1, Len(path)))
<1>1. n + 1 \in 1..Len(path) /\ n + 1 \in 0..Len(path) /\ (n + 1) - 1 = n
  OBVIOUS
<1>2. OnPath(path)[n + 1] =
        IF OnPath(path)[(n + 1) - 1].kind # "dir" THEN NoEntry
        ELSE EntryIn(EntriesIn(Sectors(OnPath(path)[(n + 1) - 1].first)), SubSeq(path, n + 1, Len(path)))
  BY <1>1, OnPathIs
<1> QED BY <1>1, <1>2

LEMMA ListingIs ==
  ASSUME NEW n \in 0..Len(call.path), OnWay(call, n), call.list
  PROVE  Expected(call.path) = Count(Cardinality(Shown(EntriesIn(Sectors(OnPath(call.path)[n].first)))))
<1>1. n = Len(call.path) /\ call.op = "list" /\ OnPath(call.path)[n].kind = "dir"
  BY DEF OnWay
<1> QED BY <1>1 DEF Expected, Lookup

\* A lookup is done.
LEMMA LookDone ==
  ASSUME UNCHANGED <<vol, call>>, vol \in DOMAIN VolumeOf, ~Ntfs, FatLookInv, pc' = "done",
         trust' # "spoilt" /\ Claimed(call) /\ call.op \in Finding => Answers(result', trust')
  PROVE  FatLookInv'
<1>1. call.path \in Seq(STRING)
  BY DEF FatLookInv
<1>2. Through(call.path)' = Through(call.path)
      /\ Lookup(call.path)' = Lookup(call.path)
  BY <1>1, SameLookup
<1>3. (Fat32' <=> Fat32) /\ (\A c : Sectors(c)' = Sectors(c)) /\ \A S : EntriesIn(S)' = EntriesIn(S)
  BY SameDisk
<1>4. Expected(call.path)' = Expected(call.path)
  BY <1>2, <1>3 DEF Expected
<1>5. FindRight'
  <2> SUFFICES ASSUME call'.op \in Finding, trust' # "spoilt",
                      (Fat32 \/ call.cached \notin Through(call.path))'
               PROVE  AsExpected(Expected(call.path))'
    BY DEF FindRight, Finding
  <2>1. Claimed(call) /\ call.op \in Finding
    BY <1>2, <1>3 DEF Claimed
  <2>2. Answers(result', trust')
    BY <2>1
  <2> QED BY <1>4, <2>2 DEF Answers, AsExpected
<1>6. FatLook'
  BY DEF FatLook
<1> QED BY <1>1, <1>5, <1>6 DEF FatLookInv

\* A lookup goes on.
LEMMA LookGoesOn ==
  ASSUME UNCHANGED vol, call'.tail = call.tail, call'.path = call.path, call'.cached = call.cached,
         vol \in DOMAIN VolumeOf, ~Ntfs, FatLookInv, pc' \notin {"done", "locate", "copy", "turn"},
         pc' \in {"dir", "scan", "next"} /\ trust' # "spoilt" /\ Claimed(call) =>
           trust' = "clean" /\ \E n \in 0..Len(call.path), m \in Nat : Looking(call', pc', data_cluster', dbuf', n, m)
  PROVE  FatLookInv'
<1>1. call.path \in Seq(STRING) /\ call'.path \in Seq(STRING)
  BY DEF FatLookInv
<1>2. Claimed(call)' => Claimed(call)
  <2>1. Through(call.path)' = Through(call.path)
    BY <1>1, SameLookup
  <2>2. Fat32' <=> Fat32
    BY SameDisk
  <2> QED BY <2>1, <2>2 DEF Claimed
<1>3. FindRight'
  BY DEF FindRight
<1>4. FatLook'
  <2> SUFFICES ASSUME pc' \in {"dir", "scan", "next"}, trust' # "spoilt", Claimed(call)'
               PROVE  trust' = "clean" /\ \E n \in 0..Len(call'.path), m \in Nat :
                        Looking(call, pc, data_cluster, dbuf, n, m)'
    BY DEF FatLook
  <2>1. PICK n \in 0..Len(call.path), m \in Nat : Looking(call', pc', data_cluster', dbuf', n, m)
    BY <1>2
  <2>2. Looking(call, pc, data_cluster, dbuf, n, m)'
    BY <1>1, <2>1, LookingSame
  <2> QED BY <1>2, <2>1, <2>2
<1> QED BY <1>1, <1>3, <1>4 DEF FatLookInv

\* What a scan gets to see of a buffer
LEMMA SeenIs ==
  ASSUME NEW buffer, buffer = [k \in 1..ClusterSize |-> buffer[k]]
  PROVE  Visible(buffer) = [j \in 1..Width |-> buffer[j]]
<1>1. CASE Fat32
  BY <1>1 DEF Visible, Width
<1>2. CASE ~Fat32
  <2> DEFINE t == SubSeq(buffer, 1, 1)
             E == {buffer[1]}
  <2>1. t \in Seq(E) /\ Len(t) = 1 - 1 + 1 /\ \A i \in 1..(1 - 1 + 1) : t[i] = buffer[1 + i - 1]
    <3>1. \A i \in 1..1 : buffer[i] \in E
      OBVIOUS
    <3> HIDE DEF E
    <3> QED BY <3>1, SubSeqProperties
  <2> HIDE DEF t, E
  <2>2. Len(t) = 1 /\ \A i \in 1..1 : t[i] = buffer[i]
    BY <2>1
  <2>3. t = [i \in 1..Len(t) |-> t[i]]
    BY <2>1
  <2>4. t = [i \in 1..1 |-> buffer[i]]
    BY <2>2, <2>3
  <2> QED BY <1>2, <2>4 DEF Visible, Width, t
<1> QED BY <1>1, <1>2

\* The next group of sectors of the directory is in the buffer.
LEMMA LookReads ==
  ASSUME OnFatVolume(Volume), call.path \in Seq(STRING), NEW n \in 0..Len(call.path), NEW m \in Nat,
         NEW cluster, NEW buffer, Looking(call, "dir", data_cluster, dbuf, n, m),
         buffer = [k \in 1..ClusterSize |-> buffer[k]], Apart(call, n, cluster, buffer),
         \A k \in 1..Width : buffer[k] = IF call.dir = 0 THEN <<0, call.i>> ELSE <<call.dir, k>>
  PROVE  Looking(call, "scan", cluster, buffer, n, m)
<1> DEFINE c == OnPath(call.path)[n].first
<1>1. OnWay(call, n) /\ InDir(call, c, m) /\ Swept(call, c, m * Width)
  BY DEF Looking
<1>2. ChainEnds(Volume.next, c) /\ (Fat32 => c # 0)
  BY <1>1, WayEnds DEF OnWay
<1> HIDE DEF c
<1>3. \A j \in 1..Width : buffer[j] = Sectors(c)[m * Width + j]
  <2>1. CASE c = 0
    <3>1. call.dir = 0 /\ call.i = m /\ m < Volume.root /\ Width = 1
      BY <1>1, <1>2, <2>1 DEF InDir, Width
    <3>2. \A i \in 0..(Volume.root - 1) : Sectors(c)[i + 1] = <<0, i>>
      BY <1>2, <2>1, SectorsAre
    <3>3. m \in 0..(Volume.root - 1) /\ m * 1 + 1 = m + 1
      BY <3>1 DEF OnFatVolume
    <3>4. Sectors(c)[m * Width + 1] = <<0, m>>
      BY <3>1, <3>2, <3>3
    <3>5. \A j \in 1..Width : j = 1 /\ buffer[j] = <<0, m>>
      <4>1. \A j \in 1..1 : j = 1
        OBVIOUS
      <4>2. \A j \in 1..Width : buffer[j] = <<0, call.i>>
        BY <3>1
      <4> QED BY <3>1, <4>1, <4>2
    <3> QED BY <3>4, <3>5
  <2>2. CASE c # 0
    <3>1. m < Len(Chain(c)) /\ call.dir = Chain(c)[m + 1]
      BY <1>1, <2>2 DEF InDir
    <3>2. Len(Chain(c)) \in Nat /\ \A k \in 1..Len(Chain(c)) : Chain(c)[k] # 0
      BY <1>2, ChainIs
    <3>3. m \in 0..(Len(Chain(c)) - 1) /\ m + 1 \in 1..Len(Chain(c))
      BY <3>1, <3>2
    <3>4. \A j \in 1..Width : Sectors(c)[m * Width + j] = <<Chain(c)[m + 1], j>>
      BY <1>2, <2>2, <3>3, SectorsAre
    <3> QED BY <3>1, <3>2, <3>3, <3>4
  <2> QED BY <2>1, <2>2
<1>4. Shows(buffer, c, m)
  <2>1. Visible(buffer) = [j \in 1..Width |-> buffer[j]]
    BY SeenIs
  <2> QED BY <1>3, <2>1 DEF Shows
<1> QED BY <1>1, <1>4 DEF Looking, c

LEMMA LookReadRoot ==
  ASSUME FatInv, FatLookInv, ReadRoot
  PROVE  FatLookInv'
<1>1. vol \in DOMAIN VolumeOf /\ ~Ntfs /\ OnFatVolume(Volume) /\ call.path \in Seq(STRING)
  BY FatVolumeIs DEF FatInv, FatLookInv
<1>2. PICK got \in {"ok", "negative", "positive"} :
        /\ IF got = "ok" THEN dbuf' = [dbuf EXCEPT ![1] = <<0, call.i>>] /\ UNCHANGED fails
           ELSE Fail /\ dbuf' \in {dbuf, [dbuf EXCEPT ![1] = <<0, call.i>>]}
        /\ IF got = "negative" THEN Finish(NoResult) /\ Noticed
           ELSE GoOn("scan") /\ IF got = "ok" THEN UNCHANGED trust ELSE Unnoticed
  BY DEF ReadRoot
<1>3. pc = "dir" /\ call.dir = 0 /\ ~Fat32 /\ UNCHANGED <<vol, call, data_cluster>>
  BY DEF ReadRoot
<1>4. CASE got = "ok"
  <2>1. dbuf' = [dbuf EXCEPT ![1] = <<0, call.i>>] /\ pc' = "scan" /\ trust' = trust
    BY <1>2, <1>4 DEF GoOn
  <2>2. ASSUME trust' # "spoilt", Claimed(call)
        PROVE  trust' = "clean" /\ \E n \in 0..Len(call.path), m \in Nat : Looking(call', pc', data_cluster', dbuf', n, m)
    <3>1. trust = "clean" /\ \E n \in 0..Len(call.path), m \in Nat : Looking(call, pc, data_cluster, dbuf, n, m)
      BY <1>3, <2>1, <2>2 DEF FatLookInv, FatLook
    <3>2. PICK n \in 0..Len(call.path), m \in Nat : Looking(call, "dir", data_cluster, dbuf, n, m)
      BY <1>3, <3>1
    <3>3. dbuf' = [k \in 1..ClusterSize |-> dbuf'[k]]
      BY BuffersReadRoot DEF FatInv, DbufTyped
    <3>4. \A k \in 1..Width : dbuf'[k] = <<0, call.i>>
      <4>1. 1 \in 1..ClusterSize
        BY CallAssumption
      <4> QED BY <1>3, <2>1, <4>1 DEF Width, FatInv, DbufTyped
    <3>5. Apart(call, n, data_cluster, dbuf')
      BY <1>3, <3>2 DEF Looking, Apart
    <3>6. Looking(call, "scan", data_cluster, dbuf', n, m)
      BY <1>1, <1>3, <3>2, <3>3, <3>4, <3>5, LookReads
    <3> QED BY <1>3, <2>1, <3>1, <3>6
  <2> QED BY <1>1, <1>3, <2>1, <2>2, LookGoesOn
<1>5. CASE got = "negative"
  <2>1. pc' = "done" /\ result' = NoResult /\ Noticed
    BY <1>2, <1>5 DEF Finish
  <2>2. trust' # "spoilt" /\ Claimed(call) => trust' = "failed"
    BY <1>3, <2>1 DEF Noticed, FatLookInv, FatLook
  <2>3. trust' # "spoilt" /\ Claimed(call) => Answers(result', trust')
    BY <2>1, <2>2 DEF Answers, NoResult
  <2> QED BY <1>1, <1>3, <2>1, <2>3, LookDone
<1>6. CASE got = "positive"
  <2>1. pc' = "scan" /\ trust' = "spoilt"
    BY <1>2, <1>6 DEF GoOn, Unnoticed
  <2> QED BY <1>1, <1>3, <2>1, LookGoesOn
<1> QED BY <1>2, <1>4, <1>5, <1>6

LEMMA LookReadDir ==
  ASSUME FatInv, FatLookInv, ReadDir
  PROVE  FatLookInv'
<1>1. vol \in DOMAIN VolumeOf /\ ~Ntfs /\ OnFatVolume(Volume) /\ call.path \in Seq(STRING)
  BY FatVolumeIs DEF FatInv, FatLookInv
<1>2. PICK got \in {"ok", "negative"} :
        /\ ReadCluster(call.dir, got)
        /\ IF got = "ok" THEN GoOn("scan") /\ UNCHANGED trust ELSE Finish(NoResult) /\ Noticed
  BY DEF ReadDir
<1>3. pc = "dir" /\ call.dir # 0 /\ UNCHANGED <<vol, call, fbuf, fat_sector>>
  BY DEF ReadDir
<1>4. CASE got = "ok"
  <2>1. pc' = "scan" /\ trust' = trust
    BY <1>2, <1>4 DEF GoOn
  <2>2. ASSUME trust' # "spoilt", Claimed(call)
        PROVE  trust' = "clean" /\ \E n \in 0..Len(call.path), m \in Nat : Looking(call', pc', data_cluster', dbuf', n, m)
    <3>1. trust = "clean" /\ \E n \in 0..Len(call.path), m \in Nat : Looking(call, pc, data_cluster, dbuf, n, m)
      BY <1>3, <2>1, <2>2 DEF FatLookInv, FatLook
    <3>2. PICK n \in 0..Len(call.path), m \in Nat : Looking(call, "dir", data_cluster, dbuf, n, m)
      BY <1>3, <3>1
    <3> DEFINE c == OnPath(call.path)[n].first
    <3>3. OnWay(call, n) /\ InDir(call, c, m) /\ Apart(call, n, data_cluster, dbuf)
      BY <1>3, <3>2 DEF Looking
    <3>4. /\ m < Len(Chain(c)) /\ call.dir = Chain(c)[m + 1] /\ Len(Chain(c)) \in Nat
          /\ DOMAIN Chain(c) = 1..Len(Chain(c)) /\ call.dir \in DOMAIN Volume.next
      <4>1. ChainEnds(Volume.next, c)
        BY <1>1, <3>3, WayEnds DEF OnWay
      <4> HIDE DEF c
      <4>2. m < Len(Chain(c)) /\ call.dir = Chain(c)[m + 1]
        BY <1>3, <3>3 DEF InDir
      <4>3. Len(Chain(c)) \in Nat /\ DOMAIN Chain(c) = 1..Len(Chain(c))
            /\ \A k \in 1..Len(Chain(c)) : Chain(c)[k] \in DOMAIN Volume.next
        BY <1>1, <4>1, ChainIs
      <4>4. m + 1 \in 1..Len(Chain(c))
        BY <4>2, <4>3
      <4> QED BY <4>2, <4>3, <4>4
    <3>5. ~Fat32 => (data_cluster = call.cached /\ data_cluster # call.dir) \/ dbuf[1] = <<data_cluster, 1>>
      <4> SUFFICES ASSUME ~Fat32, data_cluster = call.cached
                   PROVE  data_cluster # call.dir
        BY <1>3, <3>3 DEF Apart
      <4>1. call.dir \in ClustersOf(Chain(c))
        <5> HIDE DEF c
        <5>1. m + 1 \in DOMAIN Chain(c)
          BY <3>4
        <5> QED BY <3>4, <5>1 DEF ClustersOf
      <4>2. n \in DirsOn(call.path)
        BY <3>3 DEF DirsOn, OnWay
      <4>3. call.dir \in Through(call.path)
        BY <4>1, <4>2 DEF Through
      <4> QED BY <2>2, <4>3 DEF Claimed
    <3>6. data_cluster' = call.dir /\ \A k \in 1..Width : dbuf'[k] = <<call.dir, k>>
      <4>1. Width \in 1..ClusterSize /\ (~Fat32 => Width = 1) /\ (Fat32 => Width = ClusterSize)
        BY CallAssumption DEF Width
      <4>2. CASE data_cluster # call.dir
        <5>1. dbuf' = Cluster(call.dir) /\ data_cluster' = call.dir
          BY <1>2, <1>4, <4>2 DEF ReadCluster, ReadSectors
        <5>2. \A k \in 1..ClusterSize : dbuf'[k] = <<call.dir, k>>
          BY <5>1 DEF Cluster
        <5>3. \A k \in 1..Width : k \in 1..ClusterSize
          BY <4>1, CallAssumption
        <5> QED BY <5>1, <5>2, <5>3
      <4>3. CASE data_cluster = call.dir
        <5>1. dbuf' = dbuf /\ data_cluster' = data_cluster
          BY <1>2, <4>3 DEF ReadCluster
        <5>2. data_cluster # Nothing
          <6>1. call.dir \in Nat
            BY <1>1, <3>4 DEF OnFatVolume
          <6>2. call.dir # -1
            BY <6>1
          <6> QED BY <4>3, <6>2 DEF Nothing
        <5>3. CASE Fat32
          BY <3>1, <4>1, <4>3, <5>1, <5>2, <5>3 DEF FatInv, BuffersHonest
        <5>4. CASE ~Fat32
          BY <3>5, <4>1, <4>3, <5>1, <5>4
        <5> QED BY <4>3, <5>1, <5>3, <5>4
      <4> QED BY <4>2, <4>3
    <3>7. dbuf' = [k \in 1..ClusterSize |-> dbuf'[k]]
      <4>1. trust' = "clean" => trust = "clean" /\ got = "ok"
        BY <1>4, <3>1
      <4> QED BY <1>2, <1>3, <4>1, BuffersReadCluster DEF FatInv, DbufTyped
    <3>8. Apart(call, n, data_cluster', dbuf')
      <4>1. 1 \in 1..Width
        BY CallAssumption DEF Width
      <4> QED BY <1>3, <3>6, <4>1 DEF Apart
    <3>9. Looking(call, "scan", data_cluster', dbuf', n, m)
      <4>1. \A k \in 1..Width : dbuf'[k] = IF call.dir = 0 THEN <<0, call.i>> ELSE <<call.dir, k>>
        BY <1>3, <3>6
      <4> QED BY <1>1, <1>3, <3>2, <3>7, <3>8, <4>1, LookReads
    <3> QED BY <1>3, <2>1, <3>1, <3>9
  <2> QED BY <1>1, <1>3, <2>1, <2>2, LookGoesOn
<1>5. CASE got = "negative"
  <2>1. pc' = "done" /\ result' = NoResult /\ Noticed
    BY <1>2, <1>5 DEF Finish
  <2>2. trust' # "spoilt" /\ Claimed(call) => trust' = "failed"
    BY <1>3, <2>1 DEF Noticed, FatLookInv, FatLook
  <2>3. trust' # "spoilt" /\ Claimed(call) => Answers(result', trust')
    BY <2>1, <2>2 DEF Answers, NoResult
  <2> QED BY <1>1, <1>3, <2>1, <2>3, LookDone
<1> QED BY <1>2, <1>4, <1>5

\* What a scan of a buffer finds, and how it goes on.
Scans(n, m, buffer) ==
  LET c == OnPath(call.path)[n].first
      A == EntriesIn(Sectors(c))
      a == Len(EntriesUpto(Sectors(c))[m * Width])
      g == EntriesIn(Visible(buffer))
  IN  /\ InDir(call, c, m) /\ a \in Nat /\ Len(g) \in Nat
      /\ Len(EntriesUpto(Sectors(c))[(m + 1) * Width]) = a + Len(g)
      /\ A \in Seq(Fitting) /\ g \in Seq(Fitting) /\ Continues(A, a, g)
      /\ HitsIn(g, call.lfn, call.rest) = PlacesOf(Meant(A, call.rest), a, Len(g))
      /\ Shown(g) = PlacesOf(Shown(A), a, Len(g))
      /\ LfnBefore(g, call.lfn)[Len(g) + 1] = Long(A, (a + Len(g)) + 1)

\* It is so wherever a lookup scans.
LEMMA LookScans ==
  ASSUME OnFatVolume(Volume), call.path \in Seq(STRING), NEW n \in 0..Len(call.path), NEW m \in Nat,
         NEW cluster, NEW buffer, Looking(call, "scan", cluster, buffer, n, m)
  PROVE  Scans(n, m, buffer)
<1> DEFINE c == OnPath(call.path)[n].first
           A == EntriesIn(Sectors(c))
           b == m * Width
           a == Len(EntriesUpto(Sectors(c))[b])
           g == EntriesIn(Visible(buffer))
<1>1. /\ OnWay(call, n) /\ InDir(call, c, m) /\ Swept(call, c, b)
      /\ Shows(buffer, c, m)
  BY DEF Looking
<1>2. ChainEnds(Volume.next, c) /\ (Fat32 => c # 0)
  BY <1>1, WayEnds DEF OnWay
<1> HIDE DEF c
<1>3. Width \in Nat \ {0} /\ Len(Sectors(c)) \in Nat /\ b \in Nat /\ (m + 1) * Width = b + Width
  <2>1. Width \in Nat \ {0} /\ Len(Sectors(c)) \in Nat
    BY <1>2, SectorsAre
  <2> QED BY <2>1
<1>4. b + Width <= Len(Sectors(c))
  <2>1. CASE c = 0
    <3>1. Len(Sectors(c)) = Volume.root /\ m < Volume.root /\ Width = 1 /\ Volume.root \in Nat
      BY <1>1, <1>2, <2>1, SectorsAre DEF InDir, Width, OnFatVolume
    <3>2. m * 1 + 1 <= Volume.root
      BY <3>1
    <3> QED BY <3>1, <3>2
  <2>2. CASE c # 0
    <3>1. Len(Chain(c)) \in Nat /\ m < Len(Chain(c))
      BY <1>1, <1>2, <2>2, ChainIs DEF InDir
    <3>2. m \in 0..(Len(Chain(c)) - 1)
      BY <3>1
    <3> QED BY <1>2, <2>2, <3>2, SectorsAre
  <2> QED BY <2>1, <2>2
<1> HIDE DEF b
<1>5. Visible(buffer) = [j \in 1..Width |-> Sectors(c)[b + j]]
  BY <1>1 DEF Shows, b
<1>6. /\ A \in Seq(Fitting) /\ g \in Seq(Fitting) /\ a \in Nat /\ Len(g) \in Nat
      /\ Len(EntriesUpto(Sectors(c))[b + Width]) = a + Len(g) /\ a + Len(g) <= Len(A) /\ Continues(A, a, g)
  BY <1>3, <1>4, <1>5, GroupIs
<1>7. call.lfn = Long(A, a + 1)
  BY <1>1 DEF Swept
<1> HIDE DEF A, a, g
<1>8. /\ HitsIn(g, call.lfn, call.rest) = PlacesOf(Meant(A, call.rest), a, Len(g))
      /\ Shown(g) = PlacesOf(Shown(A), a, Len(g))
      /\ LfnBefore(g, call.lfn)[Len(g) + 1] = Long(A, (a + Len(g)) + 1)
  <2> DEFINE lfn == call.lfn
             rest == call.rest
  <2>1. /\ A \in Seq(Fitting) /\ g \in Seq(Fitting) /\ a \in Nat /\ Continues(A, a, g)
        /\ a + Len(g) <= Len(A) /\ lfn = Long(A, a + 1)
    BY <1>6, <1>7
  <2> HIDE DEF lfn, rest
  <2>2. /\ HitsIn(g, lfn, rest) = PlacesOf(Meant(A, rest), a, Len(g))
        /\ Shown(g) = PlacesOf(Shown(A), a, Len(g))
        /\ LfnBefore(g, lfn)[Len(g) + 1] = Long(A, (a + Len(g)) + 1)
    BY <2>1, HitsAre
  <2> QED BY <2>2 DEF lfn, rest
<1> QED BY <1>1, <1>3, <1>6, <1>8 DEF A, a, b, g, c, Scans

\* The entry that a scan takes is the one that the path means,
LEMMA LookFinds ==
  ASSUME OnFatVolume(Volume), call.path \in Seq(STRING), NEW n \in 0..Len(call.path), NEW m \in Nat,
         NEW cluster, NEW buffer, Looking(call, "scan", cluster, buffer, n, m), ~call.list,
         HitsIn(EntriesIn(Visible(buffer)), call.lfn, call.rest) # {},
         NEW e, e = EntriesIn(Visible(buffer))[Least(HitsIn(EntriesIn(Visible(buffer)), call.lfn, call.rest))]
  PROVE  /\ n # Len(call.path) /\ n + 1 \in 0..Len(call.path) /\ OnPath(call.path)[n + 1] = e
         /\ e \in Fitting /\ e.kind \in {"file", "dir", "dots"} /\ call.count = 0
         /\ Tail(call.rest) = SubSeq(call.path, (n + 1) + 1, Len(call.path))
         /\ Tail(call.rest) = <<>> <=> n + 1 = Len(call.path)
<1> DEFINE c == OnPath(call.path)[n].first
           A == EntriesIn(Sectors(c))
           a == Len(EntriesUpto(Sectors(c))[m * Width])
           g == EntriesIn(Visible(buffer))
           X == Meant(A, call.rest)
           Y == HitsIn(g, call.lfn, call.rest)
<1>1. /\ OnWay(call, n) /\ Swept(call, c, m * Width) /\ a \in Nat /\ Len(g) \in Nat
      /\ A \in Seq(Fitting) /\ Continues(A, a, g) /\ Y = PlacesOf(X, a, Len(g))
  <2>0. Scans(n, m, buffer)
    BY LookScans
  <2>1. a \in Nat /\ Len(g) \in Nat
    BY <2>0 DEF Scans
  <2>2. A \in Seq(Fitting) /\ Continues(A, a, g)
    BY <2>0 DEF Scans
  <2>3. Y = PlacesOf(X, a, Len(g))
    BY <2>0 DEF Scans
  <2>4. OnWay(call, n) /\ Swept(call, c, m * Width)
    BY DEF Looking
  <2> QED BY <2>1, <2>2, <2>3, <2>4
<1>2. call.count = 0 /\ \A i \in X : i > a
  BY <1>1 DEF Swept
<1>3. n # Len(call.path) /\ OnPath(call.path)[n].kind = "dir" /\ call.rest = SubSeq(call.path, n + 1, Len(call.path))
  BY <1>1 DEF OnWay
<1>4. n + 1 \in 0..Len(call.path) /\ OnPath(call.path)[n + 1] = EntryIn(A, call.rest)
  BY <1>3, LeadsTo
<1>5. X \subseteq Nat /\
      (X # {} => /\ EntryIn(A, call.rest) = A[Least(X)] /\ EntryIn(A, call.rest) \in Fitting
                 /\ EntryIn(A, call.rest).kind \in {"file", "dir", "dots"})
  BY <1>1, EntryInIs
<1>6. Tail(call.rest) = SubSeq(call.path, (n + 1) + 1, Len(call.path))
      /\ (Tail(call.rest) = <<>> <=> n + 1 = Len(call.path))
  <2>1. Tail(call.rest) = SubSeq(call.path, (n + 1) + 1, Len(call.path))
    <3>1. n # Len(call.path) /\ IsLeft(call.rest, call.path, n)
      BY <1>3 DEF IsLeft
    <3>2. IsLeft(Tail(call.rest), call.path, n + 1)
      BY <3>1, TailIs
    <3> QED BY <3>2 DEF IsLeft
  <2>2. SubSeq(call.path, (n + 1) + 1, Len(call.path)) = <<>> <=> n + 1 = Len(call.path)
    BY <1>4, RestIs
  <2> QED BY <2>1, <2>2
<1>7. Y # {} /\ e = g[Least(Y)]
  OBVIOUS
<1> HIDE DEF A, a, g, X, Y, c
<1>8. Least(Y) \in Y /\ Least(X) = a + Least(Y) /\ X # {}
  <2>1. X \subseteq Nat /\ a \in Nat /\ Len(g) \in Nat /\ (\A i \in X : i > a) /\ PlacesOf(X, a, Len(g)) # {}
    BY <1>1, <1>2, <1>5, <1>7
  <2> QED BY <1>1, <2>1, FirstBehind
<1>9. A[a + Least(Y)] = g[Least(Y)]
  <2>1. Least(Y) \in 1..Len(g)
    BY <1>1, <1>8 DEF PlacesOf
  <2> QED BY <1>1, <2>1 DEF Continues
<1> QED BY <1>2, <1>3, <1>4, <1>5, <1>6, <1>7, <1>8, <1>9

\* and a scan that takes none leaves the group behind.
LEMMA LookPasses ==
  ASSUME OnFatVolume(Volume), call.path \in Seq(STRING), NEW n \in 0..Len(call.path), NEW m \in Nat,
         NEW cluster, NEW buffer, Looking(call, "scan", cluster, buffer, n, m),
         NEW g, g = EntriesIn(Visible(buffer)), ~call.list => HitsIn(g, call.lfn, call.rest) = {},
         NEW new, UNCHANGED vol,
         new.path = call.path, new.rest = call.rest, new.list = call.list, new.dir = call.dir, new.i = call.i,
         new.op = call.op, new.cached = call.cached, new.lfn = LfnBefore(g, call.lfn)[Len(g) + 1],
         new.count = call.count + IF call.list THEN Cardinality(Shown(g)) ELSE 0
  PROVE  Looking(new, "next", cluster, buffer, n, m)
<1> DEFINE c == OnPath(call.path)[n].first
           A == EntriesIn(Sectors(c))
           a == Len(EntriesUpto(Sectors(c))[m * Width])
           X == Meant(A, call.rest)
<1>0. Scans(n, m, buffer)
  BY LookScans
<1>1. /\ InDir(call, c, m) /\ a \in Nat /\ Len(g) \in Nat
      /\ Len(EntriesUpto(Sectors(c))[(m + 1) * Width]) = a + Len(g)
      /\ A \in Seq(Fitting)
  BY <1>0 DEF Scans
<1>2. HitsIn(g, call.lfn, call.rest) = PlacesOf(X, a, Len(g))
  BY <1>0 DEF Scans
<1>3. Shown(g) = PlacesOf(Shown(A), a, Len(g))
  BY <1>0 DEF Scans
<1>4. new.lfn = Long(A, (a + Len(g)) + 1)
  BY <1>0 DEF Scans
<1>5. OnWay(call, n) /\ Apart(call, n, cluster, buffer) /\ Swept(call, c, m * Width)
  BY <1>1 DEF Looking
<1>6. OnWay(new, n) /\ Apart(new, n, cluster, buffer) /\ InDir(new, c, m)
  BY <1>1, <1>5 DEF OnWay, Apart, InDir
<1>7. /\ call.list => call.count = Cardinality({i \in Shown(A) : i <= a})
      /\ ~call.list => call.count = 0 /\ \A i \in X : i > a
  BY <1>5 DEF Swept
<1>8. Shown(A) \subseteq Nat /\ X \subseteq Nat
  <2>1. Shown(A) \subseteq 1..Len(A) /\ X \subseteq Nat
    BY <1>1, EntryInIs
  <2> QED BY <2>1
<1>9. Swept(new, c, (m + 1) * Width)
  <2> HIDE DEF A, a, X
  <2>1. ASSUME call.list
        PROVE  new.count = Cardinality({i \in Shown(A) : i <= a + Len(g)})
    <3>1. Cardinality({i \in Shown(A) : i <= a + Len(g)}) =
            Cardinality({i \in Shown(A) : i <= a}) + Cardinality(PlacesOf(Shown(A), a, Len(g)))
      BY <1>1, <1>8, CountBehind
    <3>2. Cardinality(Shown(g)) = Cardinality(PlacesOf(Shown(A), a, Len(g)))
      BY <1>3
    <3>3. new.count = call.count + Cardinality(Shown(g))
      BY <2>1
    <3> QED BY <1>7, <2>1, <3>1, <3>2, <3>3
  <2>2. ASSUME ~call.list
        PROVE  new.count = 0 /\ \A i \in X : i > a + Len(g)
    <3>1. new.count = 0
      BY <1>7, <2>2
    <3>2. ASSUME NEW i \in X, ~(i > a + Len(g))
          PROVE  FALSE
      <4>1. i > a /\ i \in Nat
        BY <1>7, <1>8, <2>2
      <4>2. i - a \in 1..Len(g) /\ a + (i - a) = i
        BY <1>1, <3>2, <4>1
      <4>3. i - a \in PlacesOf(X, a, Len(g))
        BY <4>2 DEF PlacesOf
      <4> QED BY <1>2, <2>2, <4>3
    <3> QED BY <3>1, <3>2
  <2>3. Len(EntriesUpto(Sectors(c))[(m + 1) * Width]) = a + Len(g)
    BY <1>1
  <2> QED BY <1>4, <2>1, <2>2, <2>3 DEF Swept, A, X
<1> QED BY <1>1, <1>6, <1>9 DEF Looking

LEMMA LookFound ==
  ASSUME FatInv, FatLookInv, pc = "scan", UNCHANGED <<vol, dbuf, data_cluster, trust>>, ~call.list,
         NEW e, e = EntriesIn(Visible(dbuf))[Least(HitsIn(EntriesIn(Visible(dbuf)), call.lfn, call.rest))],
         HitsIn(EntriesIn(Visible(dbuf)), call.lfn, call.rest) # {}, Found(e)
  PROVE  FatLookInv'
<1>1. vol \in DOMAIN VolumeOf /\ ~Ntfs /\ OnFatVolume(Volume) /\ call.path \in Seq(STRING) /\ CallTyped
  BY FatVolumeIs DEF FatInv, FatLookInv
<1> DEFINE rest == Tail(call.rest)
<1>2. ASSUME trust # "spoilt", Claimed(call)
      PROVE  trust = "clean" /\ \E n \in 0..Len(call.path) :
               /\ OnPath(call.path)[n + 1] = e /\ n + 1 \in 0..Len(call.path) /\ e \in Fitting /\ e.kind \in {"file", "dir", "dots"}
               /\ rest = SubSeq(call.path, (n + 1) + 1, Len(call.path)) /\ (rest = <<>> <=> n + 1 = Len(call.path))
               /\ call.count = 0 /\ (Fat32 \/ data_cluster = call.cached \/ dbuf[1] = <<data_cluster, 1>>)
  <2>1. trust = "clean" /\ \E n \in 0..Len(call.path), m \in Nat : Looking(call, pc, data_cluster, dbuf, n, m)
    BY <1>2 DEF FatLookInv, FatLook
  <2>2. PICK n \in 0..Len(call.path), m \in Nat : Looking(call, "scan", data_cluster, dbuf, n, m)
    BY <2>1
  <2>3. /\ n # Len(call.path) /\ n + 1 \in 0..Len(call.path) /\ OnPath(call.path)[n + 1] = e
        /\ e \in Fitting /\ e.kind \in {"file", "dir", "dots"} /\ call.count = 0
        /\ rest = SubSeq(call.path, (n + 1) + 1, Len(call.path)) /\ (rest = <<>> <=> n + 1 = Len(call.path))
    BY <1>1, <2>2, LookFinds
  <2>4. Fat32 \/ data_cluster = call.cached \/ dbuf[1] = <<data_cluster, 1>>
    BY <2>2, <2>3 DEF Looking, Apart
  <2> QED BY <2>1, <2>3, <2>4
<1>3. CASE rest # <<>> /\ e.kind # "dir"
  <2>1. pc' = "done" /\ result' = NoResult /\ call' = call
    BY <1>3 DEF Found, Finish
  <2>2. ASSUME trust # "spoilt", Claimed(call)
        PROVE  Expected(call.path) = NoResult
    <3>1. PICK n \in 0..Len(call.path) :
            OnPath(call.path)[n + 1] = e /\ n + 1 \in 0..Len(call.path) /\ (rest = <<>> <=> n + 1 = Len(call.path))
      BY <1>2, <2>2
    <3>2. Lookup(call.path).kind = "none"
      BY <1>1, <1>3, <3>1, NothingBehind
    <3> QED BY <3>2 DEF Expected
  <2> QED BY <1>1, <2>1, <2>2, LookDone DEF Answers
<1>4. CASE (rest # <<>> /\ e.kind = "dir") \/ (rest = <<>> /\ call.op = "list" /\ e.kind = "dir")
  <2>1. /\ pc' = "dir" /\ e.kind = "dir" /\ (rest = <<>> => call.op = "list")
        /\ \/ rest # <<>> /\ call' = [Scan(e.first) EXCEPT !.rest = rest]
           \/ rest = <<>> /\ call' = [Scan(e.first) EXCEPT !.rest = <<>>, !.list = TRUE]
    <3> HIDE DEF rest
    <3>1. IF rest # <<>> /\ e.kind # "dir" THEN TRUE
          ELSE IF rest # <<>> THEN pc' = "dir" /\ call' = [Scan(e.first) EXCEPT !.rest = rest]
          ELSE IF call.op = "list" /\ e.kind = "dir"
               THEN pc' = "dir" /\ call' = [Scan(e.first) EXCEPT !.rest = <<>>, !.list = TRUE] ELSE TRUE
      BY DEF Found, GoOn, rest
    <3> QED BY <1>4, <3>1
  <2> DEFINE new == call'
  <2>2. /\ new.path = call.path /\ new.rest = rest /\ new.list = (IF rest = <<>> THEN TRUE ELSE call.list)
        /\ new.dir = e.first /\ new.i = 0 /\ new.lfn = FALSE /\ new.count = call.count /\ new.op = call.op
        /\ new.cached = call.cached /\ new.tail = call.tail
    <3> HIDE DEF rest
    <3>1. CallTyped
      BY <1>1
    <3>2. CASE rest # <<>>
      <4>1. call' = [Scan(e.first) EXCEPT !.rest = rest]
        BY <2>1, <3>2
      <4> QED BY <3>1, <3>2, <4>1 DEF CallTyped, Scan
    <3>3. CASE rest = <<>>
      <4>1. call' = [Scan(e.first) EXCEPT !.rest = <<>>, !.list = TRUE]
        BY <2>1, <3>3
      <4> QED BY <3>1, <3>3, <4>1 DEF CallTyped, Scan
    <3> QED BY <3>2, <3>3
  <2> HIDE DEF new, rest
  <2>3. ASSUME trust # "spoilt", Claimed(call)
        PROVE  \E n \in 0..Len(call.path), m \in Nat : Looking(new, "dir", data_cluster, dbuf, n, m)
    <3>1. PICK n \in 0..Len(call.path) :
            /\ OnPath(call.path)[n + 1] = e /\ n + 1 \in 0..Len(call.path) /\ e \in Fitting
            /\ rest = SubSeq(call.path, (n + 1) + 1, Len(call.path)) /\ (rest = <<>> <=> n + 1 = Len(call.path))
            /\ call.count = 0 /\ (Fat32 \/ data_cluster = call.cached \/ dbuf[1] = <<data_cluster, 1>>)
      BY <1>2, <2>3 DEF rest
    <3>2. OnWay(new, n + 1)
      BY <2>1, <2>2, <3>1 DEF OnWay
    <3>3. e.first # 0
      BY <2>1, <3>1 DEF Fitting
    <3>4. Apart(new, n + 1, data_cluster, dbuf)
      BY <2>2, <3>1, <3>3 DEF Apart
    <3>5. Looking(new, "dir", data_cluster, dbuf, n + 1, 0)
      <4>1. StartsLook
        BY <1>1, AllStartsLook
      <4>2. new.path \in Seq(STRING) /\ n + 1 \in 0..Len(new.path) /\ new.dir = OnPath(new.path)[n + 1].first
            /\ new.count = 0
        BY <1>1, <2>2, <3>1
      <4> QED BY <2>2, <3>2, <3>4, <4>1, <4>2 DEF StartsLook
    <3> QED BY <3>1, <3>5
  <2>4. trust # "spoilt" /\ Claimed(call) =>
          trust = "clean" /\ \E n \in 0..Len(call.path), m \in Nat : Looking(call', pc', data_cluster', dbuf', n, m)
    BY <1>2, <2>1, <2>3 DEF new
  <2> QED BY <1>1, <2>1, <2>2, <2>4, LookGoesOn DEF new
<1>5. CASE rest = <<>> /\ ~(call.op = "list" /\ e.kind = "dir")
  <2>1. pc' = "done" /\ result' = (IF call.op = "list" THEN Count(1) ELSE Entry(e)) /\ call' = call
    BY <1>5 DEF Found, Finish
  <2>2. ASSUME trust # "spoilt", Claimed(call)
        PROVE  Expected(call.path) = IF call.op = "list" THEN Count(1) ELSE Entry(e)
    <3>1. Lookup(call.path) = e /\ e.kind \in {"file", "dir", "dots"}
      BY <1>2, <1>5, <2>2 DEF Lookup
    <3> QED BY <1>5, <3>1 DEF Expected
  <2> QED BY <1>1, <2>1, <2>2, LookDone DEF Answers
<1> QED BY <1>3, <1>4, <1>5

LEMMA LookScan ==
  ASSUME FatInv, FatLookInv, ScanBuffer
  PROVE  FatLookInv'
<1>1. vol \in DOMAIN VolumeOf /\ ~Ntfs /\ OnFatVolume(Volume) /\ call.path \in Seq(STRING) /\ CallTyped
  BY FatVolumeIs DEF FatInv, FatLookInv
<1> DEFINE g == EntriesIn(Visible(dbuf))
           hits == {n \in Shown(g) : ~call.list /\ Named(g[n], LfnBefore(g, call.lfn)[n], call.rest)}
<1>2. /\ pc = "scan" /\ UNCHANGED <<vol, dbuf, data_cluster, trust>>
      /\ hits # {} => Found(g[Least(hits)])
      /\ hits = {} =>
           /\ pc' = "next"
           /\ call' = [call EXCEPT !.lfn = LfnBefore(g, call.lfn)[Len(g) + 1],
                                   !.count = @ + IF call.list THEN Cardinality(Shown(g)) ELSE 0]
  BY DEF ScanBuffer, GoOn
<1>3. call.list => hits = {}
  OBVIOUS
<1>4. ~call.list => hits = HitsIn(g, call.lfn, call.rest)
  BY DEF HitsIn
<1> HIDE DEF hits
<1>5. CASE hits # {}
  BY <1>2, <1>3, <1>4, <1>5, LookFound
<1>6. CASE hits = {}
  <2> HIDE DEF g
  <2>1. /\ call'.path = call.path /\ call'.rest = call.rest /\ call'.list = call.list /\ call'.dir = call.dir
        /\ call'.i = call.i /\ call'.op = call.op /\ call'.cached = call.cached /\ call'.tail = call.tail
        /\ call'.lfn = LfnBefore(g, call.lfn)[Len(g) + 1]
        /\ call'.count = call.count + IF call.list THEN Cardinality(Shown(g)) ELSE 0
    BY <1>1, <1>2, <1>6 DEF CallTyped
  <2>2. ASSUME trust' # "spoilt", Claimed(call)
        PROVE  trust' = "clean" /\ \E n \in 0..Len(call.path), m \in Nat : Looking(call', pc', data_cluster', dbuf', n, m)
    <3>1. trust = "clean" /\ \E n \in 0..Len(call.path), m \in Nat : Looking(call, pc, data_cluster, dbuf, n, m)
      BY <1>2, <2>2 DEF FatLookInv, FatLook
    <3>2. PICK n \in 0..Len(call.path), m \in Nat : Looking(call, "scan", data_cluster, dbuf, n, m)
      BY <1>2, <3>1
    <3> DEFINE new == call'
    <3> HIDE DEF new
    <3>3. /\ new.path = call.path /\ new.rest = call.rest /\ new.list = call.list /\ new.dir = call.dir
          /\ new.i = call.i /\ new.op = call.op /\ new.cached = call.cached
          /\ new.lfn = LfnBefore(g, call.lfn)[Len(g) + 1]
          /\ new.count = call.count + IF call.list THEN Cardinality(Shown(g)) ELSE 0
      BY <2>1 DEF new
    <3>4. g = EntriesIn(Visible(dbuf)) /\ (~call.list => HitsIn(g, call.lfn, call.rest) = {})
      BY <1>4, <1>6 DEF g
    <3>5. Looking(new, "next", data_cluster, dbuf, n, m)
      BY <1>1, <1>2, <3>2, <3>3, <3>4, LookPasses
    <3> QED BY <1>2, <1>6, <3>1, <3>5 DEF new
  <2> QED BY <1>1, <1>2, <1>6, <2>1, <2>2, LookGoesOn
<1> QED BY <1>5, <1>6

\* The next group of sectors
LEMMA LookOn ==
  ASSUME NEW n, NEW m \in Nat, NEW cluster, NEW buffer, Looking(call, "next", cluster, buffer, n, m),
         NEW new, new.path = call.path, new.rest = call.rest, new.list = call.list, new.op = call.op,
         new.cached = call.cached, new.lfn = call.lfn, new.count = call.count, new.dir = 0 <=> call.dir = 0,
         InDir(new, OnPath(call.path)[n].first, m + 1)
  PROVE  Looking(new, "dir", cluster, buffer, n, m + 1)
<1> DEFINE c == OnPath(call.path)[n].first
<1>1. OnWay(call, n) /\ Apart(call, n, cluster, buffer) /\ Swept(call, c, (m + 1) * Width)
  BY DEF Looking
<1>2. OnWay(new, n) /\ Apart(new, n, cluster, buffer)
  BY <1>1 DEF OnWay, Apart
<1>3. Swept(new, c, (m + 1) * Width)
  BY <1>1 DEF Swept
<1> QED BY <1>1, <1>2, <1>3 DEF Looking

\* A scan that comes to an end gives what the path means; one that is cut off, nothing
\* or a part of it.
LEMMA LookEnds ==
  ASSUME OnFatVolume(Volume), call.path \in Seq(STRING), NEW n \in 0..Len(call.path), NEW m \in Nat,
         NEW cluster, NEW buffer, Looking(call, "next", cluster, buffer, n, m),
         NEW r, r = IF call.list THEN Count(call.count) ELSE NoResult
  PROVE  LET c == OnPath(call.path)[n].first
         IN  /\ (IF c = 0 THEN m + 1 = Volume.root ELSE m + 1 = Len(Chain(c))) => r = Expected(call.path)
             /\ Answers(r, "failed")
<1> DEFINE c == OnPath(call.path)[n].first
           A == EntriesIn(Sectors(c))
           k == (m + 1) * Width
<1>1. OnWay(call, n) /\ InDir(call, c, m) /\ Swept(call, c, k)
  BY DEF Looking
<1>2. ChainEnds(Volume.next, c) /\ (Fat32 => c # 0)
  BY <1>1, WayEnds DEF OnWay
<1>3. /\ k \in 0..Len(Sectors(c))
      /\ (IF c = 0 THEN m + 1 = Volume.root ELSE m + 1 = Len(Chain(c))) => k = Len(Sectors(c))
  <2> HIDE DEF c
  <2>1. Width \in Nat \ {0} /\ Len(Sectors(c)) \in Nat /\ k = m * Width + Width
    <3>1. Width \in Nat \ {0} /\ Len(Sectors(c)) \in Nat
      BY <1>2, SectorsAre
    <3> QED BY <3>1
  <2>2. CASE c = 0
    <3>1. Len(Sectors(c)) = Volume.root /\ m < Volume.root /\ Width = 1 /\ Volume.root \in Nat
      BY <1>1, <1>2, <2>2, SectorsAre DEF InDir, Width, OnFatVolume
    <3>2. k = m + 1
      BY <3>1
    <3> HIDE DEF k
    <3> QED BY <2>2, <3>1, <3>2
  <2>3. CASE c # 0
    <3>1. Len(Chain(c)) \in Nat /\ m < Len(Chain(c)) /\ Len(Sectors(c)) = Width * Len(Chain(c))
      BY <1>1, <1>2, <2>3, ChainIs, SectorsAre DEF InDir
    <3>2. m \in 0..(Len(Chain(c)) - 1)
      BY <3>1
    <3>3. m * Width + Width <= Len(Sectors(c))
      BY <1>2, <2>3, <3>2, SectorsAre
    <3>4. m + 1 = Len(Chain(c)) => Width * Len(Chain(c)) = k
      BY <2>1
    <3>5. k \in Nat
      BY <2>1
    <3> HIDE DEF k
    <3> QED BY <2>1, <2>3, <3>1, <3>3, <3>4, <3>5
  <2> QED BY <2>2, <2>3
<1> HIDE DEF k
<1>4. /\ call.list => call.count \in Nat /\ call.count <= Cardinality(Shown(A))
      /\ call.list /\ k = Len(Sectors(c)) => call.count = Cardinality(Shown(A))
      /\ ~call.list /\ k = Len(Sectors(c)) => Meant(A, call.rest) = {}
  BY <1>1, <1>2, <1>3, SweptIs
<1>5. CASE call.list
  <2>1. Expected(call.path) = Count(Cardinality(Shown(A)))
    BY <1>1, <1>5, ListingIs
  <2> HIDE DEF A
  <2>2. r = Count(call.count) /\ r.kind = "count" /\ r.n = call.count
        /\ Expected(call.path).n = Cardinality(Shown(A))
    BY <1>5, <2>1 DEF Count
  <2> QED BY <1>3, <1>4, <1>5, <2>1, <2>2 DEF Answers
<1>6. CASE ~call.list
  <2>1. r = NoResult /\ r.kind = "none"
    BY <1>6 DEF NoResult
  <2>2. k = Len(Sectors(c)) => Expected(call.path) = NoResult
    <3> SUFFICES ASSUME k = Len(Sectors(c)) PROVE Expected(call.path) = NoResult
      OBVIOUS
    <3>1. n # Len(call.path) /\ OnPath(call.path)[n].kind = "dir"
          /\ call.rest = SubSeq(call.path, n + 1, Len(call.path))
      BY <1>1, <1>6 DEF OnWay
    <3>2. Meant(A, SubSeq(call.path, n + 1, Len(call.path))) = {}
      BY <1>4, <1>6, <3>1
    <3>3. Lookup(call.path).kind = "none"
      BY <3>1, <3>2, LeadsNowhere
    <3> QED BY <3>3 DEF Expected
  <2> QED BY <1>3, <2>1, <2>2 DEF Answers
<1> QED BY <1>5, <1>6

LEMMA LookNextRoot ==
  ASSUME FatInv, FatLookInv, NextRootSector
  PROVE  FatLookInv'
<1>1. vol \in DOMAIN VolumeOf /\ ~Ntfs /\ OnFatVolume(Volume) /\ call.path \in Seq(STRING) /\ CallTyped
  BY FatVolumeIs DEF FatInv, FatLookInv
<1>2. pc = "next" /\ call.dir = 0 /\ UNCHANGED <<vol, dbuf, data_cluster, trust>>
  BY DEF NextRootSector, fatVars
<1>3. ASSUME trust # "spoilt", Claimed(call)
      PROVE  trust = "clean" /\ \E n \in 0..Len(call.path), m \in Nat :
               /\ Looking(call, "next", data_cluster, dbuf, n, m)
               /\ OnPath(call.path)[n].first = 0 /\ call.i = m /\ m < Volume.root
  <2>1. trust = "clean" /\ \E n \in 0..Len(call.path), m \in Nat : Looking(call, pc, data_cluster, dbuf, n, m)
    BY <1>3, <1>2 DEF FatLookInv, FatLook
  <2>2. PICK n \in 0..Len(call.path), m \in Nat : Looking(call, "next", data_cluster, dbuf, n, m)
    BY <1>2, <2>1
  <2> DEFINE c == OnPath(call.path)[n].first
  <2>3. InDir(call, c, m) /\ OnWay(call, n)
    BY <2>2 DEF Looking
  <2>4. ChainEnds(Volume.next, c)
    BY <1>1, <2>3, WayEnds DEF OnWay
  <2> HIDE DEF c
  <2>5. c = 0
    <3> SUFFICES ASSUME c # 0 PROVE FALSE
      OBVIOUS
    <3>1. m < Len(Chain(c)) /\ Chain(c)[m + 1] = 0
      BY <1>2, <2>3 DEF InDir
    <3>2. Len(Chain(c)) \in Nat /\ \A k \in 1..Len(Chain(c)) : Chain(c)[k] # 0
      BY <1>1, <2>4, ChainIs
    <3>3. m + 1 \in 1..Len(Chain(c))
      BY <3>1, <3>2
    <3> QED BY <3>1, <3>2, <3>3
  <2>6. call.i = m /\ m < Volume.root
    BY <2>3, <2>5 DEF InDir
  <2> QED BY <2>1, <2>2, <2>5, <2>6 DEF c
<1>4. CASE call.i + 1 = Volume.root
  <2>1. pc' = "done" /\ result' = (IF call.list THEN Count(call.count) ELSE NoResult) /\ call' = call
    BY <1>4 DEF NextRootSector, NotFound, Finish
  <2>2. ASSUME trust # "spoilt", Claimed(call)
        PROVE  result' = Expected(call.path)
    <3>1. PICK n \in 0..Len(call.path), m \in Nat :
            /\ Looking(call, "next", data_cluster, dbuf, n, m)
            /\ OnPath(call.path)[n].first = 0 /\ call.i = m /\ m < Volume.root
      BY <1>3, <2>2
    <3> QED BY <1>1, <1>4, <2>1, <3>1, LookEnds
  <2> QED BY <1>1, <1>2, <2>1, <2>2, LookDone DEF Answers
<1>5. CASE call.i + 1 # Volume.root
  <2>1. pc' = "dir" /\ call' = [call EXCEPT !.i = @ + 1]
    BY <1>5 DEF NextRootSector, GoOn
  <2> DEFINE new == call'
  <2>2. /\ new.path = call.path /\ new.rest = call.rest /\ new.list = call.list /\ new.dir = call.dir
        /\ new.i = call.i + 1 /\ new.op = call.op /\ new.cached = call.cached /\ new.tail = call.tail
        /\ new.lfn = call.lfn /\ new.count = call.count
    BY <1>1, <2>1 DEF CallTyped
  <2> HIDE DEF new
  <2>3. ASSUME trust # "spoilt", Claimed(call)
        PROVE  \E n \in 0..Len(call.path), m \in Nat : Looking(new, "dir", data_cluster, dbuf, n, m)
    <3>1. PICK n \in 0..Len(call.path), m \in Nat :
            /\ Looking(call, "next", data_cluster, dbuf, n, m)
            /\ OnPath(call.path)[n].first = 0 /\ call.i = m /\ m < Volume.root
      BY <1>3, <2>3
    <3>2. InDir(new, OnPath(call.path)[n].first, m + 1) /\ m + 1 \in Nat
      <4>1. Volume.root \in Nat
        BY <1>1 DEF OnFatVolume
      <4>2. m + 1 < Volume.root
        BY <1>5, <3>1, <4>1
      <4> QED BY <1>2, <2>2, <3>1, <4>2 DEF InDir
    <3>3. Looking(new, "dir", data_cluster, dbuf, n, m + 1)
      BY <2>2, <3>1, <3>2, LookOn
    <3> QED BY <3>2, <3>3
  <2>4. trust # "spoilt" /\ Claimed(call) =>
          trust = "clean" /\ \E n \in 0..Len(call.path), m \in Nat : Looking(call', pc', data_cluster', dbuf', n, m)
    BY <1>2, <1>3, <2>1, <2>3 DEF new
  <2> QED BY <1>1, <1>2, <2>1, <2>2, <2>4, LookGoesOn DEF new
<1> QED BY <1>4, <1>5

LEMMA LookNextDir ==
  ASSUME FatInv, FatLookInv, NextDirCluster
  PROVE  FatLookInv'
<1>1. vol \in DOMAIN VolumeOf /\ ~Ntfs /\ OnFatVolume(Volume) /\ call.path \in Seq(STRING) /\ CallTyped
  BY FatVolumeIs DEF FatInv, FatLookInv
<1>2. PICK d \in DOMAIN Volume.next :
        /\ NextCluster(call.dir, d)
        /\ IF d = 0 THEN NotFound /\ UNCHANGED call ELSE GoOn("dir") /\ call' = [call EXCEPT !.dir = d]
  BY DEF NextDirCluster
<1>3. pc = "next" /\ call.dir # 0 /\ UNCHANGED <<vol, dbuf, data_cluster>>
  BY DEF NextDirCluster
<1>4. ASSUME trust' # "spoilt", Claimed(call)
      PROVE  /\ trust' \in {"clean", "failed"} /\ (trust' = "failed" => d = 0)
             /\ \E n \in 0..Len(call.path), m \in Nat :
                  /\ Looking(call, "next", data_cluster, dbuf, n, m) /\ OnPath(call.path)[n].first # 0
                  /\ m + 1 <= Len(Chain(OnPath(call.path)[n].first))
                  /\ trust' = "clean" =>
                       d = IF m + 1 = Len(Chain(OnPath(call.path)[n].first)) THEN 0
                           ELSE Chain(OnPath(call.path)[n].first)[(m + 1) + 1]
  <2>1. trust # "spoilt"
    BY <1>2, <1>4 DEF NextCluster, Noticed, Unnoticed
  <2>2. trust = "clean" /\ \E n \in 0..Len(call.path), m \in Nat : Looking(call, pc, data_cluster, dbuf, n, m)
    BY <1>3, <1>4, <2>1 DEF FatLookInv, FatLook
  <2>3. PICK n \in 0..Len(call.path), m \in Nat : Looking(call, "next", data_cluster, dbuf, n, m)
    BY <1>3, <2>2
  <2> DEFINE c == OnPath(call.path)[n].first
  <2>4. InDir(call, c, m) /\ OnWay(call, n)
    BY <2>3 DEF Looking
  <2>5. ChainEnds(Volume.next, c)
    BY <1>1, <2>4, WayEnds DEF OnWay
  <2> HIDE DEF c
  <2>6. c # 0 /\ m < Len(Chain(c)) /\ call.dir = Chain(c)[m + 1]
    BY <1>3, <2>4 DEF InDir
  <2>7. Len(Chain(c)) \in Nat /\ \A k \in 1..Len(Chain(c)) :
          Chain(c)[k] \in DOMAIN Volume.next /\ Volume.next[Chain(c)[k]] = IF k = Len(Chain(c)) THEN 0 ELSE Chain(c)[k + 1]
    BY <1>1, <2>5, ChainIs
  <2>8. m + 1 \in 1..Len(Chain(c))
    BY <2>6, <2>7
  <2>9. call.dir \in DOMAIN Volume.next
        /\ Volume.next[call.dir] = IF m + 1 = Len(Chain(c)) THEN 0 ELSE Chain(c)[(m + 1) + 1]
    BY <2>6, <2>7, <2>8
  <2>10. /\ trust' = "clean" => d = Volume.next[call.dir]
         /\ trust' # "clean" => d = 0
    BY <1>1, <1>2, <1>4, <2>1, <2>2, <2>9, NextIs DEF FatInv
  <2>11. trust' \in {"clean", "failed"}
    BY <1>2, <1>4, <2>2 DEF NextCluster, Noticed, Unnoticed
  <2>12. m + 1 <= Len(Chain(c))
    BY <2>8
  <2>13. trust' = "clean" => d = IF m + 1 = Len(Chain(c)) THEN 0 ELSE Chain(c)[(m + 1) + 1]
    BY <2>9, <2>10
  <2>14. trust' = "failed" => d = 0
    BY <2>10
  <2> QED BY <2>3, <2>6, <2>11, <2>12, <2>13, <2>14 DEF c
<1>5. CASE d = 0
  <2>1. pc' = "done" /\ result' = (IF call.list THEN Count(call.count) ELSE NoResult) /\ call' = call
    BY <1>2, <1>5 DEF NotFound, Finish
  <2>2. ASSUME trust' # "spoilt", Claimed(call)
        PROVE  Answers(result', trust')
    <3>1. PICK n \in 0..Len(call.path), m \in Nat :
            /\ Looking(call, "next", data_cluster, dbuf, n, m) /\ OnPath(call.path)[n].first # 0
            /\ m + 1 <= Len(Chain(OnPath(call.path)[n].first))
            /\ trust' = "clean" =>
                 d = IF m + 1 = Len(Chain(OnPath(call.path)[n].first)) THEN 0
                     ELSE Chain(OnPath(call.path)[n].first)[(m + 1) + 1]
      BY <1>4, <2>2
    <3> DEFINE c == OnPath(call.path)[n].first
    <3>2. /\ m + 1 = Len(Chain(c)) => result' = Expected(call.path)
          /\ Answers(result', "failed")
      BY <1>1, <2>1, <3>1, LookEnds
    <3>3. CASE trust' = "failed"
      BY <3>2, <3>3
    <3>4. CASE trust' = "clean"
      <4>1. ChainEnds(Volume.next, c)
        BY <1>1, <3>1, WayEnds DEF OnWay, Looking
      <4> HIDE DEF c
      <4>2. Len(Chain(c)) \in Nat /\ \A k \in 1..Len(Chain(c)) : Chain(c)[k] # 0
        BY <1>1, <4>1, ChainIs
      <4>3. m + 1 = Len(Chain(c))
        <5> SUFFICES ASSUME m + 1 # Len(Chain(c)) PROVE FALSE
          OBVIOUS
        <5>1. Chain(c)[(m + 1) + 1] = 0
          BY <1>5, <3>1, <3>4 DEF c
        <5>2. (m + 1) + 1 \in 1..Len(Chain(c))
          BY <3>1, <4>2 DEF c
        <5> QED BY <4>2, <5>1, <5>2
      <4> QED BY <3>2, <4>3 DEF Answers
    <3> QED BY <1>4, <2>2, <3>3, <3>4
  <2> QED BY <1>1, <1>3, <2>1, <2>2, LookDone
<1>6. CASE d # 0
  <2>1. pc' = "dir" /\ call' = [call EXCEPT !.dir = d]
    BY <1>2, <1>6 DEF GoOn
  <2> DEFINE new == call'
  <2>2. /\ new.path = call.path /\ new.rest = call.rest /\ new.list = call.list /\ new.dir = d
        /\ new.i = call.i /\ new.op = call.op /\ new.cached = call.cached /\ new.tail = call.tail
        /\ new.lfn = call.lfn /\ new.count = call.count
    BY <1>1, <2>1 DEF CallTyped
  <2> HIDE DEF new
  <2>3. ASSUME trust' # "spoilt", Claimed(call)
        PROVE  trust' = "clean" /\ \E n \in 0..Len(call.path), m \in Nat : Looking(new, "dir", data_cluster, dbuf, n, m)
    <3>1. trust' = "clean"
      BY <1>4, <1>6, <2>3
    <3>2. PICK n \in 0..Len(call.path), m \in Nat :
            /\ Looking(call, "next", data_cluster, dbuf, n, m) /\ OnPath(call.path)[n].first # 0
            /\ m + 1 <= Len(Chain(OnPath(call.path)[n].first))
            /\ trust' = "clean" =>
                 d = IF m + 1 = Len(Chain(OnPath(call.path)[n].first)) THEN 0
                     ELSE Chain(OnPath(call.path)[n].first)[(m + 1) + 1]
      BY <1>4, <2>3
    <3> DEFINE c == OnPath(call.path)[n].first
    <3>3. ChainEnds(Volume.next, c)
      BY <1>1, <3>2, WayEnds DEF OnWay, Looking
    <3> HIDE DEF c
    <3>4. Len(Chain(c)) \in Nat
      BY <1>1, <3>3, ChainIs
    <3>5. m + 1 # Len(Chain(c)) /\ d = Chain(c)[(m + 1) + 1] /\ m + 1 <= Len(Chain(c))
      BY <1>6, <3>1, <3>2 DEF c
    <3>6. InDir(new, c, m + 1) /\ m + 1 \in Nat
      <4>1. m + 1 < Len(Chain(c)) /\ c # 0
        BY <3>2, <3>4, <3>5 DEF c
      <4> QED BY <2>2, <3>5, <4>1 DEF InDir
    <3>7. new.dir = 0 <=> call.dir = 0
      BY <1>3, <1>6, <2>2
    <3>8. Looking(new, "dir", data_cluster, dbuf, n, m + 1)
      BY <2>2, <3>2, <3>6, <3>7, LookOn DEF c
    <3> QED BY <3>1, <3>6, <3>8
  <2>4. trust' # "spoilt" /\ Claimed(call) =>
          trust' = "clean" /\ \E n \in 0..Len(call.path), m \in Nat : Looking(call', pc', data_cluster', dbuf', n, m)
    BY <1>3, <2>1, <2>3 DEF new
  <2> QED BY <1>1, <1>3, <2>1, <2>2, <2>4, LookGoesOn DEF new
<1> QED BY <1>5, <1>6

\* A lookup begins.
LEMMA LookBegins ==
  ASSUME FatInv, UNCHANGED vol, NEW path \in Seq(STRING), call'.path = path, call'.rest = path, call'.dir = RootCluster,
         call'.list <=> path = <<>>, path = <<>> => call'.op = "list", call'.i = 0, call'.lfn = FALSE, call'.count = 0,
         path = <<>> \/ data_cluster' = call'.cached, pc' = "dir", trust' # "spoilt" => trust' = "clean"
  PROVE  FatLookInv'
<1>1. vol \in DOMAIN VolumeOf /\ ~Ntfs /\ OnFatVolume(Volume)
  BY FatVolumeIs DEF FatInv
<1>2. vol' \in DOMAIN VolumeOf /\ ~Ntfs' /\ OnFatVolume(Volume)'
  BY <1>1 DEF Ntfs, Volume
<1>3. StartsLook'
  <2>1. (vol \in DOMAIN VolumeOf /\ ~Ntfs => StartsLook)'
    BY AllStartsLook, PTL
  <2> QED BY <1>2, <2>1
<1>4. (OnPath(path)[0])' = Start' /\ Start' = Start /\ RootCluster' = RootCluster
  <2>1. (vol \in DOMAIN VolumeOf /\ ~Ntfs => PathsLead)'
    BY AllPathsLead, PTL
  <2>2. PathsLead'
    BY <1>2, <2>1
  <2>3. RootCluster' = RootCluster
    BY SameDisk
  <2>4. Start' = Start
    BY <2>3 DEF Start
  <2> QED BY <2>2, <2>3, <2>4 DEF PathsLead
<1>5. Start.kind = "dir" /\ Start.first = RootCluster
  BY <1>1, StartIs
<1>6. path = SubSeq(path, 0 + 1, Len(path)) /\ (path = <<>> <=> 0 = Len(path)) /\ 0 \in 0..Len(path)
  <2>1. 0 \in 0..Len(path)
    OBVIOUS
  <2> QED BY <2>1, RestIs
<1>7. OnWay(call, 0)'
  BY <1>4, <1>5, <1>6 DEF OnWay
<1>8. Apart(call, 0, data_cluster, dbuf)'
  <2>1. Fat32' <=> Fat32
    BY SameDisk
  <2>2. ~Fat32 => RootCluster = 0
    BY DEF RootCluster
  <2> QED BY <1>6, <2>1, <2>2 DEF Apart
<1>9. Looking(call, "dir", data_cluster, dbuf, 0, 0)'
  <2>1. /\ (call.path \in Seq(STRING) /\ 0 \in 0..Len(call.path))' /\ OnWay(call, 0)'
        /\ Apart(call, 0, data_cluster, dbuf)' /\ (call.dir = OnPath(call.path)[0].first)'
        /\ (call.i = 0 /\ call.lfn = FALSE /\ call.count = 0)'
    BY <1>4, <1>5, <1>6, <1>7, <1>8
  <2> QED BY <1>3, <2>1 DEF StartsLook
<1>10. FatLook'
  BY <1>6, <1>9 DEF FatLook
<1> QED BY <1>10 DEF FatLookInv, FindRight

\* What is no lookup.
LEMMA LookRests ==
  ASSUME call'.path \in Seq(STRING), pc' \notin {"dir", "scan", "next"}, pc' = "done" => call'.op \notin Finding,
         pc' \in {"locate", "copy", "turn"} => call'.op = "read"
  PROVE  FatLookInv'
BY DEF FatLookInv, FatLook, FindRight, Finding

LEMMA EmptyPath == <<>> \in Seq(STRING) /\ NoCall.path = <<>>
BY DEF NoCall

LEMMA FatLookStep ==
  ASSUME FatInv, FatLookInv, [Next]_vars
  PROVE  FatLookInv'
<1>1. CallTyped /\ vol \in DOMAIN VolumeOf /\ ~Ntfs /\ call.path \in Seq(STRING)
  BY DEF FatInv, FatLookInv
<1>2. FatInv'
  BY FatStepKeeps
<1>5. ASSUME FileCall1
      PROVE  FatLookInv'
  <2>1. ASSUME NEW op \in {"stat", "open", "list"}, NEW path \in Paths, path = <<>> => op = "list", FatFind(op, path)
        PROVE  FatLookInv'
    <3>1. PICK tail : Starts([NoCall EXCEPT !.op = op, !.path = path, !.rest = path, !.dir = RootCluster,
                                !.tail = tail, !.list = (path = <<>>), !.cached = data_cluster], "dir")
      BY <2>1 DEF FatFind
    <3>2. /\ call'.path = path /\ call'.rest = path /\ call'.dir = RootCluster /\ (call'.list <=> path = <<>>)
          /\ call'.op = op /\ call'.i = 0 /\ call'.lfn = FALSE /\ call'.count = 0 /\ call'.cached = data_cluster
          /\ pc' = "dir" /\ UNCHANGED vol /\ (trust' # "spoilt" => trust' = "clean")
      BY <3>1 DEF Starts, NoCall
    <3>3. data_cluster' = data_cluster
      BY <2>1 DEF FatFind, fatVars
    <3>4. path \in Seq(STRING)
      BY VfsAssumption
    <3> QED BY <2>1, <3>2, <3>3, <3>4, LookBegins
  <2>2. ASSUME NEW n \in Sizes, Lseek(n)
        PROVE  FatLookInv'
    <3>1. pc = "idle" /\ UNCHANGED <<pc, call>>
      BY <2>2 DEF Lseek, callVars
    <3> QED BY <1>1, <3>1, LookRests
  <2>3. ASSUME NEW n \in Sizes, Read(n)
        PROVE  FatLookInv'
    <3>1. pc' = "locate" /\ call'.path = <<>> /\ call'.op = "read"
      BY <2>3 DEF Read, Starts, NoCall
    <3> QED BY <3>1, EmptyPath, LookRests
  <2> QED
    <3>1. \/ \E op \in {"stat", "open", "list"}, path \in Paths : (path = <<>> => op = "list") /\ FatFind(op, path)
          \/ \E n \in Sizes : Lseek(n) \/ Read(n)
      BY <1>1, <1>5, Zenon DEF FileCall1
    <3> QED BY <2>1, <2>2, <2>3, <3>1
<1>6. CASE Step
  <2>1. FatStep
    BY <1>1, <1>6 DEF Step
  <2>2. CASE Return /\ UNCHANGED fatVars
    <3>1. pc' = "idle" /\ call' = NoCall
      BY <2>2 DEF Return
    <3> QED BY <3>1, EmptyPath, LookRests
  <2>3. CASE Locate \/ Copy \/ Turn
    <3>1. pc \in {"locate", "copy", "turn"} /\ call.op = "read"
      BY <2>3 DEF Locate, Copy, Turn, FatLookInv
    <3>2. call'.op = "read" /\ call'.path = call.path /\ pc' \notin {"dir", "scan", "next"}
      BY <1>1, <2>3, <3>1 DEF Locate, Copy, Turn, GoOn, Finish, Break, CallTyped
    <3> QED BY <1>1, <3>2, LookRests DEF Finding
  <2> QED BY <2>1, <2>2, <2>3, LookReadRoot, LookReadDir, LookScan, LookNextRoot, LookNextDir DEF FatStep
<1>7. CASE UNCHANGED vars
  <2>1. UNCHANGED <<vol, pc, call, result, trust, dbuf, data_cluster>>
    BY <1>7 DEF vars, callVars, fatVars
  <2>2. CASE pc = "done"
    <3>1. trust' # "spoilt" /\ Claimed(call) /\ call.op \in Finding => Answers(result', trust')
      <4> SUFFICES ASSUME trust # "spoilt", Claimed(call), call.op \in Finding PROVE Answers(result, trust)
        BY <2>1
      <4> QED BY <2>2 DEF FatLookInv, FindRight, Claimed, Finding, AsExpected, Answers
    <3> QED BY <1>1, <2>1, <2>2, <3>1, LookDone
  <2>3. CASE pc \in {"locate", "copy", "turn"}
    BY <1>1, <2>1, <2>3, LookRests DEF FatLookInv
  <2>4. CASE pc \notin {"done", "locate", "copy", "turn"}
    <3>1. pc' \in {"dir", "scan", "next"} /\ trust' # "spoilt" /\ Claimed(call) =>
            trust' = "clean" /\ \E n \in 0..Len(call.path), m \in Nat : Looking(call', pc', data_cluster', dbuf', n, m)
      BY <2>1 DEF FatLookInv, FatLook
    <3> QED BY <1>1, <2>1, <2>4, <3>1, LookGoesOn
  <2> QED BY <2>2, <2>3, <2>4
<1> QED BY <1>5, <1>6, <1>7 DEF Next

LEMMA FatLookInit == Init => FatLookInv
<1> SUFFICES ASSUME Init PROVE FatLookInv
  OBVIOUS
<1>1. call = NoCall /\ pc = "idle"
  BY DEF Init, CallInit
<1> QED BY <1>1, EmptyPath DEF FatLookInv, FatLook, FindRight

-----------------------------------------------------------------------------
(* Looking up a path of NTFS                                               *)

\* The code can decode the runs of the table and of all index blocks.
IndexesDecodable ==
  \A v \in NtfsNames :
    /\ Decodable(VolumeOf[v].mft)
    /\ \A r \in DOMAIN VolumeOf[v].recs : Decodable(VolumeOf[v].recs[r].alloc)

BlocksOf(d) == Clusters(Volume.recs[d].alloc)

LEMMA TableIs ==
  ASSUME vol \in NtfsNames
  PROVE  /\ OnVolume(Volume.mft) /\ Volume.recs[0].good /\ Good(0)
         /\ \A r \in Recs : r < Len(Clusters(Volume.mft)) /\ Clusters(Volume.mft)[r + 1] # 0
         /\ \A r, i \in Recs : Clusters(Volume.mft)[i + 1] = Clusters(Volume.mft)[r + 1] => i = r
         /\ \A r \in Recs : OnVolume(Volume.recs[r].alloc) /\ \A i \in DOMAIN BlocksOf(r) : BlocksOf(r)[i] # 0
<1>1. OnNtfsVolume(Volume)
  BY NtfsVolumesAssumption DEF Volume
<1>2. OnVolume(Volume.mft) /\ Volume.recs[0].good
  BY <1>1 DEF OnNtfsVolume
<1>3. \A r \in Recs : r < Len(Clusters(Volume.mft)) /\ Clusters(Volume.mft)[r + 1] # 0
  BY <1>1 DEF OnNtfsVolume, Recs
<1>4. \A r, i \in Recs : Clusters(Volume.mft)[i + 1] = Clusters(Volume.mft)[r + 1] => i = r
  BY <1>1 DEF OnNtfsVolume, Recs
<1>5. \A r \in Recs : OnVolume(Volume.recs[r].alloc) /\ \A i \in DOMAIN BlocksOf(r) : BlocksOf(r)[i] # 0
  BY <1>1 DEF OnNtfsVolume, Recs, BlocksOf
<1>6. Good(0)
  BY <1>2 DEF Good, Nothing
<1> QED BY <1>2, <1>3, <1>4, <1>5, <1>6

\* The code finds each record where it lies.
LEMMA RecordFound ==
  ASSUME vol \in NtfsNames, IndexesDecodable, NEW r \in Recs
  PROVE  LcnOfRecord[vol][r] # 0 /\ FoundAt[vol][r] = r
<1> DEFINE C == Clusters(Volume.mft)
           lcn == LcnOfRecord[vol][r]
           places == {i \in Recs : C[i + 1] = lcn}
<1>1. lcn = SeekVcn(FreshRl, Volume.mft, r).lcn /\ Decodable(Volume.mft)
  BY DEF LcnOfRecord, Recs, Volume, IndexesDecodable
<1>2. FoundAt[vol][r] = IF places = {} THEN Nothing ELSE CHOOSE i \in places : TRUE
  BY DEF FoundAt, Recs, Volume
<1>3. OnVolume(Volume.mft) /\ r < Len(C) /\ C[r + 1] # 0 /\ \A i \in Recs : C[i + 1] = C[r + 1] => i = r
  BY TableIs
<1>4. r \in Nat /\ Len(C) \in Nat
  BY <1>3, NtfsVolumeIs, FileIs
<1> HIDE DEF C, lcn
<1>5. r \in 0..Len(C) /\ r # Len(C)
  BY <1>3, <1>4
<1>6. lcn = C[r + 1]
  BY <1>1, <1>3, <1>5, FreshIs, SeekIs DEF C
<1>7. places = {r}
  BY <1>3, <1>6
<1> HIDE DEF places
<1>8. (CHOOSE i \in places : TRUE) = r
  BY <1>7
<1> QED BY <1>2, <1>3, <1>6, <1>7, <1>8 DEF lcn

\* The entries of a directory are those of its index root and of its blocks.
LEMMA DirectoryIs ==
  ASSUME vol \in NtfsNames, NEW d \in Recs
  PROVE  LET n == Len(BlocksOf(d))
         IN  /\ n \in Nat /\ EntriesOf(d) \in [0..n -> Seq(Recs)] /\ EntriesOf(d)[0] = Volume.recs[d].index
             /\ \A k \in 1..n : EntriesOf(d)[k] = EntriesOf(d)[k - 1] \o IndexOf(BlocksOf(d)[k])
             /\ AllOf(d) = EntriesOf(d)[n] /\ AllOf(d) \in Seq(Recs)
<1> DEFINE S == Seq(Recs)
           b == BlocksOf(d)
           n == Len(b)
           base == Volume.recs[d].index
           Next1(x, k) == x \o IndexOf(b[k])
           Solves(f) == f = [k \in 0..n |-> IF k = 0 THEN base ELSE Next1(f[k - 1], k)]
           F == [x \in S \X Nat |-> Next1(x[1], x[2])]
<1>1. base \in S /\ \A c : IndexOf(c) \in S
  BY NtfsVolumeIs
<1>2. \A x \in S, k \in Nat : Next1(x, k) \in S
  BY <1>1, AppendedIs
<1>3. n \in Nat
  BY TableIs, FileIs DEF BlocksOf
<1> DEFINE g == EntriesOf(d)
<1>4. g = CHOOSE upto : Solves(upto)
  BY DEF EntriesOf, BlocksOf
<1> HIDE DEF S, base, g, Next1
<1>5. F \in [S \X Nat -> S]
  BY <1>2
<1>6. \A x \in S, k \in Nat : F[<<x, k>>] = Next1(x, k)
  OBVIOUS
<1>0. AllOf(d) = g[n]
  BY DEF AllOf, BlocksOf, g
<1> HIDE DEF F, n, b
<1>7. PICK f \in [0..n -> S] : f[0] = base /\ \A k \in 1..n : f[k] = F[<<f[k - 1], k>>]
  <2>1. \E f \in [0..n -> S] : Comes(f, n, base, F)
    BY <1>1, <1>3, <1>5, Recursion, Zenon
  <2> QED BY <2>1 DEF Comes
<1>8. \A k \in 1..n : k \in Nat /\ k - 1 \in 0..n /\ k \in 0..n /\ k # 0
  BY <1>3
<1>9. \A k \in 1..n : f[k] = Next1(f[k - 1], k)
  BY <1>6, <1>7, <1>8
<1>10. \A k \in 0..n : f[k] = IF k = 0 THEN base ELSE Next1(f[k - 1], k)
  <2>1. \A k \in 0..n : k # 0 => k \in 1..n
    BY <1>3
  <2> QED BY <1>7, <1>9, <2>1
<1>11. Solves(f)
  BY <1>7, <1>10
<1>12. Solves(g)
  BY <1>4, <1>11
<1>13. g[0] = base /\ \A k \in 1..n : g[k] = Next1(g[k - 1], k)
  <2>1. 0 \in 0..n /\ \A k \in 0..n : g[k] = IF k = 0 THEN base ELSE Next1(g[k - 1], k)
    BY <1>3, <1>12
  <2> QED BY <1>8, <2>1
<1>14. \A k \in 0..n : g[k] \in S
  <2> DEFINE T == {k \in 0..n : g[k] \in S}
  <2>1. 0 \in T
    BY <1>1, <1>3, <1>13
  <2>2. ASSUME NEW k \in 1..n, k - 1 \in T
        PROVE  k \in T
    <3>1. g[k - 1] \in S /\ k \in Nat /\ k \in 0..n
      BY <1>8, <2>2
    <3> QED BY <1>2, <1>13, <3>1
  <2> HIDE DEF T
  <2>3. 0..n \subseteq T
    BY <1>3, <2>1, <2>2, Reaches
  <2> QED BY <2>3 DEF T
<1>15. g = [k \in 0..n |-> IF k = 0 THEN base ELSE Next1(g[k - 1], k)]
  BY <1>12
<1> HIDE DEF Solves
<1>16. g \in [0..n -> S]
  BY <1>14, <1>15
<1>17. n \in 0..n
  BY <1>3
<1> QED BY <1>0, <1>3, <1>13, <1>14, <1>16, <1>17 DEF S, base, g, n, b, Next1

\* An index has those entries of its directory that come behind the ones before it.
LEMMA IndexIs ==
  ASSUME vol \in NtfsNames, NEW d \in Recs
  PROVE  LET A == AllOf(d)
             root == Volume.recs[d].index
             At1(m) == Len(EntriesOf(d)[m])
         IN  /\ Len(A) \in Nat /\ root \in Seq(Recs) /\ At1(0) = Len(root)
             /\ Continues(A, 0, root) /\ Len(root) <= Len(A)
             /\ \A m \in 0..(Len(BlocksOf(d)) - 1) :
                  LET g == IndexOf(BlocksOf(d)[m + 1])
                  IN  /\ At1(m) \in Nat /\ At1(m + 1) = At1(m) + Len(g) /\ At1(m) + Len(g) <= Len(A)
                      /\ Continues(A, At1(m), g)
<1> DEFINE E == Recs
           n == Len(BlocksOf(d))
           U == EntriesOf(d)
           G == [k \in 1..n |-> IndexOf(BlocksOf(d)[k])]
           A == AllOf(d)
<1>1. /\ n \in Nat /\ U \in [0..n -> Seq(E)] /\ U[0] = Volume.recs[d].index
      /\ \A k \in 1..n : U[k] = U[k - 1] \o IndexOf(BlocksOf(d)[k])
      /\ A = U[n] /\ A \in Seq(E)
  BY DirectoryIs
<1>2. \A b : IndexOf(b) \in Seq(E)
  BY NtfsVolumeIs
<1>3. \A k \in 1..n : G[k] \in Seq(E) /\ U[k] = U[k - 1] \o G[k]
  BY <1>1, <1>2
<1>0. \A k \in 1..n : G[k] = IndexOf(BlocksOf(d)[k])
  OBVIOUS
<1> HIDE DEF E, n, U, G, A
<1>4. \A k \in 0..n : U[k] \in Seq(E)
  BY <1>1
<1>5. \A i \in 0..n : \A k \in i..n : Begins(U[i], U[k])
  <2>1. n \in Nat
    BY <1>1
  <2>2. MadeOf(E, n, U, G)
    BY <1>3, <1>4 DEF MadeOf
  <2>3. AllBegin(n, U)
    BY <2>1, <2>2, PiecesAre
  <2> QED BY <2>3 DEF AllBegin
<1>6. \A i \in 0..n : Len(U[i]) <= Len(A) /\ \A x \in 1..Len(U[i]) : A[x] = U[i][x]
  <2>1. \A i \in 0..n : n \in i..n
    BY <1>1
  <2> QED BY <1>1, <1>5, <2>1 DEF Begins
<1>7. Continues(A, 0, U[0]) /\ Len(U[0]) <= Len(A)
  <2>1. 0 \in 0..n
    BY <1>1
  <2>2. Len(U[0]) <= Len(A) /\ \A x \in 1..Len(U[0]) : A[x] = U[0][x]
    BY <1>6, <2>1
  <2>3. \A x \in 1..Len(U[0]) : 0 + x = x
    OBVIOUS
  <2> QED BY <2>2, <2>3 DEF Continues
<1>8. ASSUME NEW m \in 0..(n - 1)
      PROVE  /\ Len(U[m]) \in Nat /\ Len(U[m + 1]) = Len(U[m]) + Len(G[m + 1])
             /\ Len(U[m]) + Len(G[m + 1]) <= Len(A) /\ Continues(A, Len(U[m]), G[m + 1])
  <2> DEFINE u == U[m]
             p == G[m + 1]
             w == U[m + 1]
  <2>1. m + 1 \in 1..n /\ (m + 1) - 1 = m /\ m \in 0..n /\ m + 1 \in 0..n
    BY <1>1
  <2>2. u \in Seq(E) /\ p \in Seq(E) /\ w = u \o p
    BY <1>3, <1>4, <2>1
  <2>3. Len(w) <= Len(A) /\ \A x \in 1..Len(w) : A[x] = w[x]
    BY <1>6, <2>1
  <2> HIDE DEF u, p, w
  <2>4. Len(w) = Len(u) + Len(p) /\ \A i \in 1..Len(p) : w[Len(u) + i] = p[i]
    BY <2>2, JoinedIs
  <2>5. Len(u) \in Nat /\ Len(p) \in Nat
    BY <2>2
  <2>6. \A i \in 1..Len(p) : Len(u) + i \in 1..Len(w)
    BY <2>4, <2>5
  <2>7. Continues(A, Len(u), p)
    BY <2>3, <2>4, <2>6 DEF Continues
  <2> QED BY <2>3, <2>4, <2>5, <2>7 DEF u, p, w
<1>9. \A m \in 0..(n - 1) : G[m + 1] = IndexOf(BlocksOf(d)[m + 1])
  <2>1. \A m \in 0..(n - 1) : m + 1 \in 1..n
    BY <1>1
  <2> QED BY <1>0, <2>1
<1>10. Volume.recs[d].index \in Seq(E) /\ Len(A) \in Nat
  BY <1>1, NtfsVolumeIs DEF E
<1> QED BY <1>1, <1>7, <1>8, <1>9, <1>10 DEF E, n, U, A

\* What an index shows
LEMMA ShownBehind ==
  ASSUME NEW A, NEW E, A \in Seq(E), NEW a \in Nat, NEW g \in Seq(E), Continues(A, a, g), a + Len(g) <= Len(A)
  PROVE  ShownIn(g) = PlacesOf(ShownIn(A), a, Len(g)) /\ ShownIn(A) \subseteq Nat
<1>1. DOMAIN A = 1..Len(A) /\ DOMAIN g = 1..Len(g) /\ Len(g) \in Nat /\ Len(A) \in Nat
  OBVIOUS
<1>2. \A x \in 1..Len(g) : a + x \in 1..Len(A)
  BY <1>1
<1> QED BY <1>1, <1>2 DEF ShownIn, PlacesOf, Continues

\* What a directory has under the names
Under(d, names) ==
  IF Strcasecmp(names) # 0 \/ ShownIn(AllOf(d)) = {} THEN Nothing ELSE AllOf(d)[Least(ShownIn(AllOf(d)))]

LEMMA UnderIs ==
  ASSUME vol \in NtfsNames, NEW d \in Recs, NEW names
  PROVE  Under(d, names) \in Recs \cup {Nothing} /\ ShownIn(AllOf(d)) \subseteq Nat
<1>1. AllOf(d) \in Seq(Recs)
  BY DirectoryIs
<1>2. ShownIn(AllOf(d)) \subseteq DOMAIN AllOf(d) /\ DOMAIN AllOf(d) \subseteq Nat
  BY <1>1 DEF ShownIn
<1>3. CASE ShownIn(AllOf(d)) = {}
  BY <1>2, <1>3 DEF Under
<1>4. CASE ShownIn(AllOf(d)) # {}
  <2>1. Least(ShownIn(AllOf(d))) \in DOMAIN AllOf(d)
    BY <1>2, <1>4, LeastIsLeast
  <2> QED BY <1>1, <1>2, <2>1 DEF Under
<1> QED BY <1>3, <1>4

\* The records that a path leads through, one from the other
LEMMA RecordsAre ==
  ASSUME vol \in NtfsNames, NEW path \in Seq(STRING)
  PROVE  /\ RecordsOn(path)[0] = RootRecord
         /\ \A k \in 0..Len(path) : RecordsOn(path)[k] \in Recs \cup {Nothing}
         /\ \A k \in 1..Len(path) :
              RecordsOn(path)[k] =
                IF ~Good(RecordsOn(path)[k - 1]) \/ ~Volume.recs[RecordsOn(path)[k - 1]].dir THEN Nothing
                ELSE Under(RecordsOn(path)[k - 1], SubSeq(path, k, Len(path)))
<1> DEFINE S == Recs \cup {Nothing}
           n == Len(path)
           Next1(x, k) == IF ~Good(x) \/ ~Volume.recs[x].dir THEN Nothing ELSE Under(x, SubSeq(path, k, n))
           Solves(f) == f = [k \in 0..n |-> IF k = 0 THEN RootRecord ELSE Next1(f[k - 1], k)]
           F == [x \in S \X Nat |-> Next1(x[1], x[2])]
<1>1. n \in Nat /\ RootRecord \in S
  BY NtfsVolumeIs
<1>2. \A x \in S, k \in Nat : Next1(x, k) \in S
  <2> SUFFICES ASSUME NEW x \in S, NEW k \in Nat PROVE Next1(x, k) \in S
    OBVIOUS
  <2>1. CASE Good(x) /\ Volume.recs[x].dir
    <3>1. x \in Recs
      BY <2>1 DEF Good
    <3> QED BY <2>1, <3>1, UnderIs
  <2>2. CASE ~(Good(x) /\ Volume.recs[x].dir)
    BY <2>2
  <2> QED BY <2>1, <2>2
<1> DEFINE g == RecordsOn(path)
<1>3. g = CHOOSE step : Solves(step)
  BY DEF RecordsOn, Under
<1> HIDE DEF S, Next1, n, g
<1>4. F \in [S \X Nat -> S]
  BY <1>2
<1>5. \A x \in S, k \in Nat : F[<<x, k>>] = Next1(x, k)
  OBVIOUS
<1> HIDE DEF F
<1>6. PICK f \in [0..n -> S] : f[0] = RootRecord /\ \A k \in 1..n : f[k] = F[<<f[k - 1], k>>]
  <2>1. \E f \in [0..n -> S] : Comes(f, n, RootRecord, F)
    BY <1>1, <1>4, Recursion, Zenon
  <2> QED BY <2>1 DEF Comes
<1>7. \A k \in 1..n : k \in Nat /\ k - 1 \in 0..n /\ k \in 0..n /\ k # 0
  BY <1>1
<1>8. \A k \in 1..n : f[k] = Next1(f[k - 1], k)
  BY <1>5, <1>6, <1>7
<1>9. \A k \in 0..n : f[k] = IF k = 0 THEN RootRecord ELSE Next1(f[k - 1], k)
  <2>1. \A k \in 0..n : k # 0 => k \in 1..n
    BY <1>1
  <2> QED BY <1>6, <1>8, <2>1
<1>10. Solves(f)
  BY <1>6, <1>9
<1>11. Solves(g)
  BY <1>3, <1>10
<1>12. g[0] = RootRecord /\ \A k \in 1..n : g[k] = Next1(g[k - 1], k)
  <2>1. 0 \in 0..n /\ \A k \in 0..n : g[k] = IF k = 0 THEN RootRecord ELSE Next1(g[k - 1], k)
    BY <1>1, <1>11
  <2> QED BY <1>7, <2>1
<1>13. \A k \in 0..n : g[k] \in S
  <2> DEFINE T == {k \in 0..n : g[k] \in S}
  <2>1. 0 \in T
    BY <1>1, <1>12
  <2>2. ASSUME NEW k \in 1..n, k - 1 \in T
        PROVE  k \in T
    BY <1>2, <1>7, <1>12, <2>2
  <2> HIDE DEF T
  <2>3. 0..n \subseteq T
    BY <1>1, <2>1, <2>2, Reaches
  <2> QED BY <2>3 DEF T
<1> QED BY <1>12, <1>13 DEF Next1, S, n, g

\* Behind what is no directory a path leads to nothing.
LEMMA NoRecordBehind ==
  ASSUME vol \in NtfsNames, NEW path \in Seq(STRING), NEW n \in 0..Len(path),
         LET r == RecordsOn(path)[n]
         IN  r = Nothing \/ (n # Len(path) /\ (~Good(r) \/ ~Volume.recs[r].dir))
  PROVE  RecordOf(path) = Nothing
<1> DEFINE l == Len(path)
           g == RecordsOn(path)
           stuck(r) == ~Good(r) \/ ~Volume.recs[r].dir
           T == {d \in Nat : n + d <= l /\ d # 0 => g[n + d] = Nothing}
<1>1. l \in Nat /\ n \in 0..l
  OBVIOUS
<1>2. \A k \in 1..l : stuck(g[k - 1]) => g[k] = Nothing
  BY RecordsAre
<1>3. stuck(Nothing) /\ (g[n] = Nothing \/ (n # l /\ stuck(g[n])))
  BY DEF Good
<1>4. RecordOf(path) = g[l]
  BY DEF RecordOf
<1> HIDE DEF l, g, stuck
<1>5. 0 \in T
  OBVIOUS
<1>6. ASSUME NEW d \in 1..(l - n), d - 1 \in T
      PROVE  d \in T
  <2>1. n + d \in 1..l /\ (n + d) - 1 = n + (d - 1) /\ n + (d - 1) <= l /\ d \in Nat
    BY <1>1
  <2>2. stuck(g[(n + d) - 1])
    <3>1. CASE d = 1
      <4>1. (n + d) - 1 = n
        BY <1>1, <3>1
      <4> QED BY <1>3, <4>1
    <3>2. CASE d # 1
      <4>1. d - 1 # 0
        BY <2>1, <3>2
      <4> QED BY <1>3, <1>6, <2>1, <4>1
    <3> QED BY <3>1, <3>2
  <2>3. g[n + d] = Nothing
    BY <1>2, <2>1, <2>2
  <2> QED BY <2>1, <2>3
<1>7. 0..(l - n) \subseteq T
  <2>1. l - n \in Nat
    BY <1>1
  <2> HIDE DEF T
  <2> QED BY <1>5, <1>6, <2>1, Reaches
<1>8. l - n \in T /\ n + (l - n) = l
  <2> HIDE DEF T
  <2> QED BY <1>1, <1>7
<1>9. CASE l - n = 0
  <2>1. n = l
    BY <1>1, <1>9
  <2> QED BY <1>3, <1>4, <2>1
<1>10. CASE l - n # 0
  <2>1. g[n + (l - n)] = Nothing
    BY <1>1, <1>8, <1>10
  <2> QED BY <1>4, <1>8, <2>1
<1> QED BY <1>9, <1>10

RecordsLead ==
  \A path \in Seq(STRING) :
    /\ RecordsOn(path)[0] = RootRecord
    /\ \A k \in 1..Len(path) :
         RecordsOn(path)[k] =
           IF ~Good(RecordsOn(path)[k - 1]) \/ ~Volume.recs[RecordsOn(path)[k - 1]].dir THEN Nothing
           ELSE Under(RecordsOn(path)[k - 1], SubSeq(path, k, Len(path)))

LEMMA AllRecordsLead == vol \in NtfsNames => RecordsLead
BY RecordsAre DEF RecordsLead

\* What is on the disk does not change, nor what a call means by its path.
LEMMA SameRecords ==
  ASSUME UNCHANGED vol, call'.tail = call.tail, vol \in NtfsNames
  PROVE  /\ Volume' = Volume /\ Recs' = Recs /\ (\A r : Good(r)' <=> Good(r))
         /\ \A d : EntriesOf(d)' = EntriesOf(d) /\ AllOf(d)' = AllOf(d) /\ BlocksOf(d)' = BlocksOf(d)
         /\ \A names : Strcasecmp(names)' = Strcasecmp(names)
         /\ \A path \in Seq(STRING) : \A k \in 0..Len(path) : (RecordsOn(path)[k])' = RecordsOn(path)[k]
<1>1. Volume' = Volume /\ Recs' = Recs
  BY DEF Volume, Recs
<1>2. \A r : Good(r)' <=> Good(r)
  BY <1>1 DEF Good
<1>3. ASSUME NEW d
      PROVE  EntriesOf(d)' = EntriesOf(d) /\ AllOf(d)' = AllOf(d) /\ BlocksOf(d)' = BlocksOf(d)
  <2>1. EntriesOf(d)' = EntriesOf(d)
    BY <1>1 DEF EntriesOf, IndexOf
  <2> QED BY <1>1, <2>1 DEF AllOf, BlocksOf
<1>4. \A names : Strcasecmp(names)' = Strcasecmp(names)
  BY DEF Strcasecmp
<1>5. \A d, names : Under(d, names)' = Under(d, names)
  BY <1>3, <1>4 DEF Under
<1>6. RecordsLead
  BY AllRecordsLead
<1>7. RecordsLead'
  <2>1. (vol \in NtfsNames => RecordsLead)'
    BY AllRecordsLead, PTL
  <2> QED BY <2>1
<1>8. ASSUME NEW path \in Seq(STRING)
      PROVE  \A k \in 0..Len(path) : (RecordsOn(path)[k])' = RecordsOn(path)[k]
  <2> DEFINE g == RecordsOn(path)
             n == Len(path)
             stuck(r) == ~Good(r) \/ ~Volume.recs[r].dir
             h(x, k) == Under(x, SubSeq(path, k, n))
             T == {k \in 0..n : (g[k])' = g[k]}
  <2>1. (\A x, k : h(x, k)' = h(x, k)) /\ \A r : stuck(r)' <=> stuck(r)
    BY <1>1, <1>2, <1>5
  <2>2. g[0] = RootRecord /\ \A k \in 1..n : g[k] = IF stuck(g[k - 1]) THEN Nothing ELSE h(g[k - 1], k)
    BY <1>6 DEF RecordsLead
  <2>3. (g[0])' = RootRecord' /\ \A k \in 1..n : (g[k])' = (IF stuck(g[k - 1]) THEN Nothing ELSE h(g[k - 1], k))'
    BY <1>7 DEF RecordsLead
  <2>4. RootRecord' = RootRecord /\ n \in Nat
    BY DEF RootRecord
  <2> HIDE DEF g, h, n, stuck
  <2>5. 0 \in T
    BY <2>2, <2>3, <2>4
  <2>6. ASSUME NEW k \in 1..n, k - 1 \in T
        PROVE  k \in T
    BY <2>1, <2>2, <2>3, <2>6
  <2> HIDE DEF T
  <2>7. 0..n \subseteq T
    BY <2>4, <2>5, <2>6, Reaches
  <2>8. \A k \in 0..n : (g[k])' = g[k]
    BY <2>7 DEF T
  <2> QED BY <2>8 DEF g, n
<1> QED BY <1>1, <1>2, <1>3, <1>4, <1>8

\* A lookup is at the record behind the first n names of its path.
OnTrack(cl, at, n) ==
  /\ cl.dir \in Recs /\ cl.dir = RecordsOn(cl.path)[n] /\ cl.rest = SubSeq(cl.path, n + 1, Len(cl.path))
  /\ IF at \in {"stat", "open"} THEN n = Len(cl.path) /\ cl.op = at
     ELSE (cl.list <=> n = Len(cl.path)) /\ (cl.list => cl.op = "list")

\* The index root and the first m blocks are behind it.
Passed(cl, m) ==
  LET a == Len(EntriesOf(cl.dir)[m])
  IN  /\ cl.list => cl.count = Cardinality({i \in ShownIn(AllOf(cl.dir)) : i <= a})
      /\ ~cl.list => cl.count = 0 /\ (Strcasecmp(cl.rest) # 0 \/ \A i \in ShownIn(AllOf(cl.dir)) : i > a)

\* A run list is reset, or where the first m clusters have been passed.
Stands(runs, rl, m) == (m = 0 /\ rl.next = 0) \/ At(runs, rl, m)

NtfsLooking(cl, at, rl, held, parsed, n, m) ==
  /\ OnTrack(cl, at, n)
  /\ at \in {"root", "blocks"} => held = cl.dir
  /\ at = "blocks" => /\ parsed = cl.dir /\ Good(cl.dir) /\ Volume.recs[cl.dir].dir
                      /\ m <= Len(BlocksOf(cl.dir)) /\ Stands(Volume.recs[cl.dir].alloc, rl, m) /\ Passed(cl, m)

NtfsLooks == {"record", "root", "blocks", "stat", "open"}

NtfsLook ==
  pc \in NtfsLooks /\ trust # "spoilt" =>
    trust = "clean" /\ \E n \in 0..Len(call.path), m \in Nat : NtfsLooking(call, pc, alloc_rl, mbuf_index, attrs, n, m)

\* Until a read fails, the buffer holds the record that it is taken for, and the
\* attribute pointers were set for one that is good.
Trusty == RlTyped(alloc_rl) /\ (trust = "clean" => mbuf = mbuf_index /\ Good(attrs))

NtfsAnswers(r, t) == r = NtfsExpected(call.op, call.path) \/ (t = "failed" /\ r.kind = "none")

NtfsLookInv ==
  /\ call.path \in Seq(STRING) /\ fails \in Nat /\ Trusty /\ NtfsLook /\ NtfsFindRight
  /\ pc \in {"data", "copy blocks"} => call.op = "read"

LEMMA NtfsLookingSame ==
  ASSUME UNCHANGED vol, call'.tail = call.tail, vol \in NtfsNames,
         NEW cl, cl.path \in Seq(STRING), NEW at, NEW rl, NEW held, NEW parsed, NEW n \in 0..Len(cl.path), NEW m,
         NtfsLooking(cl, at, rl, held, parsed, n, m)
  PROVE  NtfsLooking(cl, at, rl, held, parsed, n, m)'
<1>1. /\ Volume' = Volume /\ Recs' = Recs /\ (\A r : Good(r)' <=> Good(r))
      /\ \A d : EntriesOf(d)' = EntriesOf(d) /\ AllOf(d)' = AllOf(d) /\ BlocksOf(d)' = BlocksOf(d)
      /\ \A names : Strcasecmp(names)' = Strcasecmp(names)
  BY SameRecords
<1>2. (RecordsOn(cl.path)[n])' = RecordsOn(cl.path)[n]
  BY SameRecords
<1>3. OnTrack(cl, at, n)' <=> OnTrack(cl, at, n)
  BY <1>1, <1>2 DEF OnTrack
<1>4. Passed(cl, m)' <=> Passed(cl, m)
  BY <1>1 DEF Passed, ShownIn
<1> QED BY <1>1, <1>3, <1>4 DEF NtfsLooking

\* A lookup is done.
LEMMA NtfsLookDone ==
  ASSUME UNCHANGED <<vol, call>>, vol \in NtfsNames, NtfsLookInv, pc' = "done", fails' \in Nat, Trusty',
         trust' # "spoilt" /\ call.op \in Finding => NtfsAnswers(result', trust')
  PROVE  NtfsLookInv'
<1>1. call.path \in Seq(STRING)
  BY DEF NtfsLookInv
<1>2. NtfsExpected(call.op, call.path)' = NtfsExpected(call.op, call.path)
  <2>1. /\ Volume' = Volume /\ (\A r : Good(r)' <=> Good(r)) /\ \A d : AllOf(d)' = AllOf(d)
    BY SameRecords
  <2>2. RecordOf(call.path)' = RecordOf(call.path)
    <3>1. Len(call.path) \in 0..Len(call.path)
      BY <1>1
    <3> QED BY <1>1, <3>1, SameRecords DEF RecordOf
  <2> QED BY <2>1, <2>2 DEF NtfsExpected, ShownIn
<1>3. NtfsFindRight'
  BY <1>2 DEF NtfsFindRight, NtfsAnswers, Finding
<1>4. NtfsLook'
  BY DEF NtfsLook, NtfsLooks
<1> QED BY <1>1, <1>3, <1>4 DEF NtfsLookInv

\* A lookup goes on.
LEMMA NtfsLookGoesOn ==
  ASSUME UNCHANGED vol, call'.tail = call.tail, call'.path = call.path,
         vol \in NtfsNames, NtfsLookInv, pc' \notin {"done", "data", "copy blocks"}, fails' \in Nat, Trusty',
         pc' \in NtfsLooks /\ trust' # "spoilt" =>
           trust' = "clean" /\ \E n \in 0..Len(call.path), m \in Nat :
             NtfsLooking(call', pc', alloc_rl', mbuf_index', attrs', n, m)
  PROVE  NtfsLookInv'
<1>1. call.path \in Seq(STRING) /\ call'.path \in Seq(STRING)
  BY DEF NtfsLookInv
<1>2. NtfsFindRight'
  BY DEF NtfsFindRight
<1>3. NtfsLook'
  <2> SUFFICES ASSUME pc' \in NtfsLooks, trust' # "spoilt"
               PROVE  trust' = "clean" /\ \E n \in 0..Len(call'.path), m \in Nat :
                        NtfsLooking(call, pc, alloc_rl, mbuf_index, attrs, n, m)'
    BY DEF NtfsLook, NtfsLooks
  <2>1. PICK n \in 0..Len(call.path), m \in Nat : NtfsLooking(call', pc', alloc_rl', mbuf_index', attrs', n, m)
    OBVIOUS
  <2>2. NtfsLooking(call, pc, alloc_rl, mbuf_index, attrs, n, m)'
    BY <1>1, <2>1, NtfsLookingSame
  <2> QED BY <2>1, <2>2
<1> QED BY <1>1, <1>2, <1>3 DEF NtfsLookInv

\* What is no lookup
LEMMA NtfsLookRests ==
  ASSUME call'.path \in Seq(STRING), pc' \notin NtfsLooks, pc' = "done" => call'.op \notin Finding,
         pc' \in {"data", "copy blocks"} => call'.op = "read", fails' \in Nat, Trusty'
  PROVE  NtfsLookInv'
BY DEF NtfsLookInv, NtfsLook, NtfsFindRight, Finding

\* A record is read, or that fails.
LEMMA RecordRead ==
  ASSUME UNCHANGED vol, vol \in NtfsNames, IndexesDecodable, fails \in Nat, Trusty, attrs \in Recs,
         NEW index \in Recs, NEW got \in Gots, ReadRecord(index, got), TrustAfter(got)
  PROVE  /\ fails' \in Nat /\ Trusty' /\ (trust' # "spoilt" => trust # "spoilt")
         /\ trust = "clean" /\ trust' # "spoilt" =>
              /\ got # "positive" /\ trust' \in {"clean", "failed"} /\ (got = "ok" => trust' = "clean")
              /\ trust' = "clean" => mbuf_index' = index /\ (got = "negative" => ~Good(index))
<1>1. LcnOfRecord[vol][index] # 0 /\ FoundAt[vol][index] = index
  BY RecordFound
<1>2. Volume' = Volume /\ \A r : Good(r)' <=> Good(r)
  BY DEF Volume, Good
<1>3. trust' # "spoilt" => trust # "spoilt"
  BY DEF TrustAfter, Gots, Noticed, Unnoticed
<1>4. RlTyped(FreshRl) /\ index # Nothing
  <2>1. Recs \subseteq Nat
    BY NtfsVolumeIs
  <2> QED BY <2>1 DEF RlTyped, FreshRl, Nothing
<1>5. CASE mbuf_index = index
  <2>1. got = "ok" /\ UNCHANGED <<mbuf, mbuf_index, attrs, alloc_rl, fails>>
    BY <1>5 DEF ReadRecord, recordVars
  <2>2. trust' = trust
    BY <2>1 DEF TrustAfter
  <2> QED BY <1>2, <1>3, <1>5, <2>1, <2>2 DEF Trusty
<1>6. CASE /\ mbuf' = index /\ mbuf_index' = index /\ UNCHANGED fails
           /\ IF Good(index) THEN got = "ok" /\ Parsed ELSE got = "negative" /\ UNCHANGED <<attrs, data_rl, alloc_rl>>
  <2>1. trust' = trust
    BY <1>6 DEF TrustAfter
  <2>2. Trusty'
    <3>1. CASE Good(index)
      BY <1>2, <1>4, <1>6, <2>1, <3>1 DEF Trusty, Parsed
    <3>2. CASE ~Good(index)
      BY <1>2, <1>6, <2>1, <3>2 DEF Trusty
    <3> QED BY <3>1, <3>2
  <2> QED BY <1>3, <1>6, <2>1, <2>2
<1>7. CASE got # "ok" /\ Fail /\ UNCHANGED <<mbuf_index, attrs, data_rl, alloc_rl>>
  <2>1. fails' \in Nat /\ fails' # fails
    BY <1>7 DEF Fail
  <2>2. got = "positive" => trust' = "spoilt"
    BY DEF TrustAfter, Unnoticed
  <2>3. got # "positive" => trust' = IF trust = "clean" THEN "failed" ELSE trust
    BY <1>7, <2>1 DEF TrustAfter, Gots, Noticed
  <2>4. trust' # "clean" /\ (trust = "clean" /\ trust' # "spoilt" => got # "positive" /\ trust' = "failed")
    BY <2>2, <2>3
  <2> QED BY <1>3, <1>7, <2>1, <2>4 DEF Trusty
<1> QED
  <2> DEFINE new == FoundAt[vol][index]
  <2>1. CASE mbuf_index # index
    <3>1. \/ /\ mbuf' = new /\ mbuf_index' = index /\ UNCHANGED fails
             /\ IF Good(new) THEN got = "ok" /\ Parsed ELSE got = "negative" /\ UNCHANGED <<attrs, data_rl, alloc_rl>>
          \/ got # "ok" /\ Fail /\ UNCHANGED <<mbuf_index, attrs, data_rl, alloc_rl>>
      BY <1>1, <2>1, Zenon DEF ReadRecord
    <3> QED BY <1>1, <1>6, <1>7, <3>1
  <2> QED BY <1>5, <2>1

\* The run list of a directory leads through its blocks.
LEMMA BlockIs ==
  ASSUME NEW runs, OnVolume(runs), Decodable(runs), NEW rl, NEW m \in 0..Len(Clusters(runs)), Stands(runs, rl, m)
  PROVE  /\ m # Len(Clusters(runs)) => /\ Stands(runs, NextLcn(rl, runs).rl, m + 1)
                                       /\ NextLcn(rl, runs).lcn = Clusters(runs)[m + 1]
         /\ m = Len(Clusters(runs)) => NextLcn(rl, runs).lcn = 0
<1>1. CASE At(runs, rl, m)
  BY <1>1, OneStep DEF Stands
<1>2. CASE m = 0 /\ rl.next = 0
  <2>1. Len(Clusters(runs)) \in Nat /\ Len(runs) \in Nat
    BY FileIs, VolumeIs
  <2>2. At(runs, FreshRl, 0) /\ FreshRl.next = 0
    BY DEF At, FreshRl
  <2>3. /\ 0 # Len(Clusters(runs)) => /\ At(runs, NextLcn(FreshRl, runs).rl, 0 + 1)
                                      /\ NextLcn(FreshRl, runs).lcn = Clusters(runs)[0 + 1]
        /\ 0 = Len(Clusters(runs)) => NextLcn(FreshRl, runs).lcn = 0
    <3>1. 0 \in 0..Len(Clusters(runs))
      BY <2>1
    <3> QED BY <2>2, <3>1, OneStep
  <2>4. CASE Len(runs) # 0
    <3>1. NextLcn(rl, runs) = NextLcn(FreshRl, runs)
      <4>1. NextRun(rl, runs) = NextRun(FreshRl, runs)
        BY <1>2, <2>2 DEF NextRun
      <4> QED BY <1>2, <2>2, <2>4, <4>1 DEF NextLcn
    <3> QED BY <1>2, <2>3, <3>1 DEF Stands
  <2>5. CASE Len(runs) = 0
    <3>1. Len(Clusters(runs)) = 0
      BY <2>5, FileIs
    <3>2. NextLcn(rl, runs).lcn = 0
      BY <1>2, <2>5 DEF NextLcn
    <3> QED BY <1>2, <3>1, <3>2
  <2> QED BY <2>4, <2>5
<1> QED BY <1>1, <1>2 DEF Stands

LEMMA NextRlTyped ==
  ASSUME NEW rl, RlTyped(rl), NEW runs
  PROVE  RlTyped(NextLcn(rl, runs).rl)
<1>1. RlTyped([rl EXCEPT !.at = @ + 1]) /\ RlTyped(NoRun(rl)) /\ RlTyped(NextRun(rl, runs))
  BY DEF RlTyped, NoRun, NextRun
<1> QED BY <1>1 DEF NextLcn

\* The step from a directory on a path to what is under it
LEMMA TrackGoesOn ==
  ASSUME vol \in NtfsNames, call.path \in Seq(STRING), NEW n \in 0..Len(call.path), n # Len(call.path),
         OnTrack(call, "record", n), Good(call.dir), Volume.recs[call.dir].dir
  PROVE  n + 1 \in 0..Len(call.path) /\ RecordsOn(call.path)[n + 1] = Under(call.dir, call.rest)
<1> DEFINE g == RecordsOn(call.path)
<1>1. n + 1 \in 1..Len(call.path) /\ n + 1 \in 0..Len(call.path) /\ (n + 1) - 1 = n
  OBVIOUS
<1>2. call.dir = g[n] /\ call.rest = SubSeq(call.path, n + 1, Len(call.path))
  BY DEF OnTrack
<1>3. \A k \in 1..Len(call.path) :
        g[k] = IF ~Good(g[k - 1]) \/ ~Volume.recs[g[k - 1]].dir THEN Nothing
               ELSE Under(g[k - 1], SubSeq(call.path, k, Len(call.path)))
  BY RecordsAre
<1> HIDE DEF g
<1>4. g[n + 1] = IF ~Good(g[n]) \/ ~Volume.recs[g[n]].dir THEN Nothing
                 ELSE Under(g[n], SubSeq(call.path, n + 1, Len(call.path)))
  BY <1>1, <1>3
<1>5. g[n + 1] = Under(call.dir, call.rest)
  BY <1>2, <1>4
<1> QED BY <1>1, <1>5 DEF g

\* What is found, if anything is, is what the path leads to;
LEMMA FoundIs ==
  ASSUME vol \in NtfsNames, CallTyped, call.path \in Seq(STRING), call.op \in Finding,
         NEW n \in 0..Len(call.path), OnTrack(call, "record", n), Good(call.dir), Volume.recs[call.dir].dir,
         NEW index \in Seq(Recs), NEW a \in Nat, Continues(AllOf(call.dir), a, index),
         a + Len(index) <= Len(AllOf(call.dir)),
         ~call.list => Strcasecmp(call.rest) # 0 \/ \A i \in ShownIn(AllOf(call.dir)) : i > a,
         Hits(index) # {}, NtfsFound(index[Least(Hits(index))]), UNCHANGED vol
  PROVE  /\ call'.tail = call.tail /\ call'.path = call.path /\ pc' \in {"record", "stat", "open"}
         /\ n + 1 \in 0..Len(call.path) /\ OnTrack(call', pc', n + 1)
<1> DEFINE A == AllOf(call.dir)
           X == ShownIn(A)
           l == Len(index)
           fd == index[Least(Hits(index))]
           rest == Tail(call.rest)
<1>0. l \in Nat
  OBVIOUS
<1>1. A \in Seq(Recs) /\ call.dir \in Recs
  BY DirectoryIs DEF OnTrack
<1>2. ~call.list /\ Strcasecmp(call.rest) = 0 /\ Hits(index) = ShownIn(index)
  BY DEF Hits
<1>3. ShownIn(index) = PlacesOf(X, a, l) /\ X \subseteq Nat
  BY <1>1, ShownBehind
<1>4. \A i \in X : i > a
  BY <1>2
<1> HIDE DEF X, l
<1>5. /\ Least(PlacesOf(X, a, l)) \in PlacesOf(X, a, l) /\ Least(X) = a + Least(PlacesOf(X, a, l)) /\ X # {}
  BY <1>0, <1>2, <1>3, <1>4, FirstBehind
<1>6. Least(Hits(index)) \in 1..l /\ Least(X) = a + Least(Hits(index))
  BY <1>2, <1>3, <1>5 DEF PlacesOf
<1>7. fd = A[Least(X)] /\ fd \in Recs
  <2>1. A[a + Least(Hits(index))] = fd
    BY <1>6 DEF Continues, l
  <2> QED BY <1>6, <2>1 DEF l
<1>8. fd = Under(call.dir, call.rest)
  BY <1>2, <1>5, <1>7 DEF Under, X
<1>9. n # Len(call.path) /\ call.rest = SubSeq(call.path, n + 1, Len(call.path))
  BY <1>2 DEF OnTrack
<1>10. n + 1 \in 0..Len(call.path) /\ RecordsOn(call.path)[n + 1] = fd
  BY <1>8, <1>9, TrackGoesOn
<1>11. rest = SubSeq(call.path, (n + 1) + 1, Len(call.path)) /\ (rest = <<>> <=> n + 1 = Len(call.path))
  <2>1. rest = SubSeq(call.path, (n + 1) + 1, Len(call.path))
    <3>1. n # Len(call.path) /\ IsLeft(call.rest, call.path, n)
      BY <1>9 DEF IsLeft
    <3>2. IsLeft(Tail(call.rest), call.path, n + 1)
      BY <3>1, TailIs
    <3> QED BY <3>2 DEF IsLeft
  <2>2. SubSeq(call.path, (n + 1) + 1, Len(call.path)) = <<>> <=> n + 1 = Len(call.path)
    BY <1>10, RestIs
  <2> QED BY <2>1, <2>2
<1>12. /\ call' = [call EXCEPT !.rest = rest, !.dir = fd, !.list = (rest = <<>> /\ call.op = "list")]
       /\ pc' = IF rest # <<>> \/ call.op = "list" THEN "record" ELSE call.op
  BY DEF NtfsFound, GoOn
<1> HIDE DEF fd, rest
<1>13. /\ call'.tail = call.tail /\ call'.path = call.path /\ call'.op = call.op
       /\ call'.dir = fd /\ call'.rest = rest /\ (call'.list <=> rest = <<>> /\ call.op = "list")
  BY <1>12 DEF CallTyped
<1>14. OnTrack(call', pc', n + 1)
  <2> DEFINE new == call'
             at == pc'
  <2>1. CASE rest # <<>> \/ call.op = "list"
    <3>1. at = "record"
      BY <1>12, <2>1
    <3> QED BY <1>7, <1>10, <1>11, <1>13, <2>1, <3>1 DEF OnTrack
  <2>2. CASE ~(rest # <<>> \/ call.op = "list")
    <3>1. at = call.op /\ at \in {"stat", "open"}
      BY <1>12, <2>2 DEF Finding
    <3> QED BY <1>7, <1>10, <1>11, <1>13, <2>2, <3>1 DEF OnTrack
  <2> QED BY <2>1, <2>2
<1>15. pc' \in {"record", "stat", "open"}
  BY <1>12 DEF Finding
<1> QED BY <1>10, <1>13, <1>14, <1>15

\* and otherwise more of the directory is behind the search.
LEMMA PassedIs ==
  ASSUME vol \in NtfsNames, CallTyped, call.dir \in Recs,
         NEW index \in Seq(Recs), NEW a \in Nat, Continues(AllOf(call.dir), a, index),
         a + Len(index) <= Len(AllOf(call.dir)),
         ~call.list => Strcasecmp(call.rest) # 0 \/ \A i \in ShownIn(AllOf(call.dir)) : i > a,
         NEW count, ~call.list => count = 0,
         call.list => count = Cardinality({i \in ShownIn(AllOf(call.dir)) : i <= a}) + Cardinality(ShownIn(index)),
         Hits(index) = {}, NEW m, Len(EntriesOf(call.dir)[m]) = a + Len(index)
  PROVE  Passed([call EXCEPT !.count = count], m)
<1> DEFINE A == AllOf(call.dir)
           X == ShownIn(A)
           l == Len(index)
           new == [call EXCEPT !.count = count]
<1>0. l \in Nat
  OBVIOUS
<1>1. A \in Seq(Recs)
  BY DirectoryIs
<1>2. ShownIn(index) = PlacesOf(X, a, l) /\ X \subseteq Nat
  BY <1>1, ShownBehind
<1>3. new.dir = call.dir /\ new.list = call.list /\ new.rest = call.rest /\ new.count = count
  BY DEF CallTyped
<1>4. call.list => count = Cardinality({i \in X : i <= a + l})
  <2> HIDE DEF X, l
  <2>1. Cardinality({i \in X : i <= a + l}) = Cardinality({i \in X : i <= a}) + Cardinality(PlacesOf(X, a, l))
    BY <1>0, <1>2, CountBehind
  <2> QED BY <1>2, <2>1 DEF X
<1>5. ~call.list => Strcasecmp(call.rest) # 0 \/ \A i \in X : i > a + l
  <2> SUFFICES ASSUME ~call.list, Strcasecmp(call.rest) = 0, NEW i \in X PROVE i > a + l
    OBVIOUS
  <2>1. PlacesOf(X, a, l) = {}
    BY <1>2 DEF Hits
  <2>2. i > a /\ i \in Nat
    BY <1>2
  <2> HIDE DEF X, l
  <2>3. ASSUME i <= a + l
        PROVE  FALSE
    <3>1. i - a \in 1..l /\ a + (i - a) = i
      BY <1>0, <2>2, <2>3
    <3>2. i - a \in PlacesOf(X, a, l)
      BY <3>1 DEF PlacesOf
    <3> QED BY <2>1, <3>2
  <2> QED BY <1>0, <2>2, <2>3
<1> HIDE DEF new
<1> QED BY <1>3, <1>4, <1>5 DEF Passed, X, A, l, new

\* A search through a whole directory has the answer.
LEMMA SearchEnds ==
  ASSUME vol \in NtfsNames, call.path \in Seq(STRING), call.op \in Finding,
         NEW n \in 0..Len(call.path), OnTrack(call, "record", n), Good(call.dir), Volume.recs[call.dir].dir,
         Passed(call, Len(BlocksOf(call.dir)))
  PROVE  NtfsExpected(call.op, call.path) = IF call.list THEN Count(call.count) ELSE NoResult
<1> DEFINE A == AllOf(call.dir)
           X == ShownIn(A)
<1>1. A \in Seq(Recs) /\ call.dir \in Recs /\ A = EntriesOf(call.dir)[Len(BlocksOf(call.dir))]
  BY DirectoryIs DEF OnTrack
<1>2. X \subseteq DOMAIN A /\ DOMAIN A = 1..Len(A) /\ Len(A) \in Nat
  BY <1>1 DEF ShownIn
<1>3. /\ call.list => call.count = Cardinality({i \in X : i <= Len(A)})
      /\ ~call.list => Strcasecmp(call.rest) # 0 \/ \A i \in X : i > Len(A)
  BY <1>1 DEF Passed
<1>4. CASE call.list
  <2>1. n = Len(call.path) /\ call.op = "list" /\ RecordOf(call.path) = call.dir
    BY <1>4 DEF OnTrack, RecordOf
  <2>2. {i \in X : i <= Len(A)} = X
    <3> HIDE DEF X
    <3> QED BY <1>2
  <2>3. call.dir # Nothing
    BY DEF Good
  <2> QED BY <1>3, <1>4, <2>1, <2>2, <2>3 DEF NtfsExpected
<1>5. CASE ~call.list
  <2>1. n # Len(call.path)
    BY <1>5 DEF OnTrack
  <2>2. Strcasecmp(call.rest) # 0 \/ X = {}
    <3> HIDE DEF X
    <3> QED BY <1>2, <1>3, <1>5
  <2>3. Under(call.dir, call.rest) = Nothing
    BY <2>2 DEF Under
  <2>4. n + 1 \in 0..Len(call.path) /\ RecordsOn(call.path)[n + 1] = Nothing
    BY <2>1, <2>3, TrackGoesOn
  <2>5. RecordOf(call.path) = Nothing
    BY <2>4, NoRecordBehind
  <2> QED BY <1>5, <2>5 DEF NtfsExpected
<1> QED BY <1>4, <1>5

\* What is no directory, or no good record, has the answer as well.
LEMMA TrackEnds ==
  ASSUME vol \in NtfsNames, call.path \in Seq(STRING), call.op \in Finding,
         NEW n \in 0..Len(call.path), OnTrack(call, pc, n)
  PROVE  /\ pc = "record" /\ ~Good(call.dir) => NtfsExpected(call.op, call.path) = NoResult
         /\ pc = "root" /\ call.list /\ Good(call.dir) /\ ~Volume.recs[call.dir].dir =>
              NtfsExpected(call.op, call.path) = Count(1)
         /\ pc = "stat" => NtfsExpected(call.op, call.path) = IF Good(call.dir) THEN Entry(call.dir) ELSE NoResult
         /\ pc = "open" => NtfsExpected(call.op, call.path) = Entry(call.dir)
<1>1. call.dir \in Recs /\ call.dir # Nothing /\ call.dir = RecordsOn(call.path)[n]
  <2>1. Recs \subseteq Nat
    BY NtfsVolumeIs
  <2> QED BY <2>1 DEF OnTrack, Nothing
<1>2. n = Len(call.path) => RecordOf(call.path) = call.dir
  BY <1>1 DEF RecordOf
<1>3. ASSUME pc = "record", ~Good(call.dir)
      PROVE  NtfsExpected(call.op, call.path) = NoResult
  <2>1. CASE n = Len(call.path)
    <3>1. call.op = "list"
      BY <1>3, <2>1 DEF OnTrack
    <3> QED BY <1>2, <1>3, <2>1, <3>1 DEF NtfsExpected
  <2>2. CASE n # Len(call.path)
    <3>1. RecordOf(call.path) = Nothing
      BY <1>1, <1>3, <2>2, NoRecordBehind
    <3> QED BY <3>1 DEF NtfsExpected
  <2> QED BY <2>1, <2>2
<1>4. ASSUME pc = "root", call.list, Good(call.dir), ~Volume.recs[call.dir].dir
      PROVE  NtfsExpected(call.op, call.path) = Count(1)
  <2>1. n = Len(call.path) /\ call.op = "list"
    BY <1>4 DEF OnTrack
  <2> QED BY <1>1, <1>2, <1>4, <2>1 DEF NtfsExpected
<1>5. ASSUME pc \in {"stat", "open"}
      PROVE  RecordOf(call.path) = call.dir /\ call.op = pc
  BY <1>2, <1>5 DEF OnTrack
<1> QED BY <1>1, <1>3, <1>4, <1>5 DEF NtfsExpected

LEMMA SearchedSame ==
  ASSUME CallTyped, NEW index, NEW count, Searched(index, count)
  PROVE  /\ call'.tail = call.tail /\ call'.path = call.path
         /\ Hits(index) = {} => call' = [call EXCEPT !.count = count] /\ pc' = "blocks"
         /\ Hits(index) # {} => NtfsFound(index[Least(Hits(index))])
<1>1. CASE Hits(index) = {}
  BY <1>1 DEF Searched, GoOn, CallTyped
<1>2. CASE Hits(index) # {}
  <2>1. NtfsFound(index[Least(Hits(index))])
    BY <1>2 DEF Searched
  <2> DEFINE fd == index[Least(Hits(index))]
  <2> HIDE DEF fd
  <2>2. NtfsFound(fd)
    BY <2>1 DEF fd
  <2>3. call'.tail = call.tail /\ call'.path = call.path
    BY <2>2 DEF NtfsFound, CallTyped
  <2> QED BY <1>2, <2>1, <2>3
<1> QED BY <1>1, <1>2

\* A search of an index goes on as it should.
LEMMA SearchLooks ==
  ASSUME vol \in NtfsNames, UNCHANGED vol, CallTyped, call.path \in Seq(STRING), call.op \in Finding,
         NEW n \in 0..Len(call.path), OnTrack(call, "record", n), Good(call.dir), Volume.recs[call.dir].dir,
         NEW index \in Seq(Recs), NEW a \in Nat, Continues(AllOf(call.dir), a, index),
         a + Len(index) <= Len(AllOf(call.dir)),
         ~call.list => Strcasecmp(call.rest) # 0 \/ \A i \in ShownIn(AllOf(call.dir)) : i > a,
         NEW count, ~call.list => count = 0,
         call.list => count = Cardinality({i \in ShownIn(AllOf(call.dir)) : i <= a}) + Cardinality(ShownIn(index)),
         NEW m \in Nat, m <= Len(BlocksOf(call.dir)), Len(EntriesOf(call.dir)[m]) = a + Len(index), Searched(index, count),
         NEW rl, Stands(Volume.recs[call.dir].alloc, rl, m), NEW held, held = call.dir
  PROVE  \E k \in 0..Len(call.path) : NtfsLooking(call', pc', rl, held, held, k, m)
<1>1. CASE Hits(index) # {}
  <2>1. NtfsFound(index[Least(Hits(index))])
    BY <1>1, SearchedSame
  <2>2. pc' \in {"record", "stat", "open"} /\ n + 1 \in 0..Len(call.path) /\ OnTrack(call', pc', n + 1)
    BY <1>1, <2>1, FoundIs
  <2> DEFINE new == call'
             at == pc'
  <2> HIDE DEF new, at
  <2>3. NtfsLooking(new, at, rl, held, held, n + 1, m)
    BY <2>2 DEF NtfsLooking, new, at
  <2> QED BY <2>2, <2>3 DEF new, at
<1>2. CASE Hits(index) = {}
  <2> DEFINE new == [call EXCEPT !.count = count]
  <2>1. call' = new /\ pc' = "blocks"
    BY <1>2, SearchedSame
  <2>2. call.dir \in Recs
    BY DEF OnTrack
  <2>3. Passed(new, m)
    BY <1>2, <2>2, PassedIs
  <2>4. new.dir = call.dir /\ new.list = call.list /\ new.rest = call.rest /\ new.path = call.path /\ new.op = call.op
    BY DEF CallTyped
  <2> HIDE DEF new
  <2>5. OnTrack(new, "blocks", n)
    BY <2>4 DEF OnTrack
  <2>6. NtfsLooking(new, "blocks", rl, held, held, n, m)
    BY <2>3, <2>4, <2>5 DEF NtfsLooking
  <2> QED BY <2>1, <2>6
<1> QED BY <1>1, <1>2

LEMMA LookFindRecord ==
  ASSUME NtfsInv, NtfsLookInv, FindRecord, IndexesDecodable
  PROVE  NtfsLookInv'
<1>1. /\ CallTyped /\ vol \in NtfsNames /\ attrs \in Recs /\ call.op \in Finding /\ call.dir \in Recs
      /\ pc = "record" /\ UNCHANGED <<vol, call>>
  BY DEF NtfsInv, FindRecord
<1>2. PICK got \in Gots : /\ ReadRecord(call.dir, got) /\ TrustAfter(got)
                          /\ IF got = "negative" THEN Finish(NoResult) ELSE GoOn("root")
  BY DEF FindRecord
<1>3. /\ fails' \in Nat /\ Trusty' /\ (trust' # "spoilt" => trust # "spoilt")
      /\ trust = "clean" /\ trust' # "spoilt" =>
           /\ got # "positive" /\ trust' \in {"clean", "failed"} /\ (got = "ok" => trust' = "clean")
           /\ trust' = "clean" => mbuf_index' = call.dir /\ (got = "negative" => ~Good(call.dir))
  BY <1>1, <1>2, RecordRead DEF NtfsLookInv
<1>4. trust' # "spoilt" =>
        trust = "clean" /\ \E n \in 0..Len(call.path), m \in Nat :
          NtfsLooking(call, "record", alloc_rl, mbuf_index, attrs, n, m)
  BY <1>1, <1>3 DEF NtfsLookInv, NtfsLook, NtfsLooks
<1>5. call.path \in Seq(STRING)
  BY DEF NtfsLookInv
<1>6. CASE got = "negative"
  <2>1. pc' = "done" /\ result' = NoResult
    BY <1>2, <1>6 DEF Finish
  <2>2. trust' # "spoilt" => NtfsAnswers(result', trust')
    <3> SUFFICES ASSUME trust' # "spoilt" PROVE NtfsAnswers(NoResult, trust')
      BY <2>1
    <3>1. PICK n \in 0..Len(call.path) : OnTrack(call, pc, n)
      BY <1>1, <1>4 DEF NtfsLooking
    <3>2. CASE trust' = "clean"
      <4>1. ~Good(call.dir)
        BY <1>3, <1>4, <1>6, <3>2
      <4>2. NtfsExpected(call.op, call.path) = NoResult
        BY <1>1, <1>5, <3>1, <4>1, TrackEnds
      <4> QED BY <4>2 DEF NtfsAnswers
    <3>3. CASE trust' = "failed"
      BY <3>3 DEF NtfsAnswers, NoResult
    <3> QED BY <1>3, <1>4, <3>2, <3>3
  <2> QED BY <1>1, <1>3, <2>1, <2>2, NtfsLookDone
<1>7. CASE got # "negative"
  <2>1. pc' = "root"
    BY <1>2, <1>7 DEF GoOn
  <2>2. trust' # "spoilt" =>
          trust' = "clean" /\ \E n \in 0..Len(call.path), m \in Nat :
            NtfsLooking(call', pc', alloc_rl', mbuf_index', attrs', n, m)
    <3> SUFFICES ASSUME trust' # "spoilt"
                 PROVE  trust' = "clean" /\ \E n \in 0..Len(call.path), m \in Nat :
                          NtfsLooking(call, "root", alloc_rl', mbuf_index', attrs', n, m)
      BY <1>1, <2>1
    <3>1. PICK n \in 0..Len(call.path), m \in Nat : NtfsLooking(call, "record", alloc_rl, mbuf_index, attrs, n, m)
      BY <1>4
    <3>2. trust' = "clean" /\ mbuf_index' = call.dir
      BY <1>3, <1>4, <1>7 DEF Gots
    <3>3. NtfsLooking(call, "root", alloc_rl', mbuf_index', attrs', n, m)
      BY <3>1, <3>2 DEF NtfsLooking, OnTrack
    <3> QED BY <3>2, <3>3
  <2> QED BY <1>1, <1>3, <2>1, <2>2, NtfsLookGoesOn
<1> QED BY <1>6, <1>7

LEMMA LookFindInRoot ==
  ASSUME NtfsInv, NtfsLookInv, FindInRoot
  PROVE  NtfsLookInv'
<1>1. /\ CallTyped /\ vol \in NtfsNames /\ attrs \in Recs /\ call.op \in Finding /\ pc = "root"
      /\ UNCHANGED <<vol, trust, fails, mbuf, mbuf_index, attrs>> /\ alloc_rl' = Reset(alloc_rl)
  BY DEF NtfsInv, FindInRoot
<1>2. call.path \in Seq(STRING) /\ fails \in Nat /\ Trusty
  BY DEF NtfsLookInv
<1>3. Trusty' /\ alloc_rl'.next = 0
  <2>1. RlTyped(Reset(alloc_rl)) /\ Reset(alloc_rl).next = 0
    BY <1>2 DEF Trusty, RlTyped, Reset
  <2>2. Good(attrs)' <=> Good(attrs)
    BY <1>1 DEF Good, Volume
  <2> QED BY <1>1, <1>2, <2>1, <2>2 DEF Trusty
<1>4. trust # "spoilt" =>
        trust = "clean" /\ \E n \in 0..Len(call.path) : OnTrack(call, "root", n) /\ mbuf_index = call.dir
  BY <1>1 DEF NtfsLookInv, NtfsLook, NtfsLooks, NtfsLooking
<1>5. trust # "spoilt" /\ ~Stale => attrs = call.dir /\ Good(call.dir)
  BY <1>2, <1>4 DEF Trusty, Stale
<1>6. CASE pc' = "broken" /\ UNCHANGED call
  BY <1>1, <1>2, <1>3, <1>6, NtfsLookGoesOn DEF NtfsLooks
<1>7. CASE ~Stale /\ ~Record.dir /\ call.list /\ Finish(Count(1)) /\ UNCHANGED call
  <2>1. pc' = "done" /\ result' = Count(1)
    BY <1>7 DEF Finish
  <2>2. trust' # "spoilt" => NtfsAnswers(result', trust')
    <3> SUFFICES ASSUME trust # "spoilt" PROVE NtfsExpected(call.op, call.path) = Count(1)
      BY <1>1, <2>1 DEF NtfsAnswers
    <3>1. PICK n \in 0..Len(call.path) : OnTrack(call, pc, n)
      BY <1>1, <1>4
    <3>2. Good(call.dir) /\ ~Volume.recs[call.dir].dir
      BY <1>5, <1>7 DEF Record
    <3> QED BY <1>1, <1>2, <1>7, <3>1, <3>2, TrackEnds
  <2> QED BY <1>1, <1>2, <1>3, <1>7, <2>1, <2>2, NtfsLookDone
<1>8. CASE ~Stale /\ Record.dir /\ Searched(Record.index, IF call.list THEN Cardinality(ShownIn(Record.index)) ELSE 0)
  <2> DEFINE index == Record.index
             count == IF call.list THEN Cardinality(ShownIn(index)) ELSE 0
  <2>1. index \in Seq(Recs) /\ Recs \subseteq Nat
    BY <1>1, NtfsVolumeIs DEF Record
  <2>2. Searched(index, count)
    BY <1>8
  <2>3. call'.tail = call.tail /\ call'.path = call.path
    BY <1>1, <2>2, SearchedSame
  <2>4. pc' \in NtfsLooks
    <3> HIDE DEF index, count
    <3> QED BY <1>1, <2>1, <2>2, SearchedKeeps DEF NtfsLooks
  <2>5. ASSUME trust # "spoilt"
        PROVE  \E n \in 0..Len(call.path), m \in Nat : NtfsLooking(call', pc', alloc_rl', mbuf_index', attrs', n, m)
    <3> DEFINE d == call.dir
               A == AllOf(d)
               X == ShownIn(A)
    <3>1. PICK n \in 0..Len(call.path) : OnTrack(call, "root", n)
      BY <1>4, <2>5
    <3>2. OnTrack(call, "record", n) /\ d \in Recs
      BY <3>1 DEF OnTrack
    <3>3. attrs = d /\ Good(d) /\ mbuf_index = d /\ index = Volume.recs[d].index /\ Volume.recs[d].dir
      BY <1>4, <1>5, <1>8, <2>5 DEF Record
    <3>4. Len(A) \in Nat
      BY <1>1, <3>2, IndexIs
    <3>5. Len(EntriesOf(d)[0]) = 0 + Len(index) /\ Len(index) \in Nat
      <4>1. Len(EntriesOf(d)[0]) = Len(Volume.recs[d].index)
        BY <1>1, <3>2, IndexIs
      <4>2. Len(index) \in Nat
        BY <2>1
      <4> QED BY <3>3, <4>1, <4>2
    <3>6. Continues(A, 0, index)
      BY <1>1, <3>2, <3>3, IndexIs
    <3>7. 0 + Len(index) <= Len(A)
      <4>1. Len(Volume.recs[d].index) <= Len(A)
        BY <1>1, <3>2, IndexIs
      <4> QED BY <3>3, <3>5, <4>1
    <3>8. X \subseteq Nat /\ \A i \in X : i > 0
      <4>1. A \in Seq(Recs)
        BY <1>1, <3>2, DirectoryIs
      <4> QED BY <4>1 DEF ShownIn
    <3>9. Cardinality({i \in X : i <= 0}) = 0
      <4>1. {i \in X : i <= 0} = {}
        <5>1. \A i \in X : i \in Nat /\ i > 0
          BY <3>8
        <5> HIDE DEF X, index, count
        <5>2. \A i \in X : ~(i <= 0)
          BY <5>1
        <5> QED BY <5>2
      <4> QED BY <4>1, FS_EmptySet
    <3>10. Cardinality(ShownIn(index)) \in Nat
      <4>0. DOMAIN index = 1..Len(index)
        BY <2>1
      <4>1. ShownIn(index) \subseteq 1..Len(index) /\ IsFiniteSet(1..Len(index))
        <5> DEFINE l == Len(index)
        <5>1. IsFiniteSet(1..l)
          BY <3>5, FS_Interval
        <5> QED BY <4>0, <5>1 DEF ShownIn
      <4>2. IsFiniteSet(ShownIn(index))
        BY <4>1, FS_Subset
      <4> QED BY <4>2, FS_CardinalityType
    <3>11. call.list => count = Cardinality({i \in X : i <= 0}) + Cardinality(ShownIn(index))
      <4> DEFINE card == Cardinality(ShownIn(index))
      <4> HIDE DEF card
      <4>1. card \in Nat
        BY <3>10 DEF card
      <4>2. call.list => count = card
        BY DEF card
      <4> HIDE DEF count
      <4> QED BY <3>9, <4>1, <4>2 DEF card
    <3>12. ~call.list => count = 0
      OBVIOUS
    <3>13. Stands(Volume.recs[d].alloc, alloc_rl', 0) /\ 0 <= Len(BlocksOf(d))
      <4>1. Len(BlocksOf(d)) \in Nat
        BY <1>1, <3>2, DirectoryIs
      <4> QED BY <1>3, <4>1 DEF Stands
    <3> DEFINE rl == alloc_rl'
    <3> HIDE DEF index, count, d, A, X, rl
    <3>14. \E k \in 0..Len(call.path) : NtfsLooking(call', pc', rl, d, d, k, 0)
      <4>1. d = call.dir /\ OnTrack(call, "record", n) /\ Good(call.dir) /\ Volume.recs[call.dir].dir
        BY <3>2, <3>3 DEF d
      <4>2. /\ Continues(AllOf(call.dir), 0, index) /\ 0 + Len(index) <= Len(AllOf(call.dir))
            /\ \A i \in ShownIn(AllOf(call.dir)) : i > 0
        BY <3>6, <3>7, <3>8 DEF d, A, X
      <4>3. call.list => count = Cardinality({i \in ShownIn(AllOf(call.dir)) : i <= 0}) + Cardinality(ShownIn(index))
        BY <3>11 DEF d, A, X
      <4>4. 0 <= Len(BlocksOf(call.dir)) /\ Len(EntriesOf(call.dir)[0]) = 0 + Len(index)
            /\ Stands(Volume.recs[call.dir].alloc, rl, 0) /\ 0 \in Nat
        BY <3>5, <3>13 DEF d, rl
      <4> QED BY <1>1, <1>2, <2>1, <2>2, <3>12, <4>1, <4>2, <4>3, <4>4, SearchLooks
    <3> QED BY <1>1, <3>3, <3>14 DEF rl
  <2> QED BY <1>1, <1>2, <1>3, <1>4, <2>3, <2>4, <2>5, NtfsLookGoesOn DEF NtfsLooks
<1> QED
  <2>1. CASE Stale \/ (~Record.dir /\ ~call.list)
    BY <1>6, <2>1 DEF FindInRoot, Break
  <2>2. CASE ~Stale /\ ~Record.dir /\ call.list
    BY <1>7, <2>2 DEF FindInRoot
  <2>3. CASE ~Stale /\ Record.dir
    BY <1>8, <2>3 DEF FindInRoot
  <2> QED BY <2>1, <2>2, <2>3

\* Behind a place that is not the last one there is another.
LEMMA NotLast ==
  ASSUME NEW l \in Nat, NEW m \in 0..l, m # l
  PROVE  m \in 0..(l - 1) /\ m + 1 \in 1..l
OBVIOUS

\* What a lookup knows in an index block
LEMMA LookInBlock ==
  ASSUME vol \in NtfsNames, IndexesDecodable, NEW n, NEW m \in Nat, NEW rl, NEW held, NEW parsed,
         NtfsLooking(call, "blocks", rl, held, parsed, n, m)
  PROVE  LET d == call.dir
             next == NextLcn(rl, Volume.recs[d].alloc)
         IN  /\ OnTrack(call, "record", n) /\ d \in Recs /\ held = d /\ parsed = d /\ Good(d) /\ Volume.recs[d].dir
             /\ Passed(call, m) /\ (next.lcn = 0 => m = Len(BlocksOf(d)))
             /\ next.lcn # 0 => /\ m \in 0..(Len(BlocksOf(d)) - 1) /\ next.lcn = BlocksOf(d)[m + 1]
                                /\ Stands(Volume.recs[d].alloc, next.rl, m + 1)
<1> DEFINE d == call.dir
           runs == Volume.recs[d].alloc
           b == BlocksOf(d)
           next == NextLcn(rl, runs)
<1>1. OnTrack(call, "blocks", n) /\ held = d /\ parsed = d /\ Good(d) /\ Volume.recs[d].dir
      /\ m <= Len(b) /\ Stands(runs, rl, m) /\ Passed(call, m)
  BY DEF NtfsLooking
<1>2. OnTrack(call, "record", n) /\ d \in Recs
  BY <1>1 DEF OnTrack
<1>3. OnVolume(runs) /\ Decodable(runs) /\ b = Clusters(runs) /\ \A i \in DOMAIN b : b[i] # 0
  BY <1>2, TableIs DEF IndexesDecodable, Recs, Volume, BlocksOf
<1>4. Len(b) \in Nat /\ DOMAIN b = 1..Len(b)
  <2>1. b \in Seq(Int)
    BY <1>3, FileIs
  <2> QED BY <2>1
<1> HIDE DEF d, runs, b, next
<1>5. m \in 0..Len(b)
  BY <1>1, <1>4
<1>6. /\ m # Len(b) => Stands(runs, NextLcn(rl, runs).rl, m + 1) /\ NextLcn(rl, runs).lcn = b[m + 1]
      /\ m = Len(b) => NextLcn(rl, runs).lcn = 0
  BY <1>1, <1>3, <1>5, BlockIs
<1>7. ASSUME m # Len(b)
      PROVE  m \in 0..(Len(b) - 1) /\ b[m + 1] # 0
  <2>1. Len(b) \in Nat
    BY <1>4, Zenon
  <2>2. m \in 0..(Len(b) - 1) /\ m + 1 \in 1..Len(b)
    BY <1>5, <1>7, <2>1, NotLast, Zenon
  <2>3. m + 1 \in DOMAIN b
    BY <1>4, <2>2, Zenon
  <2> QED BY <1>3, <2>2, <2>3, Zenon
<1> QED BY <1>1, <1>2, <1>6, <1>7 DEF d, runs, b, next

LEMMA LookFindInBlock ==
  ASSUME NtfsInv, NtfsLookInv, FindInBlock, IndexesDecodable
  PROVE  NtfsLookInv'
<1> DEFINE next == NextLcn(alloc_rl, Record.alloc)
           index == IndexOf(block')
           count == CountOn(index)
<1>1. /\ CallTyped /\ vol \in NtfsNames /\ attrs \in Recs /\ call.op \in Finding /\ pc = "blocks"
      /\ UNCHANGED <<vol, mbuf, mbuf_index, attrs>> /\ alloc_rl' = next.rl
  BY DEF NtfsInv, FindInBlock
<1>2. call.path \in Seq(STRING) /\ fails \in Nat /\ Trusty
  BY DEF NtfsLookInv
<1>3. CASE next.lcn = 0
  <2>1. NotFound /\ UNCHANGED <<call, trust, fails>>
    BY <1>3 DEF FindInBlock
  <2>2. pc' = "done" /\ result' = IF call.list THEN Count(call.count) ELSE NoResult
    BY <2>1 DEF NotFound, Finish
  <2>3. Trusty'
    <3>1. RlTyped(next.rl)
      BY <1>2, NextRlTyped DEF Trusty
    <3>2. Good(attrs)' <=> Good(attrs)
      BY <1>1 DEF Good, Volume
    <3> HIDE DEF next
    <3> QED BY <1>1, <1>2, <2>1, <3>1, <3>2 DEF Trusty
  <2>4. trust' # "spoilt" => NtfsAnswers(result', trust')
    <3> SUFFICES ASSUME trust # "spoilt"
                 PROVE  NtfsExpected(call.op, call.path) = IF call.list THEN Count(call.count) ELSE NoResult
      BY <2>1, <2>2 DEF NtfsAnswers
    <3>1. PICK n \in 0..Len(call.path), m \in Nat : NtfsLooking(call, "blocks", alloc_rl, mbuf_index, attrs, n, m)
      BY <1>1 DEF NtfsLookInv, NtfsLook, NtfsLooks
    <3>2. /\ OnTrack(call, "record", n) /\ attrs = call.dir /\ Good(call.dir) /\ Volume.recs[call.dir].dir
          /\ Passed(call, m)
      BY <1>1, <3>1, LookInBlock
    <3>3. NextLcn(alloc_rl, Volume.recs[call.dir].alloc).lcn = 0 => m = Len(BlocksOf(call.dir))
      BY <1>1, <3>1, LookInBlock
    <3>4. m = Len(BlocksOf(call.dir))
      BY <1>3, <3>2, <3>3 DEF Record
    <3> QED BY <1>1, <1>2, <3>2, <3>4, SearchEnds
  <2> HIDE DEF next
  <2> QED BY <1>1, <1>2, <2>1, <2>2, <2>3, <2>4, NtfsLookDone
<1>4. CASE next.lcn # 0
  <2>1. ReadBlock(next.lcn) /\ Searched(index, count)
    BY <1>4 DEF FindInBlock
  <2>2. fails' \in Nat /\ (trust' = trust \/ trust' = "spoilt")
        /\ (trust' # "spoilt" => trust' = trust /\ block' = next.lcn)
    <3> HIDE DEF next
    <3> QED BY <1>2, <2>1 DEF ReadBlock, Fail, Unnoticed
  <2>3. Trusty'
    <3>1. RlTyped(next.rl)
      BY <1>2, NextRlTyped DEF Trusty
    <3>2. Good(attrs)' <=> Good(attrs)
      BY <1>1 DEF Good, Volume
    <3> HIDE DEF next
    <3> QED BY <1>1, <1>2, <2>2, <3>1, <3>2 DEF Trusty
  <2>4. call'.tail = call.tail /\ call'.path = call.path
    <3> HIDE DEF index, count
    <3> QED BY <1>1, <2>1, SearchedSame
  <2>5. index \in Seq(Recs) /\ Recs \subseteq Nat
    BY <1>1, NtfsVolumeIs
  <2>6. pc' \in NtfsLooks
    <3> HIDE DEF index, count
    <3> QED BY <1>1, <2>1, <2>5, SearchedKeeps DEF NtfsLooks
  <2>7. ASSUME trust' # "spoilt"
        PROVE  trust' = "clean" /\ \E n \in 0..Len(call.path), m \in Nat :
                 NtfsLooking(call', pc', alloc_rl', mbuf_index', attrs', n, m)
    <3> DEFINE d == call.dir
               A == AllOf(d)
               X == ShownIn(A)
    <3>1. trust # "spoilt" /\ trust' = trust /\ block' = next.lcn
      BY <2>2, <2>7
    <3>2. trust = "clean" /\ \E n \in 0..Len(call.path), m \in Nat :
            NtfsLooking(call, "blocks", alloc_rl, mbuf_index, attrs, n, m)
      BY <1>1, <3>1 DEF NtfsLookInv, NtfsLook, NtfsLooks
    <3>3. PICK n \in 0..Len(call.path), m \in Nat : NtfsLooking(call, "blocks", alloc_rl, mbuf_index, attrs, n, m)
      BY <3>2
    <3>4. /\ OnTrack(call, "record", n) /\ d \in Recs /\ mbuf_index = d /\ attrs = d /\ Good(d) /\ Volume.recs[d].dir
          /\ Passed(call, m)
      BY <1>1, <3>3, LookInBlock
    <3>5. next = NextLcn(alloc_rl, Volume.recs[d].alloc)
      BY <3>4 DEF Record
    <3>6. /\ m \in 0..(Len(BlocksOf(d)) - 1) /\ next.lcn = BlocksOf(d)[m + 1]
          /\ Stands(Volume.recs[d].alloc, next.rl, m + 1)
      <4> DEFINE runs == Volume.recs[d].alloc
                 step == NextLcn(alloc_rl, runs)
      <4>1. /\ vol \in NtfsNames /\ IndexesDecodable /\ m \in Nat
            /\ NtfsLooking(call, "blocks", alloc_rl, mbuf_index, attrs, n, m)
        BY <1>1, <3>3
      <4>2. step.lcn # 0 => /\ m \in 0..(Len(BlocksOf(d)) - 1) /\ step.lcn = BlocksOf(d)[m + 1]
                            /\ Stands(runs, step.rl, m + 1)
        BY <4>1, LookInBlock
      <4>3. next = step
        BY <3>5
      <4> HIDE DEF next, step, runs
      <4>4. /\ m \in 0..(Len(BlocksOf(d)) - 1) /\ next.lcn = BlocksOf(d)[m + 1] /\ Stands(runs, next.rl, m + 1)
        BY <1>4, <4>2, <4>3
      <4> QED BY <4>4 DEF runs
    <3> DEFINE a == Len(EntriesOf(d)[m])
               g == IndexOf(BlocksOf(d)[m + 1])
    <3>7. index = g
      BY <3>1, <3>6
    <3>8. a \in Nat /\ Len(EntriesOf(d)[m + 1]) = a + Len(g) /\ a + Len(g) <= Len(A)
      BY <1>1, <3>4, <3>6, IndexIs
    <3>9. Continues(A, a, g)
      BY <1>1, <3>4, <3>6, IndexIs
    <3>10. /\ call.list => call.count = Cardinality({i \in X : i <= a})
           /\ ~call.list => call.count = 0 /\ (Strcasecmp(call.rest) # 0 \/ \A i \in X : i > a)
      BY <3>4 DEF Passed
    <3>11. call.list => count = Cardinality({i \in X : i <= a}) + Cardinality(ShownIn(index))
      BY <3>10 DEF CountOn
    <3>12. ~call.list => count = 0
      BY <3>10 DEF CountOn
    <3>13. m + 1 \in Nat /\ m + 1 <= Len(BlocksOf(d))
      <4>1. Len(BlocksOf(d)) \in Nat
        BY <1>1, <3>4, DirectoryIs
      <4> QED BY <3>6, <4>1
    <3> DEFINE rl == next.rl
    <3> HIDE DEF index, count, d, A, X, rl, a, g, next
    <3>14. \E k \in 0..Len(call.path) : NtfsLooking(call', pc', rl, d, d, k, m + 1)
      <4>1. d = call.dir /\ OnTrack(call, "record", n) /\ Good(call.dir) /\ Volume.recs[call.dir].dir
        BY <3>4 DEF d
      <4>2. /\ Continues(AllOf(call.dir), a, index) /\ a + Len(index) <= Len(AllOf(call.dir)) /\ a \in Nat
            /\ ~call.list => Strcasecmp(call.rest) # 0 \/ \A i \in ShownIn(AllOf(call.dir)) : i > a
        BY <3>7, <3>8, <3>9, <3>10 DEF d, A, X
      <4>3. call.list => count = Cardinality({i \in ShownIn(AllOf(call.dir)) : i <= a}) + Cardinality(ShownIn(index))
        BY <3>11 DEF d, A, X
      <4>4. m + 1 <= Len(BlocksOf(call.dir)) /\ Len(EntriesOf(call.dir)[m + 1]) = a + Len(index)
            /\ Stands(Volume.recs[call.dir].alloc, rl, m + 1) /\ m + 1 \in Nat
        BY <3>6, <3>7, <3>8, <3>13 DEF d, rl
      <4> QED BY <1>1, <1>2, <2>1, <2>5, <3>12, <4>1, <4>2, <4>3, <4>4, SearchLooks
    <3> QED BY <1>1, <3>1, <3>2, <3>4, <3>13, <3>14 DEF rl
  <2> HIDE DEF next, index, count
  <2> QED BY <1>1, <1>2, <2>2, <2>3, <2>4, <2>6, <2>7, NtfsLookGoesOn DEF NtfsLooks
<1> QED BY <1>3, <1>4

LEMMA LookStatOpen ==
  ASSUME NtfsInv, NtfsLookInv, Stat \/ Open, IndexesDecodable
  PROVE  NtfsLookInv'
<1>1. /\ CallTyped /\ vol \in NtfsNames /\ attrs \in Recs /\ call.op \in Finding /\ call.dir \in Recs
      /\ pc \in {"stat", "open"} /\ UNCHANGED <<vol, call>>
  BY DEF NtfsInv, Stat, Open
<1>2. PICK got \in Gots :
        /\ ReadRecord(call.dir, got) /\ TrustAfter(got)
        /\ \/ pc = "stat" /\ got = "negative" /\ Finish(NoResult)
           \/ pc = "stat" /\ got # "negative" /\ mbuf' = attrs' /\ Finish(Entry(attrs'))
           \/ pc = "open" /\ Finish(Entry(call.dir))
           \/ pc' = "broken"
  BY Zenon DEF Stat, Open, Break
<1>3. /\ fails' \in Nat /\ Trusty' /\ (trust' # "spoilt" => trust # "spoilt")
      /\ trust = "clean" /\ trust' # "spoilt" =>
           /\ got # "positive" /\ trust' \in {"clean", "failed"} /\ (got = "ok" => trust' = "clean")
           /\ trust' = "clean" => mbuf_index' = call.dir /\ (got = "negative" => ~Good(call.dir))
  BY <1>1, <1>2, RecordRead DEF NtfsLookInv
<1>4. trust' # "spoilt" => trust = "clean" /\ \E n \in 0..Len(call.path) : OnTrack(call, pc, n)
  BY <1>1, <1>3 DEF NtfsLookInv, NtfsLook, NtfsLooks, NtfsLooking
<1>5. call.path \in Seq(STRING)
  BY DEF NtfsLookInv
<1>6. CASE pc' = "broken"
  BY <1>1, <1>3, <1>6, NtfsLookGoesOn DEF NtfsLooks
<1>7. CASE pc' = "done" /\ pc = "stat" /\ got = "negative" /\ result' = NoResult
  <2>1. trust' # "spoilt" => NtfsAnswers(result', trust')
    <3> SUFFICES ASSUME trust' # "spoilt" PROVE NtfsAnswers(NoResult, trust')
      BY <1>7
    <3>1. PICK n \in 0..Len(call.path) : OnTrack(call, pc, n)
      BY <1>4
    <3>2. NtfsExpected(call.op, call.path) = IF Good(call.dir) THEN Entry(call.dir) ELSE NoResult
      BY <1>1, <1>5, <1>7, <3>1, TrackEnds
    <3> QED BY <1>3, <1>4, <1>7, <3>2 DEF NtfsAnswers, NoResult
  <2> QED BY <1>1, <1>3, <1>7, <2>1, NtfsLookDone
<1>8. CASE pc' = "done" /\ pc = "stat" /\ got # "negative" /\ mbuf' = attrs' /\ result' = Entry(attrs')
  <2>1. trust' # "spoilt" => NtfsAnswers(result', trust')
    <3> SUFFICES ASSUME trust' # "spoilt" PROVE NtfsExpected(call.op, call.path) = Entry(attrs')
      BY <1>8 DEF NtfsAnswers
    <3>1. PICK n \in 0..Len(call.path) : OnTrack(call, pc, n)
      BY <1>4
    <3>2. NtfsExpected(call.op, call.path) = IF Good(call.dir) THEN Entry(call.dir) ELSE NoResult
      BY <1>1, <1>5, <1>8, <3>1, TrackEnds
    <3>3. trust' = "clean" /\ mbuf_index' = call.dir
      BY <1>3, <1>4, <1>8 DEF Gots
    <3>4. attrs' = call.dir /\ Good(attrs)'
      BY <1>3, <1>8, <3>3 DEF Trusty
    <3>5. Good(call.dir)
      BY <1>1, <3>4 DEF Good, Volume
    <3> QED BY <3>2, <3>4, <3>5
  <2> QED BY <1>1, <1>3, <1>8, <2>1, NtfsLookDone
<1>9. CASE pc' = "done" /\ pc = "open" /\ result' = Entry(call.dir)
  <2>1. trust' # "spoilt" => NtfsAnswers(result', trust')
    <3> SUFFICES ASSUME trust' # "spoilt" PROVE NtfsExpected(call.op, call.path) = Entry(call.dir)
      BY <1>9 DEF NtfsAnswers
    <3>1. PICK n \in 0..Len(call.path) : OnTrack(call, pc, n)
      BY <1>4
    <3> QED BY <1>1, <1>5, <1>9, <3>1, TrackEnds
  <2> QED BY <1>1, <1>3, <1>9, <2>1, NtfsLookDone
<1> QED BY <1>2, <1>6, <1>7, <1>8, <1>9 DEF Finish

\* A lookup begins at the root.
LEMMA NtfsLookBegins ==
  ASSUME UNCHANGED vol, vol \in NtfsNames, NEW path \in Seq(STRING), call'.path = path, call'.rest = path,
         call'.dir = RootRecord, call'.list <=> path = <<>>, path = <<>> => call'.op = "list",
         pc' = "record", trust' # "spoilt" => trust' = "clean", fails' \in Nat, Trusty'
  PROVE  NtfsLookInv'
<1>1. vol' \in NtfsNames /\ RootRecord \in Recs /\ Recs' = Recs
  BY NtfsVolumeIs DEF Recs, Volume
<1>2. (RecordsOn(path)[0])' = RootRecord
  <2>1. (vol \in NtfsNames => RecordsLead)'
    BY AllRecordsLead, PTL
  <2>2. RecordsLead'
    BY <1>1, <2>1
  <2> QED BY <2>2 DEF RecordsLead
<1>3. path = SubSeq(path, 0 + 1, Len(path)) /\ (path = <<>> <=> 0 = Len(path)) /\ 0 \in 0..Len(path)
  <2>1. 0 \in 0..Len(path)
    OBVIOUS
  <2> QED BY <2>1, RestIs
<1>4. OnTrack(call, "record", 0)'
  BY <1>1, <1>2, <1>3 DEF OnTrack
<1>5. NtfsLooking(call, "record", alloc_rl, mbuf_index, attrs, 0, 0)'
  BY <1>4 DEF NtfsLooking
<1>6. NtfsLook'
  BY <1>3, <1>5 DEF NtfsLook
<1> QED BY <1>6 DEF NtfsLookInv, NtfsFindRight

LEMMA TrustyKept ==
  ASSUME UNCHANGED <<vol, mbuf, mbuf_index, attrs, alloc_rl>>, trust' = "clean" => trust = "clean", Trusty
  PROVE  Trusty'
BY DEF Trusty, Good, Volume

LEMMA NtfsLookStep ==
  ASSUME NtfsInv, NtfsLookInv, [Next]_vars, IndexesDecodable
  PROVE  NtfsLookInv'
<1>1. CallTyped /\ vol \in NtfsNames /\ call.path \in Seq(STRING) /\ fails \in Nat /\ Trusty
  BY DEF NtfsInv, NtfsLookInv
<1>2. Ntfs
  BY <1>1 DEF NtfsNames, Ntfs, Volume
<1>5. ASSUME FileCall1
      PROVE  NtfsLookInv'
  <2>1. ASSUME NEW op \in {"stat", "open", "list"}, NEW path \in Paths, path = <<>> => op = "list", NtfsFind(op, path)
        PROVE  NtfsLookInv'
    <3>1. PICK tail : Starts([NoCall EXCEPT !.op = op, !.path = path, !.rest = path, !.dir = RootRecord,
                                !.list = (path = <<>>), !.tail = tail], "record")
      BY <2>1 DEF NtfsFind
    <3>2. /\ call'.path = path /\ call'.rest = path /\ call'.dir = RootRecord /\ (call'.list <=> path = <<>>)
          /\ call'.op = op /\ pc' = "record" /\ UNCHANGED <<vol, fails>> /\ (trust' # "spoilt" => trust' = "clean")
          /\ trust' = "clean" => trust = "clean"
      BY <3>1 DEF Starts, NoCall
    <3>3. Trusty'
      BY <1>1, <2>1, <3>2, TrustyKept DEF NtfsFind, ntfsVars
    <3>4. path \in Seq(STRING)
      BY VfsAssumption
    <3> QED BY <1>1, <2>1, <3>2, <3>3, <3>4, NtfsLookBegins
  <2>2. ASSUME NEW n \in Sizes, NtfsLseek(n)
        PROVE  NtfsLookInv'
    <3>1. pc = "idle" /\ UNCHANGED <<vol, pc, call, trust, fails, mbuf, mbuf_index, attrs, alloc_rl>>
      BY <2>2 DEF NtfsLseek, callVars, recordVars
    <3>2. Trusty'
      BY <1>1, <3>1, TrustyKept
    <3> QED BY <1>1, <3>1, <3>2, NtfsLookRests DEF NtfsLooks
  <2>3. ASSUME NEW n \in Sizes, NtfsRead(n)
        PROVE  NtfsLookInv'
    <3>1. /\ pc' = "data" /\ call'.path = <<>> /\ call'.op = "read" /\ UNCHANGED <<vol, fails>>
          /\ trust' = "clean" => trust = "clean"
      BY <2>3 DEF NtfsRead, Starts, NoCall
    <3>2. Trusty'
      BY <1>1, <2>3, <3>1, TrustyKept DEF NtfsRead, ntfsVars
    <3> QED BY <1>1, <3>1, <3>2, EmptyPath, NtfsLookRests DEF NtfsLooks
  <2> QED
    <3>1. \/ \E op \in {"stat", "open", "list"}, path \in Paths : (path = <<>> => op = "list") /\ NtfsFind(op, path)
          \/ \E n \in Sizes : NtfsLseek(n) \/ NtfsRead(n)
      BY <1>2, <1>5, Zenon DEF FileCall1
    <3> QED BY <2>1, <2>2, <2>3, <3>1
<1>6. CASE Step
  <2>1. NtfsStep
    BY <1>2, <1>6 DEF Step
  <2>2. CASE Return /\ UNCHANGED ntfsVars
    <3>1. pc' = "idle" /\ call' = NoCall /\ UNCHANGED <<vol, trust, fails>>
      BY <2>2 DEF Return
    <3>2. Trusty'
      BY <1>1, <2>2, <3>1, TrustyKept DEF ntfsVars
    <3> QED BY <1>1, <3>1, <3>2, EmptyPath, NtfsLookRests DEF NtfsLooks
  <2>3. CASE FindData \/ CopyBlocks
    <3>1. pc \in {"data", "copy blocks"} /\ call.op = "read" /\ UNCHANGED <<vol, mbuf, mbuf_index, attrs, alloc_rl>>
      BY <2>3 DEF FindData, CopyBlocks, NtfsLookInv
    <3>2. call'.op = "read" /\ call'.path = call.path /\ pc' \in {"data", "copy blocks", "done", "broken"}
      BY <1>1, <2>3, <3>1 DEF FindData, CopyBlocks, GoOn, Finish, Break, CallTyped
    <3>3. fails' \in Nat /\ (trust' = "clean" => trust = "clean")
      <4>1. CASE FindData
        BY <1>1, <4>1 DEF FindData
      <4>2. CASE CopyBlocks
        <5>1. UNCHANGED <<trust, fails>> \/ ReadBlock(call.dir)
          BY <4>2, Zenon DEF CopyBlocks
        <5> QED BY <1>1, <5>1 DEF ReadBlock, Fail, Unnoticed
      <4> QED BY <2>3, <4>1, <4>2
    <3>4. Trusty'
      BY <1>1, <3>1, <3>3, TrustyKept
    <3> QED BY <1>1, <3>2, <3>3, <3>4, NtfsLookRests DEF NtfsLooks, Finding
  <2> QED BY <2>1, <2>2, <2>3, LookFindRecord, LookFindInRoot, LookFindInBlock, LookStatOpen DEF NtfsStep
<1>7. CASE UNCHANGED vars
  <2>1. UNCHANGED <<vol, pc, call, result, trust, fails, mbuf, mbuf_index, attrs, alloc_rl>>
    BY <1>7 DEF vars, callVars, ntfsVars
  <2>2. Trusty'
    BY <1>1, <2>1, TrustyKept
  <2>3. CASE pc = "done"
    <3>1. trust' # "spoilt" /\ call.op \in Finding => NtfsAnswers(result', trust')
      <4> SUFFICES ASSUME trust # "spoilt", call.op \in Finding PROVE NtfsAnswers(result, trust)
        BY <2>1
      <4> QED BY <2>3 DEF NtfsLookInv, NtfsFindRight, Finding, NtfsAnswers
    <3> QED BY <1>1, <2>1, <2>2, <2>3, <3>1, NtfsLookDone
  <2>4. CASE pc \in {"data", "copy blocks"}
    BY <1>1, <2>1, <2>2, <2>4, NtfsLookRests DEF NtfsLookInv, NtfsLooks
  <2>5. CASE pc \notin {"done", "data", "copy blocks"}
    <3>1. pc' \in NtfsLooks /\ trust' # "spoilt" =>
            trust' = "clean" /\ \E n \in 0..Len(call.path), m \in Nat :
              NtfsLooking(call', pc', alloc_rl', mbuf_index', attrs', n, m)
      BY <2>1 DEF NtfsLookInv, NtfsLook
    <3> QED BY <1>1, <2>1, <2>2, <2>5, <3>1, NtfsLookGoesOn
  <2> QED BY <2>3, <2>4, <2>5
<1> QED BY <1>5, <1>6, <1>7 DEF Next

LEMMA NtfsLookInit == Init /\ Ntfs => NtfsLookInv
<1> SUFFICES ASSUME Init, Ntfs PROVE NtfsLookInv
  OBVIOUS
<1>1. vol \in NtfsNames /\ call = NoCall /\ pc = "idle" /\ fails = 0
  BY DEF Init, CallInit, Ntfs, NtfsNames, Volume
<1>2. Trusty
  <2>1. Good(0) /\ RlTyped(FreshRl)
    BY <1>1, TableIs DEF RlTyped, FreshRl
  <2> QED BY <2>1 DEF Trusty, Init, NtfsInit
<1> QED BY <1>1, <1>2, EmptyPath DEF NtfsLookInv, NtfsLook, NtfsLooks, NtfsFindRight

-----------------------------------------------------------------------------
(* The theorems                                                            *)

\* Until a read fails, the buffers of FAT hold what they are taken for, on any volume,
\* but for the first sector of dbuf, where a root sector of FAT12/16 may have come
\* without data_cluster saying so (read_cluster, read_fat, next_cluster, fat_find).
THEOREM BuffersAlwaysHonest == Spec => []BuffersHonest
<1>1. Init => DbufTyped /\ BuffersHonest
  BY DEF Init, FatInit, DbufTyped, BuffersHonest
<1>2. DbufTyped /\ BuffersHonest /\ [Next]_vars => DbufTyped' /\ BuffersHonest'
  BY BuffersStep
<1> QED BY <1>1, <1>2, PTL DEF Spec

\* Run lists lead through a file in order, to its end, and to each cluster that is
\* searched for, whatever their number and length and wherever the runs lie, if the
\* code can decode their distances (rl_decode_next, rl_next_lcn, rl_seek_vcn).
THEOREM RunsAlwaysWalked == Spec => []RunsWalked
<1>1. RunsWalked
  BY AllRunsRight DEF RunsWalked
<1> QED BY <1>1, PTL

\* A read that ends exactly with its cluster, and any read of an NTFS file that lies in
\* its record, returns what is in the file at its position; others leave the buffers.
\* So on any FAT volume whose chains end and are long enough for their files, of the
\* file that was looked up last, and not from a cluster that was cached when a root
\* sector of FAT12/16 came over it; on NTFS, where the code can decode the runs of all
\* files (fat_read, fat_lseek, ntfs_read, ntfs_lseek).
THEOREM FilesAlwaysRead ==
  ASSUME FilesDecodable
  PROVE  Spec => []FilesRead
<1> DEFINE Inv == vol \in DOMAIN VolumeOf /\ (Ntfs => NtfsInv) /\ (~Ntfs => FatInv)
<1>1. Init => Inv
  BY NtfsInitInv, FatInitInv DEF Init
<1>2. Inv /\ [Next]_vars => Inv'
  <2> SUFFICES ASSUME Inv, [Next]_vars PROVE Inv'
    OBVIOUS
  <2>1. CASE Ntfs
    <3>1. NtfsInv'
      BY <2>1, NtfsStepKeeps
    <3>2. vol' \in DOMAIN VolumeOf /\ Ntfs'
      BY <3>1 DEF NtfsInv, NtfsNames, Ntfs, Volume
    <3> QED BY <3>1, <3>2
  <2>2. CASE ~Ntfs
    <3>1. FatInv'
      BY <2>2, FatStepKeeps
    <3>2. vol' \in DOMAIN VolumeOf /\ ~Ntfs'
      BY <3>1 DEF FatInv
    <3> QED BY <3>1, <3>2
  <2> QED BY <2>1, <2>2
<1>3. Inv => FilesRead
  BY NtfsInvReads, FatInvReads DEF FilesRead
<1> HIDE DEF Inv
<1> QED BY <1>1, <1>2, <1>3, PTL DEF Spec

\* A path leads to the entry that the code's comparison of names takes for its own, and
\* a listing is complete: on any FAT volume whose chains of directories end, but on
\* FAT12/16 for a path through a directory with the cluster that is cached when the
\* lookup starts; on NTFS, where the code can decode all runs (fat_find, ntfs_find,
\* fat_stat, ntfs_stat, fat_open, ntfs_open, f_list).
THEOREM FilesAlwaysFound ==
  ASSUME FilesDecodable, IndexesDecodable
  PROVE  Spec => []FilesFound
<1> DEFINE Inv == /\ vol \in DOMAIN VolumeOf
                  /\ Ntfs => NtfsInv /\ NtfsLookInv
                  /\ ~Ntfs => FatInv /\ FatLookInv
<1>1. Init => Inv
  BY NtfsInitInv, FatInitInv, NtfsLookInit, FatLookInit DEF Init
<1>2. Inv /\ [Next]_vars => Inv'
  <2> SUFFICES ASSUME Inv, [Next]_vars PROVE Inv'
    OBVIOUS
  <2>1. CASE Ntfs
    <3>1. NtfsInv' /\ NtfsLookInv'
      BY <2>1, NtfsStepKeeps, NtfsLookStep
    <3>2. vol' \in DOMAIN VolumeOf /\ Ntfs'
      BY <3>1 DEF NtfsInv, NtfsNames, Ntfs, Volume
    <3> QED BY <3>1, <3>2
  <2>2. CASE ~Ntfs
    <3>1. FatInv' /\ FatLookInv'
      BY <2>2, FatStepKeeps, FatLookStep
    <3>2. vol' \in DOMAIN VolumeOf /\ ~Ntfs'
      BY <3>1 DEF FatInv
    <3> QED BY <3>1, <3>2
  <2> QED BY <2>1, <2>2
<1>3. Inv => FilesFound
  BY DEF FilesFound, NtfsLookInv, FatLookInv
<1> HIDE DEF Inv
<1> QED BY <1>1, <1>2, <1>3, PTL DEF Spec
=============================================================================
