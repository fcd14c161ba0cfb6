------------------------------- MODULE BlkDev --------------------------------
(***************************************************************************)
(* Block devices: the table of devices and the partition tables            *)
(* (src/tntfs/fs_util.c), with what the USB and the SD card driver do when *)
(* a disk comes and goes (usbh_msc_run and usbh_msc_stop in                *)
(* src/cherryusb/agrv2k_hcd.c, sd_init in src/main/spi_sd.c).              *)
(*                                                                         *)
(* Each stick is registered by its enumeration thread, the card by the     *)
(* shell, and nothing is locked.  usbh_msc_stop runs in the hub thread,    *)
(* which is more urgent and does not wait, so it is one step, between any  *)
(* two steps of the others.  The memory of a stick's BLKDEV is used again  *)
(* for another stick's; the card's is static.                              *)
(*                                                                         *)
(* where says where the thread of a disk is:                               *)
(*   out      the disk has not come, or the shell has not called sd_init   *)
(*   named    the stick has its devname, and no BLKDEV yet                 *)
(*   find     f_initdev looks for a free slot                              *)
(*   store    it has found one, and stores the device there                *)
(*   read     it waits for the first sector                                *)
(*   got      the sector is in the buffer, the end of the command is not   *)
(*   mount    f_mount reads the disk                                       *)
(*   keep     it has found a file system, and stores it                    *)
(*   done     usbh_msc_run or sd_init has returned                         *)
(*                                                                         *)
(* The model stops where a thread works on what is not its own:            *)
(*   late         a stick has gone while its thread was about to enter its *)
(*                BLKDEV in the table, or a file system in its BLKDEV      *)
(*   used         the memory of a stick that is gone has been used again   *)
(*                while its thread works with it                           *)
(*   again        sd_init clears the BLKDEV of the card, which is in the   *)
(*                table                                                    *)
(*   overwritten  two threads have found the same slot                     *)
(* A read that begins after its stick has gone is taken to fail.           *)
(*                                                                         *)
(* Bounds: a stick comes once, and the shell calls sd_init at most         *)
(* MaxInits times.                                                         *)
(***************************************************************************)
EXTENDS Integers, FiniteSets

CONSTANTS
  Sticks, Card,     \* the disks
  Blocks, CardBlock,\* places for a BLKDEV: in the heap, and sd_dev
  None,             \* NULL
  Slots,            \* the number of slots of devlist
  TablesOf,         \* the partition tables that a disk may have
  DiskSize,         \* the sectors of a disk
  Sectors32,        \* the number of values of a sector number
  MaxInits          \* bound

Disks == Sticks \cup {Card}
Places == Blocks \cup {CardBlock}
Numbers == 0..(Sectors32 - 1)
Tables == [1..4 -> [flag : Nat, start : Numbers, size : Numbers]]

ASSUME BlkAssumption ==
  /\ Card \notin Sticks /\ CardBlock \notin Blocks /\ None \notin Places
  /\ Slots \in Nat \ {0} /\ MaxInits \in Nat
  /\ Sectors32 \in Nat \ {0} /\ DiskSize \in Numbers \ {0}
  /\ \A d \in Disks : TablesOf[d] \subseteq Tables

VARIABLES
  devlist,      \* the table of devices
  sector_buf,   \* the disk whose first sector is in f_initdev's buffer, or None
  mixed,        \* the disks whose sector has been replaced before it was scanned
  there,        \* the sticks whose class instance has not been freed
  user,         \* msc_class->user of a stick
  where, bdev,  \* the thread of a disk: where it is, and its BLKDEV
  slot,         \* and the slot that it has found
  table,        \* the partition table on a disk
  parts,        \* bdev->parts: the partitions of a BLKDEV
  fs,           \* the BLKDEVs whose parts[0].fs is set
  inits,        \* counter of calls of sd_init
  stopped       \* "none", or why the model has stopped

bufferVars == <<sector_buf, mixed>>
threadVars == <<where, bdev, slot>>
placeVars == <<parts, fs>>
blkVars == <<devlist, bufferVars, there, user, threadVars, table, placeVars, inits, stopped>>

SlotsOf(b) == {i \in 1..Slots : devlist[i] = b}

\* A step of the thread of a disk
Moves(d, from, to) == stopped = "none" /\ where[d] = from /\ where' = [where EXCEPT ![d] = to]
Stops(why, happens) == stopped' = IF happens THEN why ELSE "none"
-----------------------------------------------------------------------------
(* The partition table                                                     *)

IsEmpty(e) == e.flag = 0 /\ e.start = 0 /\ e.size = 0

IllegalEntry(e) ==
  \/ e.flag # 0 \/ e.size = 0 \/ e.start > DiskSize
  \/ (e.start + e.size) % Sectors32 > DiskSize

Zeros == [p \in 1..4 |-> [start |-> 0, size |-> 0]]
WholeDisk == [p \in 1..4 |-> [start |-> 0, size |-> IF p = 1 THEN DiskSize ELSE 0]]

\* mutant: an entry is written at its own number
ScanByNumber(entries) ==
  [p \in 1..4 |-> IF IsEmpty(entries[p]) THEN [start |-> 0, size |-> 0]
                  ELSE [start |-> entries[p].start, size |-> entries[p].size]]

\* The entries are written from parts[0] on, up to an illegal one.
ScanTable(entries) ==
  LET scan[i \in 0..4] ==
        IF i = 0 THEN [p |-> 0, parts |-> WholeDisk, over |-> FALSE]
        ELSE LET s == scan[i - 1]
                 e == entries[i]
             IN  IF s.over \/ IsEmpty(e) THEN s
                 ELSE IF IllegalEntry(e) THEN [s EXCEPT !.over = TRUE]
                 ELSE [s EXCEPT !.p = @ + 1, !.parts[s.p + 1] = [start |-> e.start, size |-> e.size]]
  IN  scan[4].parts
-----------------------------------------------------------------------------
(* A disk comes                                                            *)

\* usbh_msc_connect, up to usbh_msc_run
Connect(d) ==
  /\ Moves(d, "out", "named")
  /\ there' = there \cup {d}
  /\ UNCHANGED <<devlist, bufferVars, user, bdev, slot, table, placeVars, inits, stopped>>

\* usbh_msc_run: a BLKDEV of zeros, for which the heap gives any free memory
Alloc(d) ==
  /\ Moves(d, "named", "find")
  /\ \E b \in Blocks :
       /\ \A e \in there : user[e] # b
       /\ bdev' = [bdev EXCEPT ![d] = b] /\ user' = [user EXCEPT ![d] = b]
       /\ parts' = [parts EXCEPT ![b] = Zeros] /\ UNCHANGED fs
       /\ Stops("used", \E e \in Sticks \ {d} : where[e] \notin {"out", "named", "done"} /\ bdev[e] = b)
  /\ UNCHANGED <<devlist, bufferVars, there, slot, table, inits>>

\* sd_init: sd_dev is cleared, and a file system in it is lost.
SdInit ==
  /\ inits < MaxInits /\ inits' = inits + 1
  /\ Moves(Card, "out", "find") \/ Moves(Card, "done", "find")
  /\ parts' = [parts EXCEPT ![CardBlock] = Zeros] /\ fs' = fs \ {CardBlock}
  /\ Stops("again", SlotsOf(CardBlock) # {})
  /\ UNCHANGED <<devlist, bufferVars, there, user, bdev, slot, table>>

\* f_initdev: the first free slot; without one it fails.
FirstFree == CHOOSE i \in SlotsOf(None) : \A j \in SlotsOf(None) : i <= j

Find(d) ==
  /\ IF SlotsOf(None) = {} THEN Moves(d, "find", "done") /\ UNCHANGED slot
     ELSE Moves(d, "find", "store") /\ slot' = [slot EXCEPT ![d] = FirstFree]
  /\ UNCHANGED <<devlist, bufferVars, there, user, bdev, table, placeVars, inits, stopped>>

Store(d) ==
  /\ Moves(d, "store", "read")
  /\ devlist' = [devlist EXCEPT ![slot[d]] = bdev[d]]
  /\ parts' = [parts EXCEPT ![bdev[d]] = WholeDisk]
  /\ Stops("overwritten", devlist[slot[d]] # None)
  /\ UNCHANGED <<bufferVars, there, user, bdev, slot, table, fs, inits>>

\* The sector of a disk, or a part of it, comes into the buffer, which another thread
\* may be about to scan.
Fills(d) ==
  /\ sector_buf' = d
  /\ mixed' = (mixed \ {d}) \cup {e \in Disks \ {d} : where[e] = "got"}

\* a disk whose reads may succeed
Readable(d) == d = Card \/ d \in there

\* A disk whose first sector cannot be read stays registered.
ReadTable(d) ==
  /\ \/ Moves(d, "read", "got") /\ Readable(d) /\ Fills(d)
     \/ Moves(d, "read", "done") /\ (Fills(d) \/ UNCHANGED bufferVars)
  /\ UNCHANGED <<devlist, there, user, bdev, slot, table, placeVars, inits, stopped>>

\* The command ends, perhaps just before the stick goes, and what is in the buffer is
\* scanned; or it fails.
ScanSector(d) ==
  /\ \/ Moves(d, "got", "mount") /\ parts' = [parts EXCEPT ![bdev[d]] = ScanTable(table[sector_buf])]
     \/ Moves(d, "got", "done") /\ UNCHANGED parts
  /\ UNCHANGED <<devlist, bufferVars, there, user, bdev, slot, table, fs, inits, stopped>>

\* f_mount: the file systems read the first partition.
Mount(d) ==
  /\ Moves(d, "mount", "done") \/ (Moves(d, "mount", "keep") /\ Readable(d))
  /\ UNCHANGED <<devlist, bufferVars, there, user, bdev, slot, table, placeVars, inits, stopped>>

Keep(d) ==
  /\ Moves(d, "keep", "done")
  /\ fs' = fs \cup {bdev[d]}
  /\ UNCHANGED <<devlist, bufferVars, there, user, bdev, slot, table, parts, inits, stopped>>
-----------------------------------------------------------------------------
(* A disk goes                                                             *)

\* f_removedev: the first slot of a device is cleared.
Removed(b) ==
  [i \in 1..Slots |-> IF i \in SlotsOf(b) /\ \A j \in SlotsOf(b) : i <= j THEN None ELSE devlist[i]]

\* mutant: only a disk that was mounted is taken from the table
StopMounted(d) ==
  /\ stopped = "none" /\ d \in there /\ there' = there \ {d}
  /\ Stops("late", where[d] \in {"named", "find", "store", "keep"})
  /\ IF user[d] \notin fs THEN UNCHANGED <<devlist, fs>>
     ELSE devlist' = Removed(user[d]) /\ fs' = fs \ {user[d]}
  /\ user' = [user EXCEPT ![d] = None]
  /\ UNCHANGED <<bufferVars, threadVars, table, parts, inits>>

\* usbh_msc_stop: f_removedev, which unmounts first, and free
Stop(d) ==
  /\ stopped = "none" /\ d \in there /\ there' = there \ {d}
  /\ Stops("late", where[d] \in {"named", "find", "store", "keep"})
  /\ IF user[d] = None THEN UNCHANGED <<devlist, fs>>
     ELSE devlist' = Removed(user[d]) /\ fs' = fs \ {user[d]}
  /\ user' = [user EXCEPT ![d] = None]
  /\ UNCHANGED <<bufferVars, threadVars, table, parts, inits>>
-----------------------------------------------------------------------------
BlkInit ==
  /\ devlist = [i \in 1..Slots |-> None] /\ sector_buf = None /\ mixed = {}
  /\ there = {} /\ user = [d \in Sticks |-> None]
  /\ where = [d \in Disks |-> "out"] /\ slot = [d \in Disks |-> 0]
  /\ bdev = [d \in Disks |-> IF d = Card THEN CardBlock ELSE None]
  /\ table \in {t \in [Disks -> UNION {TablesOf[d] : d \in Disks}] : \A d \in Disks : t[d] \in TablesOf[d]}
  /\ parts = [b \in Places |-> Zeros] /\ fs = {} /\ inits = 0 /\ stopped = "none"

BlkNext ==
  \/ \E d \in Sticks : Connect(d) \/ Alloc(d) \/ Stop(d)
  \/ SdInit
  \/ \E d \in Disks : Find(d) \/ Store(d) \/ ReadTable(d) \/ ScanSector(d) \/ Mount(d) \/ Keep(d)

BlkSpec == BlkInit /\ [][BlkNext]_blkVars
-----------------------------------------------------------------------------
(* Properties.                                                             *)

\* Whatever threads and the hub thread do in between each other, until one of the
\* faults: the table has no stick that is gone, none twice, every device whose
\* thread has entered it and every one that is mounted.
DevicesListed ==
  stopped = "none" =>
    /\ \A i \in 1..Slots : devlist[i] \in Blocks => \E d \in there : user[d] = devlist[i]
    /\ \A i, j \in 1..Slots : devlist[i] = devlist[j] /\ devlist[i] # None => i = j
    /\ \A d \in Disks : where[d] \in {"read", "got", "mount", "keep"} /\ Readable(d) => SlotsOf(bdev[d]) # {}
    /\ \A b \in fs : SlotsOf(b) # {}

Legal(entries) == \A i \in 1..4 : IsEmpty(entries[i]) \/ ~IllegalEntry(entries[i])

\* The partitions of a disk whose table is legal are its entries that are not empty,
\* in order, or the whole disk when all are; unless the sector of another disk has
\* come into the buffer before the table was scanned.
PartitionsScanned ==
  \A d \in Disks : stopped = "none" /\ where[d] = "mount" /\ d \notin mixed /\ Legal(table[d]) =>
    LET mine == {i \in 1..4 : ~IsEmpty(table[d][i])}
        found == parts[bdev[d]]
    IN  /\ mine = {} => found[1] = [start |-> 0, size |-> DiskSize]
        /\ \A i \in mine : LET p == Cardinality({j \in mine : j <= i})
                           IN  found[p].start = table[d][i].start /\ found[p].size = table[d][i].size
        /\ \A p \in 1..4 : p > Cardinality(mine) /\ p > 1 => found[p].size = 0
=============================================================================
