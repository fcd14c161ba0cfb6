-------------------------------- MODULE MCVfs --------------------------------
(***************************************************************************)
(* Small instances of Vfs and of BlkDev, the two halves of the code in     *)
(* fs_util.c: a disk with a FAT32, a FAT16 or an NTFS volume that stays;   *)
(* two sticks that come and go, and the card.  They have no variable in    *)
(* common, so that a behaviour is one of the one or of the other.          *)
(***************************************************************************)
EXTENDS Vfs, BlkDev, TLC

CONSTANTS First, Second     \* sticks

VARIABLE half   \* "files" or "devices"

E(kind, name, first, size) == [kind |-> kind, name |-> name, first |-> first, size |-> size]

\* The root is in clusters 2 and 5, directory d in 6 and 3, file f in 7, 4 and 9, file g
\* of d in 8, and directory e of d, with file h in 11, in 10.  The long name of f stands at the end of cluster 2 and f in 5;
\* the FAT has two sectors.
SmallFat32 ==
  [type |-> "fat32", rootCl |-> 2, root |-> 0,
   next |-> [c \in 0..11 |-> CASE c = 2 -> 5 [] c = 6 -> 3 [] c = 7 -> 4 [] c = 4 -> 9 [] OTHER -> 0],
   sect |-> (<<2, 1>> :> <<E("label", "v", 0, 0)>>)
         @@ (<<2, 2>> :> <<E("lfn", "long name", 0, 0)>>)
         @@ (<<5, 1>> :> <<E("file", "f", 7, 6), E("free", "x", 0, 0), E("dir", "d", 6, 0)>>)
         @@ (<<6, 1>> :> <<E("dots", "..", 0, 0), E("dir", "e", 10, 0)>>)
         @@ (<<3, 2>> :> <<E("file", "g", 8, 2)>>)
         @@ (<<10, 1>> :> <<E("dots", ".", 10, 0), E("dots", "..", 6, 0), E("file", "h", 11, 2)>>)]

\* The same with a root of two sectors and a shorter file; the scan does not see
\* file h.
SmallFat16 ==
  [type |-> "fat16", rootCl |-> 0, root |-> 2,
   next |-> [c \in 0..7 |-> IF c = 3 THEN 6 ELSE 0],
   sect |-> (<<0, 0>> :> <<E("label", "v", 0, 0), E("lfn", "long name", 0, 0), E("file", "f", 4, 2)>>)
         @@ (<<0, 1>> :> <<E("dir", "d", 3, 0)>>)
         @@ (<<3, 1>> :> <<E("dots", "..", 0, 0)>>)
         @@ (<<6, 1>> :> <<E("file", "g", 7, 2)>>)
         @@ (<<6, 2>> :> <<E("file", "h", 5, 2)>>)]

R(len, delta) == [len |-> len, delta |-> delta, bytes |-> 2]
Record0 == [good |-> TRUE, dir |-> FALSE, index |-> <<>>, alloc |-> <<>>,
            resident |-> FALSE, size |-> 0, valid |-> 0, runs |-> <<>>, name |-> "x"]

\* The table is in two runs.  The root has the entries of its index root and of two
\* index blocks.  Record 6 is a directory, 7 a file of three clusters in two runs, of
\* which the last is not written yet, 8 a file that lies in its record, 9 is bad.
SmallNtfs(root, first) ==
  [type |-> "ntfs", mft |-> <<R(7, 1), R(4, 9)>>,
   recs |-> (0 :> Record0)
         @@ (5 :> [Record0 EXCEPT !.dir = TRUE, !.index = root, !.alloc = <<R(1, 20), R(1, 2)>>])
         @@ (6 :> [Record0 EXCEPT !.dir = TRUE, !.index = <<8>>])
         @@ (7 :> [Record0 EXCEPT !.name = "long", !.size = 6, !.valid = 3, !.runs = <<R(2, 15), R(1, 9)>>])
         @@ (8 :> [Record0 EXCEPT !.resident = TRUE, !.size = 2])
         @@ (9 :> [Record0 EXCEPT !.good = FALSE]),
   blocks |-> (20 :> first) @@ (22 :> <<9>>)]

\* What strcasecmp takes for any name is the first entry: each kind comes first.
NtfsVolume ==
  [ntfsRuns |-> SmallNtfs(<<0>>, <<7, 6>>), ntfsDir |-> SmallNtfs(<<0, 6>>, <<7>>),
   ntfsResident |-> SmallNtfs(<<8>>, <<6, 0>>), ntfsBad |-> SmallNtfs(<<>>, <<>>)]
SmallVolumes ==
  [v \in {"fat32", "fat16"} \cup DOMAIN NtfsVolume |->
     CASE v = "fat32" -> SmallFat32 [] v = "fat16" -> SmallFat16 [] OTHER -> NtfsVolume[v]]
SmallPaths == {<<>>, <<"aa">>, <<"long">>, <<"d", "g">>, <<"d", "..">>, <<"f", "g">>, <<"d", "e", "h">>}

\* One and two runs, forward and backward.
SmallRuns == [len : 1..3, delta : -3..3, bytes : {1, 2}]
SmallRunLists ==
  {l \in UNION {[1..n -> SmallRuns] : n \in 1..2} :
     l[1].delta > 0 /\ (Len(l) = 1 \/ l[1].delta + l[Len(l)].delta > 0)}
-----------------------------------------------------------------------------
Nought == [flag |-> 0, start |-> 0, size |-> 0]
Part(start, size) == [flag |-> 0, start |-> start, size |-> size]

\* The first stick has no partition, two behind empty entries, or one that ends behind
\* the disk; the second stick and the card have one and two.
SmallTables ==
  [d \in {First, Second, Card} |->
     CASE d = First -> {<<Nought, Nought, Nought, Nought>>,
                        <<Nought, Part(1, 3), Nought, Part(4, 4)>>, <<Nought, Part(1, 3), Nought, Part(4, 5)>>}
       [] d = Second -> {<<Part(1, 2), Nought, Nought, Nought>>}
       [] d = Card -> {<<Part(2, 2), Nought, Part(4, 1), Nought>>}]

HalvesInit ==
  /\ half \in {"files", "devices"}
  /\ Init /\ (half = "devices" => vol = CHOOSE v \in DOMAIN VolumeOf : TRUE)
  /\ BlkInit /\ (half = "files" => \A d \in Disks : table[d] = CHOOSE t \in TablesOf[d] : TRUE)

HalvesNext ==
  \/ half = "files" /\ Next /\ UNCHANGED <<half, blkVars>>
  \/ half = "devices" /\ BlkNext /\ UNCHANGED <<half, vars>>

\* Spec and BlkSpec, one at a time
HalvesSpec == HalvesInit /\ [][HalvesNext]_<<half, vars, blkVars>> /\ WF_vars(half = "files" /\ Step)
=============================================================================
