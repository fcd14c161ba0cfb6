--------------------------------- MODULE Vfs ---------------------------------
(***************************************************************************)
(* The file functions (src/tntfs/fs_util.c) on the volume of one disk that *)
(* is mounted, with FatFs and NtfsFs below them.  BlkDev has the disks     *)
(* that come and go.                                                       *)
(*                                                                         *)
(* Calls come one at a time, and the disk stays: nothing in the code locks *)
(* a file system or keeps it while a call runs.                            *)
(***************************************************************************)
EXTENDS FatFs, NtfsFs

CONSTANTS
  Paths,        \* the paths that are asked for
  Sizes         \* the sizes that are read, and the offsets that are sought

ASSUME VfsAssumption == Sizes \subseteq Nat /\ Paths \subseteq Seq(STRING)

vars == <<callVars, fatVars, ntfsVars>>

Ntfs == Volume.type = "ntfs"

FileCall1 ==
  \/ \E op \in {"stat", "open", "list"}, path \in Paths :
       (path = <<>> => op = "list") /\
       IF Ntfs THEN NtfsFind(op, path) /\ UNCHANGED fatVars
       ELSE FatFind(op, path) /\ UNCHANGED ntfsVars
  \/ \E n \in Sizes :
       \/ Ntfs /\ (NtfsLseek(n) \/ NtfsRead(n)) /\ UNCHANGED fatVars
       \/ ~Ntfs /\ (Lseek(n) \/ Read(n)) /\ UNCHANGED ntfsVars

Step == IF Ntfs THEN NtfsStep /\ UNCHANGED fatVars ELSE FatStep /\ UNCHANGED ntfsVars

Init == CallInit /\ FatInit /\ NtfsInit /\ vol \in DOMAIN VolumeOf

Next == FileCall1 \/ Step

\* A call that runs goes on: every read of a disk ends, at the latest with its
\* timeout.
Spec == Init /\ [][Next]_vars /\ WF_vars(Step)
-----------------------------------------------------------------------------
(* Properties.                                                             *)

\* A path leads to its file and a listing is complete, on either file system,
\* as FindRight and NtfsFindRight say.
FilesFound == IF Ntfs THEN NtfsFindRight ELSE FindRight

\* A read returns what is in the file at its position, as ReadRight and
\* NtfsReadRight say.
FilesRead == IF Ntfs THEN NtfsReadRight ELSE ReadRight

\* Every call of a file function returns, unless it breaks: with chains that end,
\* no error of a read makes it go round for ever.
CallsReturn == pc \notin {"idle", "broken"} ~> pc \in {"idle", "broken"}

\* The run lists of a volume lead through its files, as RunsRight says.
RunsWalked == Ntfs /\ pc # "idle" => RunsRight
=============================================================================
