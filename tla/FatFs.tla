-------------------------------- MODULE FatFs --------------------------------
(***************************************************************************)
(* The FAT file system (src/tntfs/fs_fat.c): looking up a path, listing,   *)
(* opening, seeking and reading, one step per read of the disk.            *)
(*                                                                         *)
(* A volume is a record: its type; root, the sectors of a FAT12/16 root;   *)
(* rootCl, the first cluster of a FAT32 root; next, the FAT, with 0 for    *)
(* the end of a chain; sect, what the sectors of directories hold.  A      *)
(* sector is <<c, k>>, sector k of cluster c, or <<0, i>>, sector i of the *)
(* root.  File data are told apart by their sectors, and sizes and offsets *)
(* are in sectors.                                                         *)
(*                                                                         *)
(* dbuf and fbuf say what the two buffers really hold, data_cluster and    *)
(* fat_sector what the code takes them for.  A read that fails leaves a    *)
(* part of the new sectors; its error is negative, or positive as the      *)
(* timeouts of the SD card are.                                            *)
(***************************************************************************)
EXTENDS FileCall

CONSTANTS
  FatPer        \* FAT entries per sector of the FAT

ASSUME FatAssumption == FatPer \in Nat \ {0}

VARIABLES
  dbuf, fbuf,                  \* what the buffers really hold
  data_cluster, fat_sector,    \* what they are taken for
  cur_dir,                     \* the entry that was found last
  f_offset, f_cluster,         \* the position of the open file
  opened                       \* the entry that was last opened, or Lost

fatVars == <<dbuf, fbuf, data_cluster, fat_sector, cur_dir, f_offset, f_cluster, opened>>

NoEntry == [kind |-> "none", name |-> NoName, first |-> 0, size |-> 0]
Lost == [NoEntry EXCEPT !.kind = "lost"]

Cluster(c) == [k \in 1..ClusterSize |-> <<c, k>>]
Held(s) == IF s \in DOMAIN Volume.sect THEN Volume.sect[s] ELSE <<>>
Fat32 == Volume.type = "fat32"

\* The entries of the first sectors, and of all, one after the other.
EntriesUpto(sectors) ==
  LET upto[n \in 0..Len(sectors)] == IF n = 0 THEN <<>> ELSE upto[n - 1] \o Held(sectors[n]) IN upto
EntriesIn(sectors) == EntriesUpto(sectors)[Len(sectors)]
-----------------------------------------------------------------------------
(* Reading the disk                                                        *)

\* a read into dbuf: got is "ok" or the sign of the error
ReadSectors(new, got) ==
  IF got = "ok" THEN dbuf' = new /\ UNCHANGED fails
  ELSE Fail /\ \E k \in 0..ClusterSize : dbuf' = [j \in 1..ClusterSize |-> IF j <= k THEN new[j] ELSE dbuf[j]]

\* mutant: one sector is read, whatever the size of a cluster
ReadClusterOne(c, got) ==
  /\ got \in {"ok", "negative"}
  /\ IF data_cluster = c THEN got = "ok" /\ UNCHANGED <<dbuf, data_cluster, fails>>
     ELSE /\ ReadSectors([dbuf EXCEPT ![1] = <<c, 1>>], got)
          /\ data_cluster' = IF got = "ok" THEN c ELSE data_cluster

\* read_cluster: every error is -EIO
ReadCluster(c, got) ==
  /\ got \in {"ok", "negative"}
  /\ IF data_cluster = c THEN got = "ok" /\ UNCHANGED <<dbuf, data_cluster, fails>>
     ELSE /\ ReadSectors(Cluster(c), got)
          /\ data_cluster' = IF got = "ok" THEN c ELSE data_cluster

FatSector(c) == c \div FatPer

\* What sector s of the FAT says of cluster c; the buffer is not a FAT sector
\* before the first has been read.
FatValues(s, c) ==
  LET n == (s * FatPer) + (c % FatPer)
  IN  IF s = Nothing THEN DOMAIN Volume.next
      ELSE {IF n \in DOMAIN Volume.next THEN Volume.next[n] ELSE 0}

\* read_fat
ReadFat(c, got) ==
  IF fat_sector = FatSector(c) THEN got = "ok" /\ UNCHANGED <<fbuf, fat_sector, fails>>
  ELSE /\ IF got = "ok" THEN fbuf' = FatSector(c) /\ UNCHANGED fails
          ELSE Fail /\ fbuf' \in {fbuf, FatSector(c)}
       /\ fat_sector' = IF got = "ok" THEN FatSector(c) ELSE fat_sector

\* next_cluster: the entry is read from the buffer unless the error is negative.  It
\* is asked for the one after 0 when it has failed in the loop that locates the
\* position, which does not look at what it gets.
NextCluster(c, n) ==
  \/ /\ ReadFat(c, "ok") /\ n \in FatValues(fbuf', c)
     /\ IF c = 0 THEN Unnoticed ELSE UNCHANGED trust
  \/ ReadFat(c, "negative") /\ n = 0 /\ Noticed
  \/ ReadFat(c, "positive") /\ n \in FatValues(fbuf', c) /\ Unnoticed
-----------------------------------------------------------------------------
(* Directories: fat_find, called by f_find and f_list for each component   *)

\* A directory scan starts at cluster c, 0 for a root that is no chain.
Scan(c) == [call EXCEPT !.dir = c, !.i = 0, !.lfn = FALSE]

RootCluster == IF Fat32 THEN Volume.rootCl ELSE 0

\* f_stat, f_open and f_list of a path
FatFind(op, path) ==
  /\ \E tail \in Tails(path) :
       Starts([NoCall EXCEPT !.op = op, !.path = path, !.rest = path, !.dir = RootCluster, !.tail = tail,
                             !.list = (path = <<>>), !.cached = data_cluster], "dir")
  /\ UNCHANGED fatVars

\* A FAT12/16 root sector is read into dbuf, and data_cluster stays.
ReadRoot ==
  /\ pc = "dir" /\ call.dir = 0 /\ ~Fat32
  /\ \E got \in {"ok", "negative", "positive"} :
       /\ IF got = "ok" THEN dbuf' = [dbuf EXCEPT ![1] = <<0, call.i>>] /\ UNCHANGED fails
          ELSE Fail /\ dbuf' \in {dbuf, [dbuf EXCEPT ![1] = <<0, call.i>>]}
       /\ IF got = "negative" THEN Finish(NoResult) /\ Noticed
          ELSE GoOn("scan") /\ IF got = "ok" THEN UNCHANGED trust ELSE Unnoticed
  /\ UNCHANGED <<vol, fbuf, data_cluster, fat_sector, cur_dir, f_offset, f_cluster, opened, call>>

ReadDir ==
  /\ pc = "dir" /\ call.dir # 0
  /\ \E got \in {"ok", "negative"} :
       /\ ReadCluster(call.dir, got)
       /\ IF got = "ok" THEN GoOn("scan") /\ UNCHANGED trust
          ELSE Finish(NoResult) /\ Noticed
  /\ UNCHANGED <<vol, fbuf, fat_sector, cur_dir, f_offset, f_cluster, opened, call>>

\* buf_size: a FAT12/16 directory is scanned one sector per cluster
Visible(buffer) == IF Fat32 THEN buffer ELSE SubSeq(buffer, 1, 1)

\* make_dosname: each dot begins the extension, so the names of the dots themselves
\* become eleven blanks, as one that is too long does.
Dosname(name) == IF name \in {".", ".."} THEN "" ELSE name

\* The name in 8.3 form is compared with the entry's, and the long name as
\* strcasecmp does it.
Named(e, lfn, path) == Dosname(Head(path)) = e.name \/ (lfn /\ Strcasecmp(path) = 0)

\* have_lfn after an entry
LfnAfter(lfn, e) ==
  CASE e.kind = "lfn" -> TRUE
    [] e.kind \in {"free", "label"} -> lfn
    [] OTHER -> FALSE

\* mutant: have_lfn does not go over to the next buffer
LfnForgotten(entries, lfn) ==
  LET before[n \in 1..(Len(entries) + 1)] ==
        IF n = 1 THEN FALSE ELSE LfnAfter(before[n - 1], entries[n - 1])
  IN  before

\* The scan of a buffer: whether a long name comes before each entry, and the entries that
\* are neither free nor a label.
LfnBefore(entries, lfn) ==
  LET before[n \in 1..(Len(entries) + 1)] ==
        IF n = 1 THEN lfn ELSE LfnAfter(before[n - 1], entries[n - 1])
  IN  before

Shown(entries) == {n \in DOMAIN entries : entries[n].kind \in {"file", "dir", "dots"}}

\* The fd of the open file is the place of cur_dir.
Replaces(e) == opened' = IF opened \in {NoEntry, e} THEN opened ELSE Lost

\* fat_open
Opens(e) == opened' = e /\ f_offset' = 0 /\ f_cluster' = 0

\* An entry is found: f_find goes on with it, or the operation has its entry.
Found(e) ==
  LET rest == Tail(call.rest)
  IN  IF rest # <<>> /\ e.kind # "dir"
      THEN Finish(NoResult) /\ UNCHANGED <<cur_dir, call, opened, f_offset, f_cluster>>
      ELSE /\ cur_dir' = e
           /\ IF rest # <<>> THEN
                /\ GoOn("dir") /\ call' = [Scan(e.first) EXCEPT !.rest = rest]
                /\ UNCHANGED <<f_offset, f_cluster>> /\ Replaces(e)
              ELSE IF call.op = "list" /\ e.kind = "dir" THEN
                /\ GoOn("dir") /\ call' = [Scan(e.first) EXCEPT !.rest = <<>>, !.list = TRUE]
                /\ UNCHANGED <<f_offset, f_cluster>> /\ Replaces(e)
              ELSE
                /\ Finish(IF call.op = "list" THEN Count(1) ELSE Entry(e))
                /\ UNCHANGED call
                /\ IF call.op = "open" THEN Opens(e)
                   ELSE UNCHANGED <<f_offset, f_cluster>> /\ Replaces(e)

ScanBuffer ==
  LET entries == EntriesIn(Visible(dbuf))
      before == LfnBefore(entries, call.lfn)
      hits == {n \in Shown(entries) : ~call.list /\ Named(entries[n], before[n], call.rest)}
  IN  /\ pc = "scan"
      /\ IF hits # {} THEN Found(entries[Least(hits)])
         ELSE /\ GoOn("next")
              /\ call' = [call EXCEPT !.lfn = before[Len(entries) + 1],
                                      !.count = @ + IF call.list THEN Cardinality(Shown(entries)) ELSE 0]
              /\ UNCHANGED <<cur_dir, opened, f_offset, f_cluster>>
      /\ UNCHANGED <<vol, dbuf, fbuf, data_cluster, fat_sector, trust, fails>>

NextRootSector ==
  /\ pc = "next" /\ call.dir = 0
  /\ IF call.i + 1 = Volume.root THEN NotFound /\ UNCHANGED call
     ELSE GoOn("dir") /\ call' = [call EXCEPT !.i = @ + 1]
  /\ UNCHANGED <<vol, fatVars, trust, fails>>

\* mutant: the scan goes on in the cluster it was in
NextDirClusterStays ==
  /\ pc = "next" /\ call.dir # 0
  /\ \E n \in DOMAIN Volume.next :
       /\ NextCluster(call.dir, n)
       /\ IF n = 0 THEN NotFound ELSE GoOn("dir")
  /\ UNCHANGED <<vol, call, dbuf, data_cluster, cur_dir, f_offset, f_cluster, opened>>

NextDirCluster ==
  /\ pc = "next" /\ call.dir # 0
  /\ \E n \in DOMAIN Volume.next :
       /\ NextCluster(call.dir, n)
       /\ IF n = 0 THEN NotFound /\ UNCHANGED call
          ELSE GoOn("dir") /\ call' = [call EXCEPT !.dir = n]
  /\ UNCHANGED <<vol, dbuf, data_cluster, cur_dir, f_offset, f_cluster, opened>>
-----------------------------------------------------------------------------
(* The open file: f_lseek and f_read, whose fd is the place of cur_dir     *)

\* mutant: the cluster of the old position stays
LseekKeeps(offset) ==
  /\ pc = "idle" /\ opened # NoEntry
  /\ offset \in 0..(cur_dir.size - 1)
  /\ f_offset' = offset
  /\ UNCHANGED <<vol, dbuf, fbuf, data_cluster, fat_sector, cur_dir, f_cluster, opened, callVars>>

\* fat_lseek to offset, from where whence says; any other offset is -EINVAL.
Lseek(offset) ==
  /\ pc = "idle" /\ opened # NoEntry
  /\ offset \in 0..(cur_dir.size - 1)
  /\ f_offset' = offset /\ f_cluster' = 0
  /\ UNCHANGED <<vol, dbuf, fbuf, data_cluster, fat_sector, cur_dir, opened, callVars>>

\* fat_read, up to the loop
Read(n) ==
  LET size == IF f_offset + n > cur_dir.size THEN cur_dir.size - f_offset ELSE n
  IN  /\ opened # NoEntry
      /\ Starts([NoCall EXCEPT !.op = "read", !.size = size, !.remain = size, !.from = f_offset,
                    !.vcn = IF f_cluster = 0 THEN f_offset \div ClusterSize ELSE 0,
                    !.at = f_offset % ClusterSize,
                    !.cached = IF dbuf[1][1] = 0 THEN data_cluster ELSE Nothing], "locate")
      /\ f_cluster' = IF f_cluster = 0 THEN cur_dir.first ELSE f_cluster
      /\ UNCHANGED <<dbuf, fbuf, data_cluster, fat_sector, cur_dir, f_offset, opened>>

\* the cluster of the position, when it is not known
Locate ==
  /\ pc = "locate"
  /\ IF call.vcn = 0 THEN
       GoOn("copy") /\ UNCHANGED <<call, f_cluster, fbuf, fat_sector, trust, fails>>
     ELSE \E n \in DOMAIN Volume.next :
       /\ NextCluster(f_cluster, n)
       /\ f_cluster' = n /\ call' = [call EXCEPT !.vcn = @ - 1] /\ GoOn(pc)
  /\ UNCHANGED <<vol, dbuf, data_cluster, cur_dir, f_offset, opened>>

\* A round of the loop: the result of read_cluster is not looked at.
Copy ==
  LET n == ReadSize(ClusterSize - call.at, call.remain)
  IN  /\ pc = "copy"
      /\ IF call.remain = 0 \/ f_cluster = 0 THEN
           /\ Finish([kind |-> "data", n |-> call.size - call.remain, out |-> call.out])
           /\ UNCHANGED <<dbuf, data_cluster, f_offset, call, trust, fails>>
         ELSE
           /\ \E got \in {"ok", "negative"} :
                /\ ReadCluster(f_cluster, got)
                /\ IF got = "ok" THEN UNCHANGED trust ELSE Unnoticed
           /\ IF Overrun(n) # "none" THEN Break(Overrun(n)) /\ UNCHANGED <<f_offset, call>>
              ELSE
                /\ call' = [call EXCEPT !.out = @ \o SubSeq(dbuf', call.at + 1, call.at + n),
                                        !.remain = @ - n, !.at = @ + n]
                /\ f_offset' = f_offset + n
                /\ GoOn(IF call.at + n >= ClusterSize THEN "turn" ELSE "copy")
      /\ UNCHANGED <<vol, fbuf, fat_sector, cur_dir, f_cluster, opened>>

\* the next cluster of the file
Turn ==
  /\ pc = "turn"
  /\ \E n \in DOMAIN Volume.next : NextCluster(f_cluster, n) /\ f_cluster' = n
  /\ call' = [call EXCEPT !.at = 0] /\ pc' = "copy"
  /\ UNCHANGED <<vol, dbuf, data_cluster, cur_dir, f_offset, opened, result, fault>>
-----------------------------------------------------------------------------
\* fat_mount: nothing is cached
FatInit ==
  /\ dbuf = [k \in 1..ClusterSize |-> <<Nothing, k>>] /\ fbuf = Nothing
  /\ data_cluster = Nothing /\ fat_sector = Nothing
  /\ cur_dir = NoEntry /\ f_offset = 0 /\ f_cluster = 0 /\ opened = NoEntry

FatStep ==
  \/ ReadRoot \/ ReadDir \/ ScanBuffer \/ NextRootSector \/ NextDirCluster
  \/ Locate \/ Copy \/ Turn
  \/ Return /\ UNCHANGED fatVars
-----------------------------------------------------------------------------
(* What the operations are for                                             *)

\* The clusters that a FAT leads to from c on: a chain, and then 0
Follow(next, c) ==
  LET at[n \in 0..Cardinality(DOMAIN next)] == IF n = 0 THEN c ELSE next[at[n - 1]] IN at

\* the clusters of a chain, from c on
Chain(c) ==
  LET at == Follow(Volume.next, c)
  IN  [n \in 1..Cardinality({m \in DOMAIN at : at[m] # 0}) |-> at[n - 1]]

\* What is written on a volume: an entry of the FAT names another one, and a chain
\* ends; a file has clusters for its size, and the root has a place.  The entries of the
\* dots come first in a directory, and no others name cluster 0.
ChainEnds(next, c) == c \in DOMAIN next /\ Follow(next, c)[Cardinality(DOMAIN next)] = 0
HasClusters(next, e) ==
  LET at == Follow(next, e.first)
  IN  /\ ChainEnds(next, e.first) /\ e.size \in Nat
      /\ \A p \in 0..(e.size - 1) : (p \div ClusterSize) \in DOMAIN at /\ at[p \div ClusterSize] # 0
OnFatVolume(v) ==
  /\ IsFiniteSet(DOMAIN v.next) /\ 0 \in DOMAIN v.next /\ DOMAIN v.next \subseteq Nat
  /\ v.next \in [DOMAIN v.next -> DOMAIN v.next] /\ v.next[0] = 0
  /\ v.root \in Nat
  /\ IF v.type = "fat32" THEN v.rootCl # 0 /\ ChainEnds(v.next, v.rootCl) ELSE v.root # 0
  /\ \A s \in DOMAIN v.sect :
       /\ v.sect[s] \in Seq([kind : STRING, name : STRING, first : DOMAIN v.next, size : Nat])
       /\ \A n \in DOMAIN v.sect[s] :
            /\ v.sect[s][n].kind = "file" => HasClusters(v.next, v.sect[s][n])
            /\ v.sect[s][n].kind = "dir" => ChainEnds(v.next, v.sect[s][n].first) /\ v.sect[s][n].first # 0
            /\ v.sect[s][n].kind = "dots" <=> v.sect[s][n].name \in {".", ".."}
            /\ v.sect[s][n].kind = "dots" =>
                 /\ s[1] # 0 /\ s[2] = 1 /\ \A c \in DOMAIN v.next : v.next[c] # s[1]
                 /\ \A m \in 1..n : v.sect[s][m].kind = "dots"

ASSUME FatVolumesAssumption ==
  \A v \in DOMAIN VolumeOf : VolumeOf[v].type # "ntfs" => OnFatVolume(VolumeOf[v])

\* The sectors of a directory, in order, of those that a scan gets to see.
SectorsOf(chain, width) ==
  [n \in 1..(width * Len(chain)) |-> <<chain[((n - 1) \div width) + 1], ((n - 1) % width) + 1>>]
Sectors(c) ==
  IF c = 0 THEN [i \in 1..Volume.root |-> <<0, i - 1>>]
  ELSE SectorsOf(Chain(c), IF Fat32 THEN ClusterSize ELSE 1)

\* A long name stands before its entry, with nothing between but free entries and labels.
Long(es, n) ==
  \E j \in 1..(n - 1) : es[j].kind = "lfn" /\ \A i \in (j + 1)..(n - 1) : es[i].kind \in {"free", "label"}

\* The entries that a path's first name is taken for, and the first of them.
Meant(es, path) == {n \in Shown(es) : es[n].name = Dosname(Head(path)) \/ (Long(es, n) /\ Strcasecmp(path) = 0)}
EntryIn(es, path) == IF Meant(es, path) = {} THEN NoEntry ELSE es[Least(Meant(es, path))]

\* The entry of a path, and the directories that the way to it leads through.
OnPath(path) ==
  LET step[n \in 0..Len(path)] ==
        IF n = 0 THEN [NoEntry EXCEPT !.kind = "dir", !.first = RootCluster]
        ELSE IF step[n - 1].kind # "dir" THEN NoEntry
        ELSE EntryIn(EntriesIn(Sectors(step[n - 1].first)), SubSeq(path, n, Len(path)))
  IN  step
Lookup(path) == OnPath(path)[Len(path)]

DirsOn(path) == {n \in 0..Len(path) : OnPath(path)[n].kind = "dir"}
ClustersOf(chain) == {chain[i] : i \in DOMAIN chain}
Through(path) == UNION {ClustersOf(Chain(OnPath(path)[n].first)) : n \in DirsOn(path)}

Expected(path) ==
  LET e == Lookup(path)
  IN  IF e.kind = "none" THEN NoResult
      ELSE IF call.op # "list" THEN Entry(e)
      ELSE IF e.kind # "dir" THEN Count(1)
      ELSE Count(Cardinality(Shown(EntriesIn(Sectors(e.first)))))

\* The cluster of position p of a file, 0 past its end, and the sector.
Nth(e, n) == LET at == Follow(Volume.next, e.first) IN IF n \in DOMAIN at THEN at[n] ELSE 0
ClusterAt(e, p) == Nth(e, p \div ClusterSize)
SectorAt(e, p) == <<ClusterAt(e, p), (p % ClusterSize) + 1>>

(* Properties.                                                             *)

\* A buffer holds what it is taken for until a read fails, but for the first
\* sector of dbuf, where a FAT12/16 root sector may have come without a trace.
BuffersHonest ==
  trust = "clean" =>
    /\ fbuf = fat_sector
    /\ data_cluster # Nothing =>
         \A k \in 1..ClusterSize :
           dbuf[k] = <<data_cluster, k>> \/ (~Fat32 /\ k = 1 /\ dbuf[k][1] = 0)

AsExpected(expected) ==
  \/ result = expected
  \/ trust = "failed" /\ result.kind = "none"
  \/ trust = "failed" /\ result.kind = "count" /\ result.n <= expected.n

\* A path of names in 8.3 form leads to its entry, one that strcasecmp takes for any
\* long name to the first entry that has one, and any other long name to nothing;
\* a listing has all entries of the directory, of those in the first sector of each
\* cluster on FAT12/16; the dots are names of nothing.  On FAT12/16, a path through a
\* directory of which a cluster is cached when the lookup starts is not claimed: the
\* root is read into the place of the cluster.  A lookup in which a read fails with a
\* negative error finds the entry, a part of the listing, or nothing.
FindRight ==
  pc = "done" /\ call.op \in {"stat", "open", "list"} /\ trust # "spoilt" /\
  (Fat32 \/ call.cached \notin Through(call.path)) => AsExpected(Expected(call.path))

\* A read returns the sectors of the file at its position, as many as were asked
\* for and are there, or fewer when the FAT could not be read; and the cluster
\* that is kept is the one of the position.  Reads that do not end with their
\* cluster break.  Not claimed are reads after another entry was looked up, and of
\* the cached cluster when a FAT12/16 root sector has come over it.
ReadRight ==
  opened.kind = "file" =>
    /\ pc = "done" /\ call.op = "read" /\ trust # "spoilt" /\
       (call.cached = Nothing \/ call.cached # ClusterAt(opened, call.from)) =>
         /\ result.out = [p \in 1..result.n |-> SectorAt(opened, call.from + p - 1)]
         /\ trust = "clean" => result.n = call.size
    /\ pc = "idle" /\ trust = "clean" /\ f_cluster # 0 =>
         f_cluster = ClusterAt(opened, f_offset)
=============================================================================
