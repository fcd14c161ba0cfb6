-------------------------------- MODULE NtfsFs --------------------------------
(***************************************************************************)
(* The NTFS file system (src/tntfs/fs_ntfs.c): records of the master file  *)
(* table, the index of a directory, and file data through run lists.       *)
(*                                                                         *)
(* A volume is a record: mft, the runs of the table; recs, its records,    *)
(* each good or not, a directory or a file, with the entries of its index  *)
(* root and the runs of its index blocks, or with its size, its valid size *)
(* and its runs, none when it is resident; blocks, what index blocks hold. *)
(* An entry is the record that it names; a record and an index block take  *)
(* one cluster, and sizes and offsets are in sectors.                      *)
(*                                                                         *)
(* mbuf is the record that the buffer really holds, mbuf_index the one it  *)
(* is taken for, attrs the one that the attribute pointers were set for.   *)
(***************************************************************************)
EXTENDS FileCall, NtfsRunlist

CONSTANTS
  FirstUser     \* the first record that an index shows

ASSUME NtfsAssumption == FirstUser \in Nat

VARIABLES
  mbuf, mbuf_index, attrs,     \* see above
  data_rl, alloc_rl,           \* the run lists that lie in mbuf
  block,                       \* what the data buffer holds
  n_offset, n_opened           \* f_offset, and the file that f_open returned

ntfsVars == <<mbuf, mbuf_index, attrs, data_rl, alloc_rl, block, n_offset, n_opened>>
recordVars == <<mbuf, mbuf_index, attrs, data_rl, alloc_rl>>

RootRecord == 5
Record == Volume.recs[attrs]

\* The attribute pointers do not belong to what the buffer holds.
Stale == mbuf # attrs

NtfsNames == {v \in DOMAIN VolumeOf : VolumeOf[v].type = "ntfs"}

\* the cluster where the code looks for a record, 0 if there is none
LcnOfRecord ==
  [v \in NtfsNames |-> [r \in DOMAIN VolumeOf[v].recs |-> SeekVcn(FreshRl, VolumeOf[v].mft, r).lcn]]

\* and the record that lies there
FoundAt ==
  [v \in NtfsNames |-> [r \in DOMAIN VolumeOf[v].recs |->
     LET there == {i \in DOMAIN VolumeOf[v].recs : Clusters(VolumeOf[v].mft)[i + 1] = LcnOfRecord[v][r]}
     IN  IF there = {} THEN Nothing ELSE CHOOSE i \in there : TRUE]]

Good(r) == r # Nothing /\ Volume.recs[r].good
-----------------------------------------------------------------------------
(* Reading the disk                                                        *)

\* parse_record
Parsed == attrs' = mbuf' /\ data_rl' = FreshRl /\ alloc_rl' = FreshRl

\* read_record: got is "ok", or the sign of what is returned
ReadRecord(index, got) ==
  LET lcn == LcnOfRecord[vol][index]
      new == FoundAt[vol][index]
  IN  CASE mbuf_index = index -> got = "ok" /\ UNCHANGED <<recordVars, fails>>
        [] mbuf_index # index /\ lcn = 0 -> got = "negative" /\ UNCHANGED <<recordVars, fails>>
        [] OTHER ->
             \/ /\ mbuf' = new /\ mbuf_index' = index /\ UNCHANGED fails
                /\ IF Good(new) THEN got = "ok" /\ Parsed
                   ELSE got = "negative" /\ UNCHANGED <<attrs, data_rl, alloc_rl>>
             \/ /\ got # "ok" /\ Fail /\ mbuf' \in {mbuf, new}
                /\ UNCHANGED <<mbuf_index, attrs, data_rl, alloc_rl>>

\* The error is noticed if it is negative.
TrustAfter(got) ==
  CASE got = "ok" -> UNCHANGED trust
    [] got = "negative" -> IF fails' = fails THEN UNCHANGED trust ELSE Noticed
    [] got = "positive" -> Unnoticed

Gots == {"ok", "negative", "positive"}

\* read_cluster, whose result nobody looks at; data_lcn is never set.
ReadBlock(lcn) ==
  \/ block' = lcn /\ UNCHANGED <<fails, trust>>
  \/ Fail /\ Unnoticed /\ block' \in {block, lcn}
-----------------------------------------------------------------------------
(* Directories                                                             *)

NtfsFind(op, path) ==
  /\ \E tail \in Tails(path) :
       Starts([NoCall EXCEPT !.op = op, !.path = path, !.rest = path, !.dir = RootRecord,
                             !.list = (path = <<>>), !.tail = tail], "record")
  /\ UNCHANGED ntfsVars

\* ntfs_find, ntfs_open and ntfs_stat begin with the record of call.dir.
FindRecord ==
  /\ pc = "record"
  /\ \E got \in Gots :
       /\ ReadRecord(call.dir, got) /\ TrustAfter(got)
       /\ IF got = "negative" THEN Finish(NoResult) ELSE GoOn("root")
  /\ UNCHANGED <<vol, call, block, n_offset, n_opened>>

\* process_index: the entries of an index that are shown, and those that the name
\* is taken for: strcasecmp does not look at theirs.
ShownIn(index) == {n \in DOMAIN index : index[n] >= FirstUser}
Hits(index) == IF call.list \/ Strcasecmp(call.rest) # 0 THEN {} ELSE ShownIn(index)

\* An entry is found.  What tells a file from a directory is the record of the
\* directory it was found in, so that a file is gone into like a directory.
NtfsFound(fd) ==
  LET rest == Tail(call.rest)
  IN  /\ call' = [call EXCEPT !.rest = rest, !.dir = fd, !.list = (rest = <<>> /\ call.op = "list")]
      /\ GoOn(IF rest # <<>> \/ call.op = "list" THEN "record" ELSE call.op)

\* An index is searched, and the search goes on at the next block.
Searched(index, count) ==
  IF Hits(index) # {} THEN NtfsFound(index[Least(Hits(index))])
  ELSE call' = [call EXCEPT !.count = count] /\ GoOn("blocks")

\* The index root: attr_90 is NULL in the record of a file.
FindInRoot ==
  /\ pc = "root"
  /\ IF Stale THEN Break("stale attributes") /\ UNCHANGED call
     ELSE IF ~Record.dir THEN
       (IF call.list THEN Finish(Count(1)) ELSE Break("no index")) /\ UNCHANGED call
     ELSE Searched(Record.index, IF call.list THEN Cardinality(ShownIn(Record.index)) ELSE 0)
  /\ alloc_rl' = Reset(alloc_rl)
  /\ UNCHANGED <<vol, trust, fails, mbuf, mbuf_index, attrs, data_rl, block, n_offset, n_opened>>

\* the entries that are listed up to an index block
CountOn(index) == call.count + IF call.list THEN Cardinality(ShownIn(index)) ELSE 0

IndexOf(b) == IF b \in DOMAIN Volume.blocks THEN Volume.blocks[b] ELSE <<>>

\* the index blocks, in the order of their runs
FindInBlock ==
  LET next == NextLcn(alloc_rl, Record.alloc)
  IN  /\ pc = "blocks"
      /\ alloc_rl' = next.rl
      /\ IF next.lcn = 0 THEN NotFound /\ UNCHANGED <<call, block, trust, fails>>
         ELSE ReadBlock(next.lcn) /\ Searched(IndexOf(block'), CountOn(IndexOf(block')))
      /\ UNCHANGED <<vol, mbuf, mbuf_index, attrs, data_rl, n_offset, n_opened>>
-----------------------------------------------------------------------------
(* Files                                                                   *)

\* ntfs_stat: of the record that the pointers were set for
Stat ==
  /\ pc = "stat"
  /\ \E got \in Gots :
       /\ ReadRecord(call.dir, got) /\ TrustAfter(got)
       /\ IF got = "negative" THEN Finish(NoResult)
          ELSE IF mbuf' # attrs' THEN Break("stale attributes")
          ELSE Finish(Entry(attrs'))
  /\ UNCHANGED <<vol, call, block, n_offset, n_opened>>

\* ntfs_open: f_open does not look at its result.  attr_80 is NULL in the record
\* of a directory.
Open ==
  /\ pc = "open"
  /\ \E got \in Gots :
       /\ ReadRecord(call.dir, got) /\ TrustAfter(got)
       /\ n_opened' = call.dir
       /\ IF got = "negative" THEN Finish(Entry(call.dir)) /\ UNCHANGED n_offset
          ELSE IF mbuf' # attrs' THEN Break("stale attributes") /\ UNCHANGED n_offset
          ELSE IF Volume.recs[attrs'].dir THEN Break("no data") /\ UNCHANGED n_offset
          ELSE Finish(Entry(call.dir)) /\ n_offset' = 0
  /\ UNCHANGED <<vol, call, block>>

\* ntfs_lseek to offset, by the size of the record in the buffer
NtfsLseek(offset) ==
  /\ pc = "idle" /\ n_opened # Nothing /\ ~Stale
  /\ offset \in 0..(Record.size - 1)
  /\ n_offset' = offset
  /\ UNCHANGED <<callVars, recordVars, block, n_opened>>

\* The run list lies over the attribute: its first cluster is where the code
\* looks whether the data are in the record.
SeemsResident == Record.resident \/ (data_rl.size # 0 /\ data_rl.start % ByteValues = 0)

\* ntfs_read: the data are in the record, or the run list is searched.
NtfsRead(n) ==
  LET size == IF n_offset + n > Record.size THEN Record.size - n_offset ELSE n
  IN  /\ n_opened # Nothing
      /\ Starts([NoCall EXCEPT !.op = "read", !.size = size, !.remain = size, !.from = n_offset,
                   !.at = n_offset % ClusterSize], "data")
      /\ UNCHANGED ntfsVars

FindData ==
  LET found == SeekVcn(data_rl, Record.runs, n_offset \div ClusterSize)
  IN  /\ pc = "data"
      /\ IF Stale THEN Break("stale attributes") /\ UNCHANGED <<data_rl, n_offset, call>>
         ELSE IF Record.dir THEN Finish(NoResult) /\ UNCHANGED <<data_rl, n_offset, call>>
         ELSE IF SeemsResident /\ (~Record.resident \/ call.size < 0) THEN
           Break("not resident") /\ UNCHANGED <<data_rl, n_offset, call>>
         ELSE IF SeemsResident THEN
           /\ call' = [call EXCEPT !.out = [p \in 1..call.size |-> <<attrs, n_offset + p>>]]
           /\ n_offset' = n_offset + call.size /\ UNCHANGED data_rl
           /\ Finish([kind |-> "data", n |-> call.size, out |-> call'.out])
         ELSE
           /\ data_rl' = found.rl /\ call' = [call EXCEPT !.dir = found.lcn] /\ UNCHANGED n_offset
           /\ IF found.lcn = 0 THEN Finish(NoResult) ELSE GoOn("copy blocks")
      /\ UNCHANGED <<vol, trust, fails, mbuf, mbuf_index, attrs, alloc_rl, block, n_opened>>

\* what has not been written yet is zero
Zeroed(offset) == offset >= Record.valid

\* A round of the loop.
CopyBlocks ==
  LET n == ReadSize(ClusterSize - call.at, call.remain)
      zero == Zeroed(n_offset)
      next == NextLcn(data_rl, Record.runs)
  IN  /\ pc = "copy blocks"
      /\ IF call.remain = 0 THEN
           /\ Finish([kind |-> "data", n |-> call.size, out |-> call.out])
           /\ UNCHANGED <<block, trust, fails, data_rl, n_offset, call>>
         ELSE
           /\ IF zero THEN UNCHANGED <<block, trust, fails>> ELSE ReadBlock(call.dir)
           /\ IF Overrun(n) = "caller's buffer" \/ (Overrun(n) = "dbuf" /\ ~zero)
              THEN Break(Overrun(n)) /\ UNCHANGED <<data_rl, n_offset, call>>
              ELSE /\ data_rl' = next.rl /\ n_offset' = n_offset + n
                   /\ call' = [call EXCEPT !.remain = @ - n, !.at = 0, !.dir = next.lcn,
                        !.out = @ \o [p \in 1..n |-> IF zero THEN <<0, 0>> ELSE <<block', call.at + p>>]]
                   /\ UNCHANGED <<pc, result, fault>>
      /\ UNCHANGED <<vol, mbuf, mbuf_index, attrs, alloc_rl, n_opened>>
-----------------------------------------------------------------------------
\* ntfs_mount: the record of the table is in the buffer.
NtfsInit ==
  /\ mbuf = 0 /\ mbuf_index = 0 /\ attrs = 0 /\ data_rl = FreshRl /\ alloc_rl = FreshRl
  /\ block = Nothing /\ n_offset = 0 /\ n_opened = Nothing

NtfsStep ==
  \/ FindRecord \/ FindInRoot \/ FindInBlock \/ Stat \/ Open \/ FindData \/ CopyBlocks
  \/ Return /\ UNCHANGED ntfsVars
-----------------------------------------------------------------------------
(* What the operations are for, and the properties                         *)

\* the entries of a directory, in the order of its index root and of its first blocks
EntriesOf(d) ==
  LET blocks == Clusters(Volume.recs[d].alloc)
      upto[n \in 0..Len(blocks)] == IF n = 0 THEN Volume.recs[d].index ELSE upto[n - 1] \o IndexOf(blocks[n])
  IN  upto
AllOf(d) == EntriesOf(d)[Len(Clusters(Volume.recs[d].alloc))]

\* The records that a path leads through, and the one of a path, or Nothing
RecordsOn(path) ==
  LET under(d, names) ==
        IF Strcasecmp(names) # 0 \/ ShownIn(AllOf(d)) = {} THEN Nothing ELSE AllOf(d)[Least(ShownIn(AllOf(d)))]
      step[n \in 0..Len(path)] ==
        IF n = 0 THEN RootRecord
        ELSE IF ~Good(step[n - 1]) \/ ~Volume.recs[step[n - 1]].dir THEN Nothing
        ELSE under(step[n - 1], SubSeq(path, n, Len(path)))
  IN  step
RecordOf(path) == RecordsOn(path)[Len(path)]

NtfsExpected(op, path) ==
  LET r == RecordOf(path)
  IN  IF r = Nothing \/ (op # "open" /\ ~Good(r)) THEN NoResult
      ELSE IF op # "list" THEN Entry(r)
      ELSE IF Volume.recs[r].dir THEN Count(Cardinality(ShownIn(AllOf(r)))) ELSE Count(1)

\* A name that strcasecmp takes for any other leads to the first record of the
\* root, and any other path to nothing; a listing has all entries; a call in which
\* a read fails, and the code notices it, finds the same or nothing.
NtfsFindRight ==
  pc = "done" /\ call.op \in {"stat", "open", "list"} /\ trust # "spoilt" =>
    \/ result = NtfsExpected(call.op, call.path)
    \/ trust = "failed" /\ result.kind = "none"

\* A sector of a file.
NtfsSector(r, p) ==
  LET f == Volume.recs[r]
  IN  CASE f.resident -> <<r, p + 1>>
        [] ~f.resident /\ p >= f.valid -> <<0, 0>>
        [] OTHER -> <<Clusters(f.runs)[(p \div ClusterSize) + 1], (p % ClusterSize) + 1>>

\* What is written on a volume: records name records, and runs are as OnVolume says;
\* each record has a place of its own, the table's is good, and the first cluster
\* is neither a record nor an index block.
OnNtfsVolume(v) ==
  LET recs == DOMAIN v.recs
      place(r) == Clusters(v.mft)[r + 1]
  IN  /\ recs \subseteq Nat /\ {0, RootRecord} \subseteq recs /\ v.recs[0].good
      /\ OnVolume(v.mft)
      /\ \A r \in recs : r < Len(Clusters(v.mft)) /\ place(r) # 0 /\ \A i \in recs : place(i) = place(r) => i = r
      /\ \A r \in recs :
           /\ v.recs[r].index \in Seq(recs) /\ OnVolume(v.recs[r].runs) /\ OnVolume(v.recs[r].alloc)
           /\ v.recs[r].resident \in BOOLEAN /\ v.recs[r].size \in Nat /\ v.recs[r].valid \in Nat
           /\ \A i \in DOMAIN Clusters(v.recs[r].alloc) : Clusters(v.recs[r].alloc)[i] # 0
      /\ \A b \in DOMAIN v.blocks : v.blocks[b] \in Seq(recs)

ASSUME NtfsVolumesAssumption == \A v \in NtfsNames : OnNtfsVolume(VolumeOf[v])

\* Sector p is not written yet, its cluster is in part, and the read began before it.
BehindValid(r, from, p) ==
  LET f == Volume.recs[r]
  IN  /\ ~f.resident /\ from < f.valid /\ p >= f.valid
      /\ p \div ClusterSize = f.valid \div ClusterSize

\* A read returns the sectors of the open file at its position, while the record
\* in the buffer is still that of the file; as many as were asked for or are there.
\* Not claimed is what lies behind the valid size in the cluster where that ends.
NtfsReadRight ==
  pc = "done" /\ call.op = "read" /\ result.kind = "data" /\ trust # "spoilt" /\ attrs = n_opened =>
    /\ result.n = call.size /\ Len(result.out) = call.size
    /\ \A p \in 1..call.size :
         LET at == call.from + p - 1
         IN  BehindValid(n_opened, call.from, at) \/ result.out[p] = NtfsSector(n_opened, at)
=============================================================================
