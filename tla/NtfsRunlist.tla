----------------------------- MODULE NtfsRunlist ------------------------------
(***************************************************************************)
(* The run lists of NTFS (src/tntfs/fs_ntfs.c): where the clusters of a    *)
(* file lie.  A run has a length and the signed distance of its first      *)
(* cluster from that of the run before, in so many bytes.  The RUNLIST of  *)
(* the code is the record rl: next, how many runs have been decoded, and   *)
(* the first cluster, the size and the current cluster of the last one.    *)
(***************************************************************************)
EXTENDS Integers, Sequences

CONSTANTS
  ByteValues,   \* the number of values of a byte
  WordValues,   \* and of a u32
  RunLists      \* bound: the run lists that are checked

ASSUME RunlistAssumption == ByteValues \in Nat \ {0} /\ WordValues \in Nat \ {0}

\* rl_reset, of a list that has been used or not
Reset(rl) == [rl EXCEPT !.next = 0]
FreshRl == [next |-> 0, start |-> 0, at |-> 0, size |-> 0]

\* The distance as it is decoded: char is unsigned, and nothing extends the sign.
Distance(run) == run.delta % ByteValues^run.bytes

\* mutant: the distance is taken from the start of the volume
NextRunAbsolute(rl, runs) ==
  [next |-> rl.next + 1, start |-> Distance(runs[rl.next + 1]), at |-> 0, size |-> runs[rl.next + 1].len]

\* rl_decode_next, when a run is left
NextRun(rl, runs) ==
  LET run == runs[rl.next + 1]
      before == IF rl.next = 0 THEN 0 ELSE rl.start
  IN  [next |-> rl.next + 1, start |-> (before + Distance(run)) % WordValues, at |-> 0, size |-> run.len]

\* and at the end of the list
NoRun(rl) == IF rl.next = 0 THEN [rl EXCEPT !.start = 0] ELSE rl

\* rl_next_lcn: the list afterwards, and the cluster, 0 at the end
NextLcn(rl, runs) ==
  IF rl.next # 0 /\ rl.at # rl.size - 1
  THEN [rl |-> [rl EXCEPT !.at = @ + 1], lcn |-> (rl.start + rl.at + 1) % WordValues]
  ELSE IF rl.next = Len(runs) THEN [rl |-> NoRun(rl), lcn |-> 0]
  ELSE [rl |-> NextRun(rl, runs), lcn |-> NextRun(rl, runs).start]

\* How many clusters the runs up to the k-th have: vcn_start after so many rounds
Before(runs) ==
  LET before[k \in 0..Len(runs)] == IF k = 0 THEN 0 ELSE before[k - 1] + runs[k].len IN before

\* The run list after so many rounds
Rounds(rl, runs) ==
  LET round[k \in 0..Len(runs)] == IF k = 0 THEN Reset(rl) ELSE NextRun(round[k - 1], runs) IN round

\* rl_seek_vcn: the same for cluster vcn of the file
SeekVcn(rl, runs, vcn) ==
  LET within == {k \in DOMAIN runs : vcn < Before(runs)[k]}
      k == CHOOSE j \in within : \A i \in within : j <= i
      found == Rounds(rl, runs)[k]
  IN  IF within = {} THEN [rl |-> NoRun(Rounds(rl, runs)[Len(runs)]), lcn |-> 0]
      ELSE [rl |-> found, lcn |-> (found.start + vcn - Before(runs)[k - 1]) % WordValues]
-----------------------------------------------------------------------------
(* What they are for                                                       *)

\* The first cluster of each run
RunStart(runs) ==
  LET start[k \in 0..Len(runs)] == IF k = 0 THEN 0 ELSE start[k - 1] + runs[k].delta IN start

\* The clusters of the runs up to the k-th, and of the file, in order.
ClustersUpto(runs) ==
  LET upto[k \in 0..Len(runs)] ==
        IF k = 0 THEN <<>> ELSE upto[k - 1] \o [i \in 1..runs[k].len |-> RunStart(runs)[k] + i - 1]
  IN  upto
Clusters(runs) == ClustersUpto(runs)[Len(runs)]

\* What is written on a volume: runs have clusters, which have the numbers of words,
\* and a distance that is not negative fits into its bytes.
OnVolume(runs) ==
  /\ runs \in Seq([len : Nat \ {0}, delta : Int, bytes : Nat])
  /\ \A k \in DOMAIN runs :
       /\ RunStart(runs)[k] >= 0 /\ RunStart(runs)[k] + runs[k].len <= WordValues
       /\ runs[k].delta < ByteValues^runs[k].bytes

ASSUME RunListsAssumption == \A runs \in RunLists : OnVolume(runs)

\* Runs that go forward, or whose distance has all bytes of a word
Decodable(runs) ==
  \A k \in DOMAIN runs : runs[k].delta >= 0 \/ ByteValues^runs[k].bytes = WordValues

\* the clusters of the file that begin a run
RunStarts(runs) == {Len(ClustersUpto(runs)[k - 1]) : k \in DOMAIN runs}

\* The clusters that a list gives until it ends, one step after another
Steps(runs) ==
  LET n == Len(Clusters(runs)) + 1
      step[k \in 0..n] == IF k = 0 THEN [rl |-> FreshRl, lcn |-> 0] ELSE NextLcn(step[k - 1].rl, runs)
  IN  step
Walk(runs) == [k \in 1..(Len(Clusters(runs)) + 1) |-> Steps(runs)[k].lcn]

\* A walk visits the clusters of the file in order and then ends, and a search
\* finds the cluster, in all lists of bounded size whose distances the code can
\* decode; from there a step goes to the cluster after it if it begins its run: the
\* search does not set the place within the run.
RunsRight ==
  \A runs \in {r \in RunLists : Decodable(r)} :
    LET file == Clusters(runs)
    IN  /\ Walk(runs) = Append(file, 0)
        /\ \A v \in 0..Len(file) :
             LET found == SeekVcn(FreshRl, runs, v)
             IN  /\ found.lcn = Append(file, 0)[v + 1]
                 /\ v < Len(file) /\ v \in RunStarts(runs) =>
                      NextLcn(found.rl, runs).lcn = Append(file, 0)[v + 2]
=============================================================================
