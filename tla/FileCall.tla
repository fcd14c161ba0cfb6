------------------------------- MODULE FileCall -------------------------------
(***************************************************************************)
(* A call of the file functions of src/tntfs/fs_util.c on the volume of    *)
(* one disk: what the FAT and the NTFS file system share.  f_find and      *)
(* f_list call the find of the file system for each component of a path,   *)
(* with pc telling where the call is.                                      *)
(*                                                                         *)
(* trust is "clean" until a read fails.  An error that the code notices    *)
(* makes it "failed" until the call returns; one that it does not notice   *)
(* makes it "spoilt", and so does a call after one that failed, since the  *)
(* buffers hold a part of what could not be read.  fault stops the model   *)
(* where the code leaves its buffers, uses a null pointer or never ends.   *)
(***************************************************************************)
EXTENDS Integers, Sequences, FiniteSets

CONSTANTS
  VolumeOf,     \* the volumes, by their names
  ClusterSize,  \* sectors per cluster
  NoName,       \* the name of nothing
  PairedNames,  \* the names whose characters come in equal pairs, as in "aa"
  MaxFails      \* bound: reads that fail

ASSUME CallAssumption == ClusterSize \in Nat \ {0} /\ MaxFails \in Nat

VARIABLES
  vol,          \* the name of the volume in the disk
  pc, call,     \* where the call is, and its variables
  result,       \* what it returns
  trust,        \* see above
  fails,        \* counter of failed reads
  fault

callVars == <<vol, pc, call, result, trust, fails, fault>>

Volume == VolumeOf[vol]

Nothing == -1
NoResult == [kind |-> "none"]
Entry(e) == [kind |-> "entry", e |-> e]
Count(n) == [kind |-> "count", n |-> n]

NoCall == [op |-> "none", path |-> <<>>, rest |-> <<>>, list |-> FALSE, dir |-> 0, i |-> 0,
           lfn |-> FALSE, count |-> 0, size |-> 0, remain |-> 0, vcn |-> 0, at |-> 0,
           from |-> 0, out |-> <<>>, cached |-> Nothing, tail |-> FALSE]

Finish(r) == pc' = "done" /\ result' = r /\ UNCHANGED fault
Break(what) == pc' = "broken" /\ fault' = what /\ UNCHANGED result
GoOn(at) == pc' = at /\ UNCHANGED <<result, fault>>

Fail == fails < MaxFails /\ fails' = fails + 1
Noticed == trust' = IF trust = "clean" THEN "failed" ELSE trust
Unnoticed == trust' = "spoilt"

\* A call c begins.
Starts(c, at) ==
  /\ pc = "idle" /\ pc' = at /\ call' = c
  /\ trust' = IF trust = "clean" THEN "clean" ELSE "spoilt"
  /\ UNCHANGED <<vol, result, fails, fault>>

\* The end of a directory: the number of its entries, or no entry.
NotFound == Finish(IF call.list THEN Count(call.count) ELSE NoResult)

Return ==
  /\ pc = "done" /\ pc' = "idle" /\ call' = NoCall /\ result' = NoResult
  /\ UNCHANGED <<vol, trust, fails, fault>>

CallInit ==
  /\ pc = "idle" /\ call = NoCall /\ result = NoResult
  /\ trust = "clean" /\ fails = 0 /\ fault = "none"
-----------------------------------------------------------------------------
\* The greater of what is left of the cluster and what is left to read, as
\* fat_read and ntfs_read have it
ReadSize(left, remain) == IF left < remain THEN remain ELSE left

\* What copying n sectors, at call.at of the cluster, leaves.
Overrun(n) ==
  IF n > call.remain THEN "caller's buffer"
  ELSE IF call.at + n > ClusterSize THEN "dbuf" ELSE "none"

\* strcasecmp takes both characters from its first string, the name, and never
\* looks at the second: it answers 0 if the name's characters come in equal pairs
\* and a zero follows the zero at its end.  In f_find's copy of the path the next
\* component follows, or, at the end of the path, what the stack has left there:
\* call.tail says that it is not zero.
Strcasecmp(path) == IF Head(path) \in PairedNames /\ Len(path) = 1 /\ ~call.tail THEN 0 ELSE 1

\* what may be behind the path, where it is looked at
Tails(path) == IF path # <<>> /\ path[Len(path)] \in PairedNames THEN BOOLEAN ELSE {FALSE}

Least(S) == CHOOSE n \in S : \A m \in S : n <= m
=============================================================================
