------------------------------ MODULE XosHeap -------------------------------
(***************************************************************************)
(* The heap (src/main/heap.c): one run of memory cut into blocks.  Each    *)
(* block starts with the addresses of its neighbours; a free block goes on *)
(* with its links in the list of the free blocks.                          *)
(*                                                                         *)
(* Addresses and sizes are in units of 8 bytes, half an MBLK: a block has  *)
(* one unit of header, and xos_malloc rounds every size up to whole units. *)
(* The low bit of m->next, which marks a block in use, is the set used.    *)
(*                                                                         *)
(* The links of a block in use are overwritten by its owner, and a block   *)
(* that is merged into another has no header any more: the model keeps     *)
(* NULL in such words.  Code that follows the link of a block that is not  *)
(* free therefore reads anything: the model stops there, and fault names   *)
(* why.                                                                    *)
(***************************************************************************)
EXTENDS Integers, FiniteSets

CONSTANTS
  Units,        \* the size of the heap
  TcbUnits,     \* what xos_init allocates first: the TCB and the stack of IDLE
  Tasks,        \* the tasks that allocate and free
  Sizes,        \* arguments of xos_malloc, in units
  Null          \* NULL

Head == 0
First == 2
Tail == Units - 2

ASSUME HeapAssumption ==
  /\ Units \in Nat /\ TcbUnits \in Nat \ {0}
  /\ First + 1 + TcbUnits + 2 <= Tail
  /\ Sizes \subseteq Nat \ {0}
  /\ Null \in Int /\ Null < 0

Addr == 0..Tail

VARIABLES
  blocks,           \* where the blocks start
  used,             \* the blocks whose next has its low bit set
  next, prev,       \* m->next without its low bit, m->prev
  nf, pf,           \* m->nf, m->pf
  live,             \* the blocks that callers may free
  pc,               \* where each task is inside xos_malloc
  seen, size,       \* its m, read before the lock, and its size
  cursor, fit,      \* m and fit_mblk of the task that holds the lock
  fault             \* "none", or what broke the heap

links == <<next, prev, nf, pf>>
scan == <<cursor, fit>>
vars == <<blocks, used, next, prev, nf, pf, live, pc, seen, size, cursor, fit, fault>>

\* mutant: the header counts as payload
BlockSizeGross(m) == next[m] - m

\* mblk_size
BlockSize(m) == next[m] - m - 1

\* mutant: the last block of the free list does not count as free
is_freeListed(m) == nf[m] # Null /\ m \notin used

\* is_free: the head counts as free, the tail, whose next is NULL, does not.
is_free(m) == next[m] # Null /\ m \notin used

FreeBlocks == blocks \ (used \cup {Head, Tail})

\* spin_lock_irq keeps every other task from running.
Unlocked == \A t \in Tasks : pc[t] # "scan"

\* if(m) m->f = v
Store(f, m, v) == IF m = Null THEN f ELSE [f EXCEPT ![m] = v]
\* The words at the addresses in S hold no header any more.
Forget(f, S) == [a \in Addr |-> IF a \in S THEN Null ELSE f[a]]
-----------------------------------------------------------------------------
(* xos_malloc(size)                                                        *)

\* The locals of a task that is not in xos_malloc have no value.
Leave(t) ==
  /\ pc' = [pc EXCEPT ![t] = "run"]
  /\ seen' = [seen EXCEPT ![t] = Null]
  /\ size' = [size EXCEPT ![t] = 0]
  /\ cursor' = Null /\ fit' = Null

\* up to the lock: m = head->nf
MallocEnter(t, s) ==
  /\ fault = "none" /\ Unlocked /\ pc[t] = "run"
  /\ seen' = [seen EXCEPT ![t] = nf[Head]]
  /\ size' = [size EXCEPT ![t] = s]
  /\ pc' = [pc EXCEPT ![t] = "entered"]
  /\ UNCHANGED <<blocks, used, links, live, scan, fault>>

MallocLock(t) ==
  /\ fault = "none" /\ Unlocked /\ pc[t] = "entered"
  /\ cursor' = seen[t] /\ fit' = Null
  /\ pc' = [pc EXCEPT ![t] = "scan"]
  /\ UNCHANGED <<blocks, used, links, live, seen, size, fault>>

Scanning(t) == fault = "none" /\ pc[t] = "scan" /\ cursor # Null

\* bsize > size && bsize < fit_size
FitsBetter(m, s) ==
  /\ BlockSize(m) > s
  /\ fit # Null => BlockSize(m) < BlockSize(fit)

\* one turn of the loop over the free list
Scan(t) ==
  /\ Scanning(t) /\ cursor \in FreeBlocks
  /\ fit' = IF FitsBetter(cursor, size[t]) THEN cursor ELSE fit
  /\ cursor' = nf[cursor]
  /\ UNCHANGED <<blocks, used, links, live, pc, seen, size, fault>>

\* The block that head->nf named has been allocated, or merged into another.
ScanStale(t) ==
  /\ Scanning(t) /\ cursor \notin FreeBlocks
  /\ fault' = "stale"
  /\ UNCHANGED <<blocks, used, links, live, pc, seen, size, scan>>

Scanned(t) == fault = "none" /\ pc[t] = "scan" /\ cursor = Null

MallocFails(t) ==
  /\ Scanned(t) /\ fit = Null
  /\ Leave(t)
  /\ UNCHANGED <<blocks, used, links, live, fault>>

MallocReturns(t) ==
  /\ Scanned(t) /\ fit # Null
  /\ used' = used \cup {fit}
  /\ live' = live \cup {fit}
  /\ Leave(t)
  /\ UNCHANGED fault

\* mutant: a rest of two units is not split off
SplitsLate(m, s) == BlockSize(m) - s > 2

\* bsize-size >= 16: the rest can hold an MBLK
Splits(m, s) == BlockSize(m) - s >= 2

\* m is split, and its second part n takes its place in the free list
MallocSplit(t) ==
  LET m == fit
      n == m + 1 + size[t]
  IN  /\ MallocReturns(t)
      /\ Splits(m, size[t])
      /\ blocks' = blocks \cup {n}
      /\ next' = [next EXCEPT ![n] = next[m], ![m] = n]
      /\ prev' = Store([prev EXCEPT ![n] = m], next[m], n)
      /\ nf' = Forget(Store([nf EXCEPT ![n] = nf[m]], pf[m], n), {m})
      /\ pf' = Forget(Store([pf EXCEPT ![n] = pf[m]], nf[m], n), {m})

\* mutant: the next free block still points back at m
MallocWholeHalf(t) ==
  LET m == fit
  IN  /\ MallocReturns(t)
      /\ ~Splits(m, size[t])
      /\ nf' = Forget(Store(nf, pf[m], nf[m]), {m})
      /\ pf' = Forget(pf, {m})
      /\ UNCHANGED <<blocks, next, prev>>

\* m is used as it is, and leaves the free list
MallocWhole(t) ==
  LET m == fit
  IN  /\ MallocReturns(t)
      /\ ~Splits(m, size[t])
      /\ nf' = Forget(Store(nf, pf[m], nf[m]), {m})
      /\ pf' = Forget(Store(pf, nf[m], pf[m]), {m})
      /\ UNCHANGED <<blocks, next, prev>>
-----------------------------------------------------------------------------
(* xos_free(ptr), for the block m that ptr lies in.  The block before m is *)
(* never the head: the first block is the TCB of IDLE, which never exits.  *)

Freeing(m) ==
  /\ fault = "none" /\ Unlocked /\ \E t \in Tasks : pc[t] = "run"
  /\ m \in live
  /\ used' = used \ {m}
  /\ live' = live \ {m}
  /\ UNCHANGED <<pc, seen, size, scan>>

\* Neither neighbour is free: m becomes the first of the free list.
FreeAlone(m) ==
  /\ Freeing(m) /\ ~is_free(next[m]) /\ ~is_free(prev[m])
  /\ nf[Head] # Null
  /\ nf' = [nf EXCEPT ![m] = nf[Head], ![Head] = m]
  /\ pf' = [pf EXCEPT ![m] = Head, ![nf[Head]] = m]
  /\ UNCHANGED <<blocks, next, prev, fault>>

\* m->nf->pf = m with an empty free list
FreeAloneFails(m) ==
  /\ Freeing(m) /\ ~is_free(next[m]) /\ ~is_free(prev[m])
  /\ nf[Head] = Null
  /\ nf' = [nf EXCEPT ![m] = nf[Head]]
  /\ pf' = [pf EXCEPT ![m] = Head]
  /\ fault' = "nullFree"
  /\ UNCHANGED <<blocks, next, prev>>

\* n is merged into m, which takes its place in the free list
FreeWithNext(m) ==
  LET n == next[m]
  IN  /\ Freeing(m) /\ is_free(n) /\ ~is_free(prev[m])
      /\ blocks' = blocks \ {n}
      /\ next' = Forget([next EXCEPT ![m] = next[n]], {n})
      /\ prev' = Forget(Store(prev, next[n], m), {n})
      /\ nf' = Forget(Store([nf EXCEPT ![m] = nf[n]], pf[n], m), {n})
      /\ pf' = Forget(Store([pf EXCEPT ![m] = pf[n]], nf[n], m), {n})
      /\ UNCHANGED fault

\* m is merged into p, which is in the free list already
FreeWithPrev(m) ==
  LET p == prev[m]
  IN  /\ Freeing(m) /\ ~is_free(next[m]) /\ is_free(p)
      /\ blocks' = blocks \ {m}
      /\ next' = Forget([next EXCEPT ![p] = next[m]], {m})
      /\ prev' = Forget(Store(prev, next[m], p), {m})
      /\ UNCHANGED <<nf, pf, fault>>

\* Are n and p next to each other in the free list?
Adjacent(n, p) == nf[n] = p \/ nf[p] = n

\* First n into m, then m into p; m is unlinked as if p were next to it.
FreeWithBoth(m) ==
  LET n == next[m]
      p == prev[m]
      nfm == Store([nf EXCEPT ![m] = nf[n]], pf[n], m)
      pfm == Store([pf EXCEPT ![m] = pf[n]], nf[n], m)
  IN  /\ Freeing(m) /\ is_free(n) /\ is_free(p)
      /\ blocks' = blocks \ {m, n}
      /\ next' = Forget([next EXCEPT ![p] = next[n]], {m, n})
      /\ prev' = Forget(Store(prev, next[n], p), {m, n})
      /\ \/ /\ nf[n] = p
            /\ nf' = Forget(Store(nfm, pf[n], p), {m, n})
            /\ pf' = Forget([pfm EXCEPT ![p] = pf[n]], {m, n})
         \/ /\ nf[n] # p
            /\ nf' = Forget([nfm EXCEPT ![p] = nf[n]], {m, n})
            /\ pf' = Forget(Store(pfm, nf[n], p), {m, n})
      /\ fault' = IF Adjacent(n, p) THEN "none" ELSE "apart"
-----------------------------------------------------------------------------
\* xos_heap_init, and the first xos_malloc of xos_init: after the block of IDLE
\* the rest of the heap is one free block.
Init ==
  LET rest == First + 1 + TcbUnits
      at == [a \in Addr |-> Null]
  IN  /\ blocks = {Head, First, rest, Tail}
      /\ used = {First}
      /\ next = [at EXCEPT ![Head] = First, ![First] = rest, ![rest] = Tail]
      /\ prev = [at EXCEPT ![First] = Head, ![rest] = First, ![Tail] = rest]
      /\ nf = [at EXCEPT ![Head] = rest]
      /\ pf = [at EXCEPT ![rest] = Head]
      /\ live = {}
      /\ pc = [t \in Tasks |-> "run"]
      /\ seen = [t \in Tasks |-> Null]
      /\ size = [t \in Tasks |-> 0]
      /\ cursor = Null /\ fit = Null
      /\ fault = "none"

ScanNext(t) ==
  Scan(t) \/ ScanStale(t) \/ MallocFails(t) \/ MallocSplit(t) \/ MallocWhole(t)

MallocNext(t) ==
  \/ \E s \in Sizes : MallocEnter(t, s)
  \/ MallocLock(t)
  \/ ScanNext(t)

FreeNext(m) ==
  \/ FreeAlone(m) \/ FreeAloneFails(m)
  \/ FreeWithNext(m) \/ FreeWithPrev(m) \/ FreeWithBoth(m)

Next == (\E t \in Tasks : MallocNext(t)) \/ (\E m \in live : FreeNext(m))

Spec == Init /\ [][Next]_vars
-----------------------------------------------------------------------------
(* Properties.                                                             *)

TypeOK ==
  /\ blocks \subseteq Addr /\ used \subseteq blocks /\ live \subseteq used
  /\ next \in [Addr -> Addr \cup {Null}] /\ prev \in [Addr -> Addr \cup {Null}]
  /\ nf \in [Addr -> Addr \cup {Null}] /\ pf \in [Addr -> Addr \cup {Null}]
  /\ pc \in [Tasks -> {"run", "entered", "scan"}]
  /\ seen \in [Tasks -> Addr \cup {Null}]
  /\ size \in [Tasks -> Sizes \cup {0}]
  /\ cursor \in Addr \cup {Null} /\ fit \in Addr \cup {Null}
  /\ fault \in {"none", "stale", "nullFree", "apart"}

\* The blocks lie one behind the other from the head to the tail: no memory is
\* lost and none belongs to two blocks, and prev is the inverse of next.
Tiles ==
  /\ {Head, First, Tail} \subseteq blocks
  /\ First \in used \ live /\ Head \notin used /\ Tail \notin used
  /\ next[Head] = First /\ next[Tail] = Null
  /\ \A m \in blocks \ {Tail} :
       /\ next[m] \in blocks /\ m + 2 <= next[m] /\ prev[next[m]] = m
       /\ \A b \in blocks : b <= m \/ next[m] <= b
  /\ \A m \in blocks \ {Head} : prev[m] \in blocks \ {Tail} /\ next[prev[m]] = m

\* Until the heap breaks, its blocks fill it and do not overlap, whatever tasks
\* allocate and free (the splits and merges of xos_malloc and xos_free).
HeapTiled == fault = "none" => Tiles

Merged == \A m \in FreeBlocks : next[m] \notin FreeBlocks /\ prev[m] \notin FreeBlocks

\* No two free blocks are neighbours: what has been freed can be allocated in
\* one piece (the two merges of xos_free).
Coalesced == fault = "none" => Merged

\* m->nf->pf = m and m->pf->nf = m
Linked(m) ==
  /\ nf[m] # Null => nf[m] \in FreeBlocks /\ pf[nf[m]] = m
  /\ m # Head => pf[m] \in FreeBlocks \cup {Head} /\ nf[pf[m]] = m

ListExact == \A m \in FreeBlocks \cup {Head} : Linked(m)

\* The free list links free blocks only, each in one place, and every free block
\* has its place in it.
FreeListGood == fault = "none" => ListExact

\* An allocated block keeps its size until it is freed, and a new one has the
\* size its caller asked for, or one unit more.
AllocationsHold ==
  [][\A m \in live' :
       IF m \in live THEN next'[m] = next[m]
       ELSE \E t \in Tasks : /\ pc[t] = "scan"
                             /\ next'[m] - m - 1 \in {size[t], size[t] + 1}]_vars
=============================================================================
