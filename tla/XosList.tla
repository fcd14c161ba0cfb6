------------------------------- MODULE XosList ------------------------------
(***************************************************************************)
(* The doubly linked lists of the kernel (list_insert_order, list_remove   *)
(* in src/main/xos_core.c) as sequences of the entries they link.          *)
(***************************************************************************)
EXTENDS Integers, Sequences, FiniteSets, SequencesExt

\* mutant: the comparison the other way round
GreaterReversed(list, key, k) == {i \in 1..Len(list) : k > key[list[i]]}

\* The positions of the entries whose key is strictly greater than k: cmp_prio
\* and cmp_timeout return 1 there, and only there.
Greater(list, key, k) == {i \in 1..Len(list) : k < key[list[i]]}

\* Where list_insert_order stops: the first entry with a greater key, or the
\* end.  Entries with equal keys keep the order in which they came.
InsertPos(list, key, k) ==
  IF Greater(list, key, k) = {} THEN Len(list) + 1 ELSE Min(Greater(list, key, k))

\* list_insert_order
InsertOrdered(list, key, k, t) == InsertAt(list, InsertPos(list, key, k), t)

\* mutant: the head leaves, whichever node was meant
UnlinkHead(list, t) == Tail(list)

\* list_remove: the node leaves, the others keep their order.
Unlink(list, t) == RemoveAt(list, CHOOSE i \in 1..Len(list) : list[i] = t)

\* What list_insert_order relies on, and keeps.
Sorted(list, key) ==
  \A i, j \in 1..Len(list) : i <= j => key[list[i]] <= key[list[j]]
=============================================================================
