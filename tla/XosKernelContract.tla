------------------------- MODULE XosKernelContract --------------------------
(***************************************************************************)
(* The semaphores of XosKernel implement XosSemaphore.  A token is in      *)
(* value, or on its way: given to a waiter that has not returned yet.      *)
(***************************************************************************)
EXTENDS XosKernel

\* A give has cleared sem->tcb, and the waiter has still to return 0.
Delivered(s) == \E t \in Takers[s] : Parked(t, s) /\ waiter[s] # t

\* sem->tcb points at a task that no longer waits for s.
Stale(s) == waiter[s] # None /\ ~Parked(waiter[s], s)

absTokens == [s \in Sems |-> value[s] + IF Delivered(s) THEN 1 ELSE 0]
absTaking == [t \in Tasks |-> IF InTake(t) THEN call[t].sem ELSE None]
absPhase ==
  [t \in Tasks |->
     IF pc[t] \notin {"takeSwitch", "takeRet"} THEN "asked"
     ELSE IF call[t].timeout > 0 THEN "parkedTimed" ELSE "parked"]
absDeaf == [s \in Sems |-> Stale(s)]

Sem == INSTANCE XosSemaphore WITH
  tokens <- absTokens, taking <- absTaking, phase <- absPhase,
  deaf <- absDeaf, result <- result

\* xos_sem_take and xos_sem_give keep the contract of XosSemaphore: a take
\* returns 0 for a token of its own and -1 only after a timed wait with none,
\* and only the first give after a timeout is lost.
Contract == Sem!Spec
=============================================================================
