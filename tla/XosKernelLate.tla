--------------------------- MODULE XosKernelLate ----------------------------
(***************************************************************************)
(* XosKernel with one history variable, for takes that have a timeout.     *)
(* When the timer ends a take, nothing clears sem->tcb: the semaphore, and *)
(* then the give that reads it, still point at a task that waits no more.  *)
(* late holds those tasks for as long as anything points at them, so that  *)
(* the properties can tell what such a give does from what any other does. *)
(***************************************************************************)
EXTENDS XosKernelContract

VARIABLE late   \* the tasks pointed at since the timer ended a take of theirs

lateVars == <<vars, late>>
-----------------------------------------------------------------------------
Giving(x) == pc[x] \in {"giveCheck", "giveReady"}
Taking(t) == pc[t] \in {"takeSwitch", "takeRet"}

\* sem->tcb, or the local tcb of a give that has cleared it
Pointed(t) ==
  \/ \E s \in Sems : waiter[s] = t
  \/ \E x \in Agents : Giving(x) /\ target[x] = t

\* t waits in a take, and the tick handler takes it off the sleep list.
TimerEnds(t) ==
  /\ pc[Isr] \in {"tick", "tickWoke"} /\ Taking(t)
  /\ t \in Range(sleep) /\ t \notin Range(sleep')

Remember == late' = {t \in Tasks : (t \in late \/ TimerEnds(t)) /\ Pointed(t)'}

LateInit == Init /\ late = {}
LateNext == Next /\ Remember
LateSpec == LateInit /\ [][LateNext]_lateVars
-----------------------------------------------------------------------------
(* Properties.                                                             *)

\* A task that called xos_task_delay leaves the sleep list before its deadline
\* only through a give of a semaphore that still points at it, because an
\* earlier take of its own timed out; no other give, and no tick, wakes it.
DelayNotEarly ==
  [][\A t \in Tasks :
       /\ pc[t] \in {"run", "selfSwitch"}
       /\ t \in Range(sleep) /\ t \notin Range(sleep')
       => \/ ticks >= timeout[t]
          \/ t \in late /\ \E s \in Sems : waiter[s] = t /\ waiter'[s] = None]_lateVars

\* A handler has linked the current task, which has unlocked at the end of a
\* blocking call and not reached its _task_switch, which would link it again.
WokenInWindow ==
  /\ fault = "relink"
  /\ pc[Isr] = "switch"
  /\ pc[current] \in {"selfSwitch", "takeSwitch"}
  /\ current \in Range(ready)

\* A give reaches t, whose TCB has been freed, or which is linked again: the
\* tasks that give can be preempted after their unlock.
WokenLate(t) ==
  \/ fault = "freed" /\ state[t] = FREE
  \/ /\ fault = "relink" /\ Linked(t)
     /\ pc[current] = "giveReady" /\ target[current] = t

\* What breaks the kernel is one of two things: a handler that wakes the current
\* task in the window of its blocking call, or a give to a task whose take the
\* timer has ended.
BreaksTwoWays ==
  fault # "none" => WokenInWindow \/ \E t \in late : WokenLate(t)
=============================================================================
