---------------------------- MODULE XosSemaphore ----------------------------
(***************************************************************************)
(* What a semaphore of the kernel promises its callers, with no list, no   *)
(* scheduler and no interrupt: a number of tokens, takes that succeed by   *)
(* consuming one, gives that add one.  XosKernel implements this module    *)
(* (XosKernelContract!Contract) when each semaphore has one taker and each *)
(* taker one semaphore, and either no take has a deadline or a taker that  *)
(* tasks wake is the most urgent task.  A give reads tcb->state after its  *)
(* unlock: were the giver preempted there by the task it has found, which  *)
(* returns, takes again and waits, the give would wake it without a token. *)
(* The contract admits one weakness of the code: after a take has timed    *)
(* out, the semaphore still points at the task that gave up, and the next  *)
(* give is spent on it (deaf).                                             *)
(***************************************************************************)
EXTENDS Integers

CONSTANTS
  Tasks,        \* the callers
  Sems,         \* the semaphores
  None          \* no take is in progress; not a semaphore

VARIABLES
  tokens,       \* tokens[s]: tokens that a take of s may still consume
  taking,       \* taking[t]: the semaphore t is taking, or None
  phase,        \* phase[t]: "asked", or "parked" (timed or not) once t waits
  deaf,         \* deaf[s]: the last waiter of s gave up and nobody has waited since
  result        \* result[t]: what the last finished take of t returned

semVars == <<tokens, taking, phase, deaf, result>>

Phases == {"asked", "parked", "parkedTimed"}

Init ==
  /\ tokens = [s \in Sems |-> 0]
  /\ taking = [t \in Tasks |-> None]
  /\ phase = [t \in Tasks |-> "asked"]
  /\ deaf = [s \in Sems |-> FALSE]
  /\ result = [t \in Tasks |-> 0]

Ask(t, s) ==
  /\ taking[t] = None
  /\ taking' = [taking EXCEPT ![t] = s]
  /\ UNCHANGED <<tokens, phase, deaf, result>>

\* A take with timeout 0 fails at once, and only when there is no token.
TryFails(t, s) ==
  /\ taking[t] = None
  /\ tokens[s] = 0
  /\ result' = [result EXCEPT ![t] = -1]
  /\ UNCHANGED <<tokens, taking, phase, deaf>>

\* The task waits only when there is no token; from then on s hears gives again.
Park(t, s, timed) ==
  /\ taking[t] = s
  /\ phase[t] = "asked"
  /\ tokens[s] = 0
  /\ phase' = [phase EXCEPT ![t] = IF timed THEN "parkedTimed" ELSE "parked"]
  /\ deaf' = [deaf EXCEPT ![s] = FALSE]
  /\ UNCHANGED <<tokens, taking, result>>

\* A take returns 0 only by consuming a token.
Succeed(t, s) ==
  /\ taking[t] = s
  /\ tokens[s] > 0
  /\ tokens' = [tokens EXCEPT ![s] = @ - 1]
  /\ taking' = [taking EXCEPT ![t] = None]
  /\ phase' = [phase EXCEPT ![t] = "asked"]
  /\ result' = [result EXCEPT ![t] = 0]
  /\ UNCHANGED deaf

\* A take returns -1 only after a timed wait, and never while a token is there.
TimeOut(t, s) ==
  /\ taking[t] = s
  /\ phase[t] = "parkedTimed"
  /\ tokens[s] = 0
  /\ taking' = [taking EXCEPT ![t] = None]
  /\ phase' = [phase EXCEPT ![t] = "asked"]
  /\ deaf' = [deaf EXCEPT ![s] = TRUE]
  /\ result' = [result EXCEPT ![t] = -1]
  /\ UNCHANGED tokens

Give(s) ==
  /\ ~deaf[s]
  /\ tokens' = [tokens EXCEPT ![s] = @ + 1]
  /\ UNCHANGED <<taking, phase, deaf, result>>

\* The first give after a timeout is spent on the task that gave up.
LostGive(s) ==
  /\ deaf[s]
  /\ deaf' = [deaf EXCEPT ![s] = FALSE]
  /\ UNCHANGED <<tokens, taking, phase, result>>

Next ==
  \/ \E s \in Sems : Give(s) \/ LostGive(s)
  \/ \E t \in Tasks, s \in Sems :
       \/ Ask(t, s) \/ TryFails(t, s) \/ Succeed(t, s) \/ TimeOut(t, s)
       \/ \E timed \in BOOLEAN : Park(t, s, timed)

Spec == Init /\ [][Next]_semVars
=============================================================================
