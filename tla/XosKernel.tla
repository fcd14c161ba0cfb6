----------------------------- MODULE XosKernel ------------------------------
(***************************************************************************)
(* The XOS kernel (src/main/xos_core.c): fixed-priority tasks, one timer   *)
(* tick, semaphores given by tasks and by interrupt handlers.              *)
(*                                                                         *)
(* One step is one stretch of code that interrupts cannot split: a         *)
(* spin_lock_irq section, or a single read of memory.  Between two steps   *)
(* of a task an interrupt may arrive; its handler is an agent of its own   *)
(* (Isr) that runs to completion, because the trap entry leaves interrupts *)
(* disabled.  A list is the sequence of the tasks linked into it.          *)
(*                                                                         *)
(* Linking a node that is already linked makes list_insert_order build a   *)
(* cycle, and reading a freed TCB reads another block of the heap.  The    *)
(* model stops there: fault names what happened and no step follows.       *)
(***************************************************************************)
EXTENDS XosList

CONSTANTS
  Tasks,          \* the TCBs, one per address xos_malloc may return
  Idle, User,     \* the tasks "IDLE" and "XosUser"
  Isr,            \* the interrupt handler
  Sems,           \* the semaphores
  None,           \* NULL
  Prio,           \* Prio[t]: the priority t is created with, 0 the most urgent
  Delays,         \* arguments of xos_task_delay
  TakeTimeouts,   \* timeouts of xos_sem_take; negative means for ever
  Takers,         \* Takers[s]: tasks that take s
  Givers,         \* Givers[s]: tasks that give s
  IsrSems,        \* semaphores that an interrupt handler gives
  Yielders,       \* tasks that call xos_task_yield
  HalfTick,       \* 2^31: the first value an int tick count cannot hold
  MaxTicks,       \* bound: the timer stops after this many ticks
  MaxValue        \* bound: no give when the count is that high

ASSUME TaskAssumption ==
  /\ Idle \in Tasks /\ User \in Tasks /\ Idle # User
  /\ Isr \notin Tasks /\ None \notin Tasks \cup Sems
  /\ Prio \in [Tasks -> Nat]
  /\ \A t \in Tasks : Prio[t] <= Prio[Idle]

ASSUME CallAssumption ==
  /\ Delays \subseteq Nat \ {0} /\ TakeTimeouts \subseteq Int
  /\ Takers \in [Sems -> SUBSET (Tasks \ {Idle})]
  /\ Givers \in [Sems -> SUBSET (Tasks \ {Idle})]
  /\ IsrSems \subseteq Sems /\ Yielders \subseteq Tasks \ {Idle}

ASSUME BoundAssumption ==
  /\ HalfTick \in Nat \ {0} /\ MaxTicks \in Nat /\ MaxValue \in Nat
  /\ \A n \in Delays \cup TakeTimeouts : n <= HalfTick

VARIABLES
  ready, sleep,   \* g_list_ready, g_list_sleep
  dead,           \* g_list_dead, whose order nothing observes
  state,          \* tcb->state
  timeout,        \* tcb->timeout, an int
  retv,           \* tcb->retv
  current,        \* task_current
  ticks,          \* g_ticks, a uint32_t
  value, waiter,  \* sem->value, sem->tcb
  pc,             \* where each agent is inside the kernel, "run" outside it
  call,           \* the arguments of the take a task is in
  target,         \* the local tcb of the give an agent is in
  result,         \* what the last xos_sem_take of a task returned
  fault           \* "none", or what broke the kernel

listVars == <<ready, sleep, dead>>
semVars == <<value, waiter>>
localVars == <<call, target, result>>
vars == <<ready, sleep, dead, state, timeout, retv, current, ticks, value,
          waiter, pc, call, target, result, fault>>

READY == "ready"
RUN == "run"
WAIT == "wait"
DEAD == "dead"
FREE == "free"

Agents == Tasks \cup {Isr}
-----------------------------------------------------------------------------
(* Ticks: g_ticks is unsigned, timeout is signed, both 32 bits wide.       *)

TickMod == 2 * HalfTick

Wrap(n) == IF n < TickMod THEN n ELSE n - TickMod
Signed(n) == IF n < HalfTick THEN n ELSE n - TickMod
Unsigned(n) == IF n < 0 THEN n + TickMod ELSE n

\* mutant: a deadline wider than the tick count
DeadlineWide(n) == ticks + n

\* (int)(g_ticks + n)
Deadline(n) == Signed(Wrap(ticks + n))

\* mutants: one tick too late, one tick too early
ExpiredLate(t) == ticks > Unsigned(timeout[t])
ExpiredEarly(t) == ticks + 1 >= Unsigned(timeout[t])

\* !(g_ticks < t->timeout), a comparison the C rules make unsigned
Expired(t) == ticks >= Unsigned(timeout[t])
-----------------------------------------------------------------------------
(* Which tasks the lists hold.                                             *)

Linked(t) == t \in Range(ready) \cup Range(sleep) \cup dead

\* _task_ready
MakeReady(t) ==
  /\ ready' = InsertOrdered(ready, Prio, Prio[t], t)
  /\ state' = [state EXCEPT ![t] = READY]
-----------------------------------------------------------------------------
(* Who executes: the handler while there is one, else the current task.    *)

Executes(x) ==
  /\ fault = "none"
  /\ x = IF pc[Isr] = "off" THEN current ELSE Isr

At(x, where) == Executes(x) /\ pc[x] = where

Goto(x, where) == pc' = [pc EXCEPT ![x] = where]

\* xos_sem_give and xos_task_create return to their caller here.
Home(x) == IF x = Isr THEN "off" ELSE "run"

Break(why) ==
  /\ fault' = why
  /\ UNCHANGED <<ready, sleep, dead, state, timeout, retv, current, ticks,
                 value, waiter, pc, call, target, result>>
-----------------------------------------------------------------------------
(* _task_switch(in_isr, self).  A task leaves its processor inside         *)
(* arch_swap_context and goes on behind it; a handler only names the task  *)
(* that the trap exit restores.                                            *)

\* mutants: a task that yields is forgotten, a task that waits is queued
RequeuesRunning == state[current] = RUN
RequeuesWaiting == state[current] # DEAD

Requeues == state[current] \in {RUN, READY}

StaysOnCpu(self) == ~self /\ Prio[current] < Prio[Head(ready)]

SwitchBreaks(self) ==
  \/ ready = <<>>
  \/ ready # <<>> /\ ~StaysOnCpu(self) /\ Requeues /\ Linked(current)

Dispatch ==
  LET high == Head(ready)
      queue == IF Requeues THEN InsertOrdered(ready, Prio, Prio[current], current)
                           ELSE ready
  IN  /\ ready' = Unlink(queue, high)
      /\ state' = [t \in Tasks |-> IF t = high THEN RUN
                                   ELSE IF t = current /\ Requeues THEN READY
                                   ELSE state[t]]
      /\ current' = high

TaskSwitch(x, where, self, next) ==
  /\ At(x, where)
  /\ ~SwitchBreaks(self)
  /\ IF StaysOnCpu(self) THEN UNCHANGED <<ready, state, current>> ELSE Dispatch
  /\ Goto(x, next)
  /\ UNCHANGED <<sleep, dead, timeout, retv, ticks, semVars, localVars, fault>>

SwitchFault(x, where, self) ==
  /\ At(x, where)
  /\ SwitchBreaks(self)
  /\ Break(IF ready = <<>> THEN "nullHead" ELSE "relink")

\* after a give, a creation or a tick: only a task at least as urgent gets in
Switch(x) == TaskSwitch(x, "switch", FALSE, Home(x))

\* at the end of a delay, a yield or an exit
SelfSwitch(t) == TaskSwitch(t, "selfSwitch", TRUE, "run")

\* at the end of a take that waits
TakeSwitch(t) == TaskSwitch(t, "takeSwitch", TRUE, "takeRet")

SwitchFails(x) ==
  \/ SwitchFault(x, "switch", FALSE)
  \/ SwitchFault(x, "selfSwitch", TRUE)
  \/ SwitchFault(x, "takeSwitch", TRUE)
-----------------------------------------------------------------------------
(* The calls of a task, up to the _task_switch that ends them.             *)

\* xos_task_create on a fresh TCB; the switch is a later step
StartTask(creator, t) ==
  /\ state[t] = FREE
  /\ MakeReady(t)
  /\ timeout' = [timeout EXCEPT ![t] = 0]
  /\ retv' = [retv EXCEPT ![t] = 0]
  /\ pc' = [pc EXCEPT ![creator] = "switch", ![t] = "run"]
  /\ UNCHANGED <<sleep, dead, current, ticks, semVars, localVars, fault>>

Create(c, t) == c # Idle /\ At(c, "run") /\ StartTask(c, t)

Delay(t, n) ==
  /\ At(t, "run") /\ t # Idle
  /\ state' = [state EXCEPT ![t] = WAIT]
  /\ timeout' = [timeout EXCEPT ![t] = Deadline(n)]
  /\ sleep' = InsertOrdered(sleep, timeout, Deadline(n), t)
  /\ Goto(t, "selfSwitch")
  /\ UNCHANGED <<ready, dead, retv, current, ticks, semVars, localVars, fault>>

Yield(t) ==
  /\ At(t, "run") /\ t \in Yielders
  /\ state' = [state EXCEPT ![t] = READY]
  /\ Goto(t, "selfSwitch")
  /\ UNCHANGED <<listVars, timeout, retv, current, ticks, semVars, localVars, fault>>

Exit(t) ==
  /\ At(t, "run") /\ t # Idle
  /\ state' = [state EXCEPT ![t] = DEAD]
  /\ dead' = dead \cup {t}
  /\ Goto(t, "selfSwitch")
  /\ UNCHANGED <<ready, sleep, timeout, retv, current, ticks, semVars, localVars, fault>>
-----------------------------------------------------------------------------
(* xos_sem_take(sem, timeout)                                              *)

\* the first look at sem->value, with interrupts enabled
TakeCheck(t, s, n) ==
  /\ At(t, "run") /\ t \in Takers[s]
  /\ call' = [call EXCEPT ![t] = [sem |-> s, timeout |-> n]]
  /\ \/ value[s] # 0 /\ Goto(t, "takeFast") /\ UNCHANGED result
     \/ value[s] = 0 /\ n # 0 /\ Goto(t, "takeLock") /\ UNCHANGED result
     \/ /\ value[s] = 0 /\ n = 0
        /\ result' = [result EXCEPT ![t] = -1]
        /\ UNCHANGED pc
  /\ UNCHANGED <<listVars, state, timeout, retv, current, ticks, semVars, target, fault>>

\* take the token the task has seen
TakeToken(t, where) ==
  LET s == call[t].sem
  IN  /\ At(t, where)
      /\ value' = [value EXCEPT ![s] = @ - 1]
      /\ result' = [result EXCEPT ![t] = 0]
      /\ Goto(t, "run")
      /\ UNCHANGED <<listVars, state, timeout, retv, current, ticks, waiter,
                     call, target, fault>>

TakeFast(t) == TakeToken(t, "takeFast")

\* mutant: no second look
TokenUnseen(t) == FALSE

\* the second look at sem->value, under the lock
TokenSeen(t) == value[call[t].sem] # 0

TakeRecheck(t) == At(t, "takeLock") /\ TokenSeen(t) /\ TakeToken(t, "takeLock")

TakeWait(t) ==
  LET s == call[t].sem
      n == call[t].timeout
  IN  /\ At(t, "takeLock")
      /\ ~TokenSeen(t)
      /\ waiter' = [waiter EXCEPT ![s] = t]
      /\ state' = [state EXCEPT ![t] = WAIT]
      /\ IF n > 0
         THEN /\ timeout' = [timeout EXCEPT ![t] = Deadline(n)]
              /\ retv' = [retv EXCEPT ![t] = -1]
              /\ sleep' = InsertOrdered(sleep, timeout, Deadline(n), t)
         ELSE /\ timeout' = [timeout EXCEPT ![t] = 0]
              /\ UNCHANGED <<retv, sleep>>
      /\ Goto(t, "takeSwitch")
      /\ UNCHANGED <<ready, dead, current, ticks, value, localVars, fault>>

\* mutant: success whatever ended the wait
TakeReturnZero(t) ==
  /\ At(t, "takeRet")
  /\ result' = [result EXCEPT ![t] = 0]
  /\ Goto(t, "run")
  /\ UNCHANGED <<listVars, state, timeout, retv, current, ticks, semVars,
                 call, target, fault>>

TakeReturn(t) ==
  /\ At(t, "takeRet")
  /\ result' = [result EXCEPT ![t] = retv[t]]
  /\ Goto(t, "run")
  /\ UNCHANGED <<listVars, state, timeout, retv, current, ticks, semVars,
                 call, target, fault>>
-----------------------------------------------------------------------------
(* xos_sem_give(sem), by a task or by an interrupt handler                 *)

\* the locked section, entered by x on s
GiveLocked(x, s) ==
  LET t == waiter[s]
  IN  \/ /\ t = None
         /\ value' = [value EXCEPT ![s] = @ + 1]
         /\ Goto(x, Home(x))
         /\ UNCHANGED <<listVars, state, timeout, retv, current, ticks, waiter,
                        localVars, fault>>
      \/ /\ t # None /\ state[t] # FREE
         /\ waiter' = [waiter EXCEPT ![s] = None]
         /\ target' = [target EXCEPT ![x] = t]
         /\ retv' = [retv EXCEPT ![t] = 0]
         /\ IF timeout[t] > 0
            THEN /\ sleep' = Unlink(sleep, t)
                 /\ timeout' = [timeout EXCEPT ![t] = 0]
            ELSE UNCHANGED <<sleep, timeout>>
         /\ Goto(x, "giveCheck")
         /\ UNCHANGED <<ready, dead, state, current, ticks, value, call, result, fault>>
      \/ t # None /\ state[t] = FREE /\ Break("freed")

Give(t, s) ==
  /\ At(t, "run") /\ t \in Givers[s] /\ value[s] < MaxValue
  /\ GiveLocked(t, s)

IsrGive(s) ==
  /\ fault = "none" /\ pc[Isr] = "off" /\ pc[Idle] # "boot"
  /\ s \in IsrSems /\ value[s] < MaxValue
  /\ GiveLocked(Isr, s)

\* tcb->state==T_WAIT, read after the lock is released
GiveCheck(x) ==
  /\ At(x, "giveCheck")
  /\ Goto(x, IF state[target[x]] = WAIT THEN "giveReady" ELSE Home(x))
  /\ UNCHANGED <<listVars, state, timeout, retv, current, ticks, semVars,
                 localVars, fault>>

GiveReady(x) ==
  LET t == target[x]
  IN  /\ At(x, "giveReady")
      /\ state[t] # FREE /\ ~Linked(t)
      /\ MakeReady(t)
      /\ Goto(x, "switch")
      /\ UNCHANGED <<sleep, dead, timeout, retv, current, ticks, semVars,
                     localVars, fault>>

GiveReadyFails(x) ==
  LET t == target[x]
  IN  /\ At(x, "giveReady")
      /\ state[t] = FREE \/ Linked(t)
      /\ Break(IF state[t] = FREE THEN "freed" ELSE "relink")
-----------------------------------------------------------------------------
(* The timer interrupt: mtime_irq, _tick_handle                            *)

TickStart ==
  /\ fault = "none" /\ pc[Isr] = "off" /\ pc[Idle] # "boot"
  /\ ticks < MaxTicks
  /\ ticks' = Wrap(ticks + 1)
  /\ Goto(Isr, "tick")
  /\ UNCHANGED <<listVars, state, timeout, retv, current, semVars, localVars, fault>>

\* one turn of the loop over the sleepers; "tickWoke" is need_sched = 1
TickWake ==
  LET t == Head(sleep)
  IN  /\ Executes(Isr) /\ pc[Isr] \in {"tick", "tickWoke"}
      /\ sleep # <<>> /\ Expired(t)
      /\ sleep' = Tail(sleep)
      /\ timeout' = [timeout EXCEPT ![t] = 0]
      /\ MakeReady(t)
      /\ Goto(Isr, "tickWoke")
      /\ UNCHANGED <<dead, retv, current, ticks, semVars, localVars, fault>>

TickDone ==
  /\ Executes(Isr) /\ pc[Isr] \in {"tick", "tickWoke"}
  /\ sleep # <<>> => ~Expired(Head(sleep))
  /\ Goto(Isr, IF pc[Isr] = "tickWoke" THEN "switch" ELSE "off")
  /\ UNCHANGED <<listVars, state, timeout, retv, current, ticks, semVars,
                 localVars, fault>>
-----------------------------------------------------------------------------
(* _idle_task                                                              *)

\* start the timer and create the first user task
IdleBoot == At(Idle, "boot") /\ StartTask(Idle, User)

\* free the TCBs of the tasks that have exited
IdleReap ==
  /\ At(Idle, "run") /\ dead # {}
  /\ dead' = {}
  /\ state' = [t \in Tasks |-> IF t \in dead THEN FREE ELSE state[t]]
  /\ UNCHANGED <<ready, sleep, timeout, retv, current, ticks, semVars, pc,
                 localVars, fault>>
-----------------------------------------------------------------------------
\* xos_init: IDLE is the running task, with an empty ready list
Init ==
  /\ ready = <<>> /\ sleep = <<>> /\ dead = {}
  /\ state = [t \in Tasks |-> IF t = Idle THEN RUN ELSE FREE]
  /\ timeout = [t \in Tasks |-> 0]
  /\ retv = [t \in Tasks |-> 0]
  /\ current = Idle
  /\ ticks = 0
  /\ value = [s \in Sems |-> 0]
  /\ waiter = [s \in Sems |-> None]
  /\ pc = [x \in Agents |-> IF x = Isr THEN "off"
                            ELSE IF x = Idle THEN "boot" ELSE "run"]
  /\ call = [t \in Tasks |-> [sem |-> None, timeout |-> 0]]
  /\ target = [x \in Agents |-> None]
  /\ result = [t \in Tasks |-> 0]
  /\ fault = "none"

GiveNext(x) == GiveCheck(x) \/ GiveReady(x) \/ GiveReadyFails(x)

TaskNext(t) ==
  \/ \E u \in Tasks : Create(t, u)
  \/ \E n \in Delays : Delay(t, n)
  \/ Yield(t) \/ Exit(t)
  \/ \E s \in Sems, n \in TakeTimeouts : TakeCheck(t, s, n)
  \/ TakeFast(t) \/ TakeRecheck(t) \/ TakeWait(t) \/ TakeReturn(t)
  \/ \E s \in Sems : Give(t, s)
  \/ SelfSwitch(t) \/ TakeSwitch(t)

IsrNext ==
  \/ TickStart \/ TickWake \/ TickDone
  \/ \E s \in IsrSems : IsrGive(s)

Next ==
  \/ \E t \in Tasks : TaskNext(t)
  \/ \E x \in Agents : GiveNext(x) \/ Switch(x) \/ SwitchFails(x)
  \/ IsrNext
  \/ IdleBoot \/ IdleReap

Spec == Init /\ [][Next]_vars

\* The timer interrupt stays pending until its handler moves MTIMECMP, so other
\* interrupts only delay it; a handler, once entered, runs to its end.
FairSpec ==
  /\ Spec
  /\ SF_vars(TickStart)
  /\ WF_vars(TickWake \/ TickDone \/ GiveNext(Isr) \/ Switch(Isr) \/ SwitchFails(Isr))
-----------------------------------------------------------------------------
(* Properties.                                                             *)

PCs == {"off", "boot", "run", "switch", "selfSwitch", "takeFast", "takeLock",
        "takeSwitch", "takeRet", "giveCheck", "giveReady", "tick", "tickWoke"}

\* Every variable stays in the range of its C type or list.
TypeOK ==
  /\ ready \in Seq(Tasks) /\ sleep \in Seq(Tasks) /\ dead \subseteq Tasks
  /\ state \in [Tasks -> {READY, RUN, WAIT, DEAD, FREE}]
  /\ timeout \in [Tasks -> Int] /\ retv \in [Tasks -> {0, -1}]
  /\ current \in Tasks
  /\ ticks \in 0..(TickMod - 1)
  /\ value \in [Sems -> Int] /\ waiter \in [Sems -> Tasks \cup {None}]
  /\ pc \in [Agents -> PCs]
  /\ call \in [Tasks -> [sem : Sems \cup {None}, timeout : TakeTimeouts \cup {0}]]
  /\ target \in [Agents -> Tasks \cup {None}]
  /\ result \in [Tasks -> {0, -1}]
  /\ fault \in {"none", "relink", "freed", "nullHead"}

Consistent ==
  /\ IsInjective(ready) /\ IsInjective(sleep)
  /\ \A t \in Tasks :
       /\ t \in Range(ready) => state[t] = READY
       /\ state[t] = READY /\ t # current => t \in Range(ready)
       /\ t \in Range(sleep) <=> timeout[t] > 0
       /\ t \in Range(sleep) => state[t] = WAIT
       /\ t \in dead <=> state[t] = DEAD
       /\ state[t] = RUN => t = current

\* Until the kernel breaks, a task is linked exactly where its state and its
\* timeout say, once, and only the current task runs (list_insert_order and
\* list_remove, called from every API function and from two interrupt paths).
ListsAgree == fault = "none" => Consistent

\* No sleeper is overdue once the tick handler is done: the loop of
\* _tick_handle looks at the head only, and relies on the order of the list.
SleepersOnTime ==
  fault = "none" /\ pc[Isr] = "off" =>
    \A t \in Range(sleep) : ticks < timeout[t]

\* The task waits in a take of s, behind the second look at sem->value.
Parked(t, s) == pc[t] \in {"takeSwitch", "takeRet"} /\ call[t].sem = s

\* A registered waiter never sleeps on a token: a give that falls between the
\* two looks at sem->value in xos_sem_take is seen by the second.
NoLostWakeup ==
  \A s \in Sems, t \in Tasks :
    Parked(t, s) /\ waiter[s] = t => value[s] = 0

\* After a give, a creation or a tick, no ready task is more urgent than the
\* one that runs (_task_switch with self = 0).
PreemptsProperly ==
  [][\A x \in Agents :
       pc[x] = "switch" /\ pc'[x] # "switch"
       => \A t \in Range(ready') : Prio[current'] <= Prio[t]]_vars

\* Whatever the order of deadlines, and across the overflow of g_ticks, a
\* sleeping task leaves the sleep list.
SleeperWoken ==
  \A t \in Tasks :
    t \in Range(sleep) ~> t \notin Range(sleep) \/ fault # "none"

\* xos_sem_give may be called in an interrupt (the comment at line 422): no
\* call makes the kernel link a task that is linked already.
GiveIsIsrSafe == fault # "relink"
-----------------------------------------------------------------------------
(* The inductive strengthenings that the proofs of XosKernelProofs use.    *)

\* A TCB with a timeout is linked in the sleep list, and a give that has found
\* a waiter works on a TCB.
TypeInv ==
  /\ TypeOK
  /\ \A t \in Tasks : timeout[t] > 0 => t \in Range(sleep)
  /\ \A x \in Agents :
       pc[x] \in {"giveCheck", "giveReady"} => target[x] \in Tasks

\* The current task is T_RUN unless it is between the unlock of a blocking call
\* and its _task_switch.
CurrentRuns == state[current] # RUN => pc[current] \in {"selfSwitch", "takeSwitch"}

\* What a give found when it read tcb->state.  For a handler that still holds
\* when it links the task; a task may be interrupted, but wakes another task.
GiveWakes ==
  /\ pc[Isr] = "giveReady" => state[target[Isr]] = WAIT
  /\ \A x \in Tasks : pc[x] = "giveReady" => target[x] # x

KernelGood == Consistent /\ CurrentRuns /\ GiveWakes /\ ticks <= MaxTicks
KernelInv == fault = "none" => KernelGood

\* The model stops ticking before a tick count or a deadline can overflow.
UptimeBelowWrap ==
  /\ MaxTicks < HalfTick
  /\ \A n \in Delays \cup TakeTimeouts : MaxTicks + n < HalfTick

\* The sleep list is in the order of the deadlines, and nobody in it is overdue
\* outside the tick handler.
SleepGood ==
  /\ Sorted(sleep, timeout)
  /\ pc[Isr] \notin {"tick", "tickWoke"} => \A t \in Range(sleep) : ticks < timeout[t]
SleepInv == fault = "none" => SleepGood

\* One task takes each semaphore: a TCB pointer is all a semaphore has to
\* remember its waiters.
OneTaker == \A s \in Sems : \A t, u \in Takers[s] : t = u

InTake(t) == pc[t] \in {"takeFast", "takeLock", "takeSwitch", "takeRet"}

\* A task is inside a take of a semaphore that it takes.
TakeInv == \A t \in Tasks : InTake(t) => call[t].sem \in Sems /\ t \in Takers[call[t].sem]

\* The ready list is in the order of the priorities, and a dead task is inside
\* its last _task_switch.
ReadyGood ==
  /\ Sorted(ready, Prio)
  /\ \A t \in Tasks : state[t] \in {DEAD, FREE} => pc[t] \in {"run", "selfSwitch"}
ReadyInv == fault = "none" => ReadyGood
=============================================================================
