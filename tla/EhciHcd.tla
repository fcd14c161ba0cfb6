------------------------------- MODULE EhciHcd -------------------------------
(***************************************************************************)
(* The EHCI host controller driver (src/cherryusb/usb_hc_ehci.c): threads  *)
(* submit and kill URBs, the interrupt handler ends them, and both work on *)
(* the pools of queue heads and transfer descriptors and on the schedule.  *)
(*                                                                         *)
(* A URB has the name of the thread that submits it.  A thread of Blocking *)
(* waits for its URB, with a timeout; the hub thread (Intr) submits one    *)
(* that completes by itself, and kills its own and other threads' URBs     *)
(* when a device goes.  A step of the handler is one of its parts; it runs *)
(* when the controller has something to report, which is at any time.  The *)
(* order of a schedule's list is left out: linked is the set of the queue  *)
(* heads in it.  So is how well a transfer has ended.                      *)
(*                                                                         *)
(* The semaphore of a queue head belongs to whichever thread has allocated *)
(* the queue head, so two threads may take it, which XosSemaphore does not *)
(* allow: value and waiter follow xos_sem_take and xos_sem_give.           *)
(*                                                                         *)
(* The model stops where the code works on memory that is not its own:     *)
(*   reuse   a queue head or descriptor is handed out while in use         *)
(*   null    a URB or queue head pointer is NULL                           *)
(*   stale   a URB and a queue head no longer point at each other          *)
(*   freed   a URB is freed while the schedule points at it                *)
(***************************************************************************)
EXTENDS Integers, FiniteSets, FiniteSetsExt, EhciLayout

CONSTANTS
  Blocking, Intr,   \* the threads, and their URBs
  Fresh,            \* threads whose URB is allocated anew for each transfer
  NoUrb,            \* NULL
  Need,             \* Need[u]: the transfer descriptors of a transfer
  Qhs, Qtds,        \* the pools, by index
  MaxLate           \* bound: submits after an early end or a disconnection

ASSUME EhciAssumption ==
  /\ Qhs \subseteq Nat \ {0} /\ Qtds \subseteq Nat /\ IsFiniteSet(Qtds)
  /\ Blocking \cap Intr = {} /\ Fresh \subseteq Blocking /\ NoUrb \notin Blocking \cup Intr
  /\ Need \in [Blocking \cup Intr -> Nat \ {0}]
  /\ MaxLate \in Nat

VARIABLES
  used, qtdUsed,    \* ehci_qh_used, ehci_qtd_used: the indices set
  linked,           \* the queue heads in the asynchronous or periodic schedule
  qhUrb, chain,     \* qh->urb; the descriptors behind qh->first_qtd
  iaad,             \* the queue heads with remove_in_iaad
  value, waiter,    \* the semaphore qh->waitsem
  hcpriv,           \* urb->hcpriv
  busy,             \* the URBs whose errorcode is -EBUSY
  waits,            \* the URBs whose timeout is not 0
  pc, my,           \* where a thread is in a submit or a kill; its local qh
  victim,           \* the URB that a thread kills
  starved,          \* lasting URBs whose last submit found no queue head or descriptor
  bell,             \* usbcmd.IAAD, or usbsts.IAA, is set
  cleared,          \* a disconnection has marked all of both pools as free
  early,            \* a transfer has ended before its thread has begun to wait
  late,             \* submits since a transfer ended early or a device went
  fault             \* "none", or why the model has stopped

qhVars == <<used, linked, qhUrb, iaad>>
qtdVars == <<qtdUsed, chain>>
semVars == <<value, waiter>>
urbVars == <<hcpriv, busy, waits>>
threadVars == <<pc, my, victim, starved>>
flagVars == <<bell, cleared, early, late, fault>>
vars == <<used, qtdUsed, linked, qhUrb, chain, iaad, value, waiter, hcpriv, busy, waits,
          pc, my, victim, starved, bell, cleared, early, late, fault>>

NoQh == 0
Urbs == Blocking \cup Intr
Lasting == Blocking \ Fresh     \* submitted again and again

At(u, where) == fault = "none" /\ pc[u] = where
Goto(u, where) == pc' = [pc EXCEPT ![u] = where]
Break(why) ==
  /\ fault' = why
  /\ UNCHANGED <<qhVars, qtdVars, semVars, urbVars, threadVars, bell, cleared, early, late>>

\* A submit or a kill returns; its locals are gone.
Return(u) ==
  /\ Goto(u, "idle")
  /\ my' = [my EXCEPT ![u] = NoQh]
  /\ victim' = [victim EXCEPT ![u] = u]
ReturnNoMem(u) == Return(u) /\ starved' = starved \cup ({u} \cap Lasting)

InSchedule(u) == \E q \in Qhs : qhUrb[q] = u

\* qh->urb = NULL
Detached(S) == [q \in Qhs |-> IF q \in S THEN NoUrb ELSE qhUrb[q]]

\* ehci_qh_free and ehci_qtd_free, for the queue heads or descriptors of S, and
\* ehci_qh_remove, from either schedule
QhFree(S) == used' = used \ S /\ qhUrb' = Detached(S)
QtdFree(S) == qtdUsed' = qtdUsed \ S
QhRemove(S) == linked' = linked \ S

\* usb_osal_sem_give, for the semaphores of S: it wakes the thread that a
\* semaphore remembers, wherever that thread waits by now, and counts only when
\* there is none.
Give(S, here) ==
  /\ waiter' = [q \in Qhs |-> IF q \in S THEN NoUrb ELSE waiter[q]]
  /\ value' = [q \in Qhs |-> IF q \in S /\ waiter[q] = NoUrb THEN value[q] + 1 ELSE value[q]]
  /\ pc' = [u \in Urbs |-> IF here[u] = "wait" /\ \E q \in S : waiter[q] = u
                           THEN "taken" ELSE here[u]]
-----------------------------------------------------------------------------
(* usbh_submit_urb, as far as the schedule                                 *)

\* usbh_control_urb_fill and usbh_bulk_urb_fill are called with a timeout,
\* usbh_int_urb_fill without one.
UrbFill(u) == waits' = waits \cup ({u} \cap Blocking)

\* A URB that is busy is refused: that changes nothing.  With the search of
\* ehci_qh_alloc: the first queue head whose flag is not set.  Bound: MaxLate.
Submit(u) ==
  /\ At(u, "idle")
  /\ u \notin busy \/ u \in Fresh
  /\ late < MaxLate /\ ~(early /\ cleared)
  /\ late' = IF early \/ cleared THEN late + 1 ELSE 0
  /\ hcpriv' = [hcpriv EXCEPT ![u] = NoQh]
  /\ busy' = busy \cup {u}
  /\ UrbFill(u)
  /\ IF Qhs \subseteq used THEN ReturnNoMem(u)
     ELSE /\ my' = [my EXCEPT ![u] = Min(Qhs \ used)]
          /\ Goto(u, "mark")
          /\ starved' = starved \ {u}
          /\ UNCHANGED victim
  /\ UNCHANGED <<qhVars, qtdVars, semVars, bell, cleared, early, fault>>

\* the queue heads that a thread has allocated and not yet linked
Reserved == {my[u] : u \in {v \in Urbs : pc[v] = "link"}}

QhInUse(q) == q \in linked \cup Reserved \/ qhUrb[q] # NoUrb

\* The first n descriptors whose flag is not set
FirstFree(n) ==
  CHOOSE S \in kSubset(n, Qtds \ qtdUsed) : \A i \in S, j \in (Qtds \ qtdUsed) \ S : i < j

\* mutant: the queue head is not given back
OutOfQtdsLeaks(u) == ReturnNoMem(u) /\ used' = used \cup {my[u]}

\* fewer descriptors than the transfer needs: ehci_qh_free
OutOfQtds(u) == ReturnNoMem(u) /\ QhFree({my[u]})

\* The rest of ehci_qh_alloc, and ehci_qtd_alloc for each descriptor in the same
\* step: the race for a descriptor is the one for a queue head.
Mark(u) ==
  LET q == my[u]
      chosen == FirstFree(Need[u])
  IN  /\ At(u, "mark")
      /\ IF QhInUse(q) THEN Break("reuse")
         ELSE IF Cardinality(Qtds \ qtdUsed) < Need[u]
         THEN /\ OutOfQtds(u)
              /\ iaad' = iaad \ {q}
              /\ UNCHANGED <<linked, qhUrb, qtdVars, semVars, urbVars, flagVars>>
         ELSE IF chosen \cap UNION {chain[p] : p \in linked} # {} THEN Break("reuse")
         ELSE /\ used' = used \cup {q}
              /\ iaad' = iaad \ {q}
              /\ qtdUsed' = qtdUsed \cup chosen
              /\ chain' = [chain EXCEPT ![q] = chosen]
              /\ Goto(u, "link")
              /\ UNCHANGED <<linked, qhUrb, semVars, urbVars, my, victim, starved, flagVars>>

\* The locked end of a URB's init
Schedule(u) ==
  LET q == my[u]
  IN  /\ qhUrb' = [qhUrb EXCEPT ![q] = u]
      /\ hcpriv' = [hcpriv EXCEPT ![u] = q]
      /\ linked' = linked \cup {q}
      /\ Goto(u, "linked")
      /\ UNCHANGED <<used, iaad, qtdVars, semVars, busy, waits, my, victim, starved, flagVars>>

\* ehci_control_urb_init and ehci_bulk_urb_init, for the asynchronous list
LinkAsync(u) == At(u, "link") /\ u \in Blocking /\ Schedule(u)

\* ehci_intr_urb_init, for a list of the periodic heads
LinkPeriodic(u) == At(u, "link") /\ u \in Intr /\ Schedule(u)
-----------------------------------------------------------------------------
(* usbh_submit_urb, behind the schedule                                    *)

\* urb->hcpriv = qh, once more, and the look at urb->timeout: a thread whose URB
\* has no timeout, or has none any more, returns 0.
Linked(u) ==
  LET q == my[u]
  IN  /\ At(u, "linked")
      /\ hcpriv' = [hcpriv EXCEPT ![u] = q]
      /\ early' = (early \/ qhUrb[q] # u)
      /\ IF u \in waits THEN Goto(u, "take") /\ UNCHANGED <<my, victim>> ELSE Return(u)
      /\ UNCHANGED <<qhVars, qtdVars, semVars, busy, waits, starved, bell, cleared, late, fault>>

TakeNow(u) ==
  LET q == my[u]
  IN  /\ At(u, "take") /\ value[q] > 0
      /\ value' = [value EXCEPT ![q] = @ - 1]
      /\ early' = TRUE
      /\ Goto(u, "taken")
      /\ UNCHANGED <<qhVars, qtdVars, waiter, urbVars, my, victim, starved, bell, cleared, late, fault>>

TakeWait(u) ==
  LET q == my[u]
  IN  /\ At(u, "take") /\ value[q] = 0
      /\ waiter' = [waiter EXCEPT ![q] = u]
      /\ Goto(u, "wait")
      /\ UNCHANGED <<qhVars, qtdVars, value, urbVars, my, victim, starved, flagVars>>

\* The timer ends the wait; the semaphore still remembers the thread.
Expire(u) ==
  /\ At(u, "wait")
  /\ Goto(u, "expired")
  /\ UNCHANGED <<qhVars, qtdVars, semVars, urbVars, my, victim, starved, flagVars>>

\* The result is the error code of the URB; the caller frees a fresh URB.
Taken(u) ==
  /\ At(u, "taken")
  /\ IF u \in Fresh /\ InSchedule(u) THEN Break("freed")
     ELSE /\ waits' = waits \ {u}
          /\ Return(u)
          /\ UNCHANGED <<qhVars, qtdVars, semVars, hcpriv, busy, starved, flagVars>>
-----------------------------------------------------------------------------
(* usbh_kill_urb(urb)                                                      *)

\* the look at urb->hcpriv, with interrupts enabled
Expired(u) ==
  /\ At(u, "expired")
  /\ IF hcpriv[u] = NoQh THEN Return(u) ELSE Goto(u, "kill") /\ UNCHANGED <<my, victim>>
  /\ UNCHANGED <<qhVars, qtdVars, semVars, urbVars, starved, flagVars>>

\* usbh_hub_disconnect, usbh_msc_disconnect: nobody else knows a fresh URB
Cancel(a, u) ==
  /\ At(a, "idle") /\ a \in Intr /\ u \notin Fresh
  /\ hcpriv[u] # NoQh
  /\ victim' = [victim EXCEPT ![a] = u]
  /\ Goto(a, "kill")
  /\ UNCHANGED <<qhVars, qtdVars, semVars, urbVars, my, starved, flagVars>>

\* mutants: the thread that waits is not told; the timeout stays
KillTellsNobody(u, h, here) == pc' = here /\ UNCHANGED <<waits, busy, semVars>>

\* a URB with a timeout: the thread that waits for it gets -ESHUTDOWN
KillTells(u, h, here) ==
  /\ waits' = waits \ {u}
  /\ busy' = busy \ {u}
  /\ Give({h}, here)

\* ehci_kill_qh
KilledQtds(gone) == UNION {chain[q] : q \in gone}

\* the locked section
Kill(a) ==
  LET u == victim[a]
      h == hcpriv[u]
      gone == {q \in linked : qhUrb[q] = u}
      home == [pc EXCEPT ![a] = "idle"]
  IN  /\ At(a, "kill")
      /\ IF h = NoQh THEN Break("null")
         ELSE IF qhUrb[h] \notin {u, NoUrb} THEN Break("stale")
         ELSE /\ QhRemove(gone)
              /\ used' = used \ gone
              /\ QtdFree(KilledQtds(gone))
              /\ chain' = [q \in Qhs |-> IF q \in gone THEN {} ELSE chain[q]]
              /\ qhUrb' = Detached(gone \cup {h})
              /\ hcpriv' = [hcpriv EXCEPT ![u] = NoQh]
              /\ IF u \in waits THEN KillTells(u, h, home)
                 ELSE pc' = home /\ UNCHANGED <<waits, busy, semVars>>
              /\ my' = [my EXCEPT ![a] = NoQh]
              /\ victim' = [victim EXCEPT ![a] = a]
              /\ UNCHANGED <<iaad, starved, flagVars>>

\* usbh_hub_disconnect, the rest: the hub and its URB are zeroed.  A kill
\* leaves a URB without timeout busy.
Forget(a) ==
  /\ At(a, "idle") /\ a \in Intr /\ hcpriv[a] = NoQh
  /\ busy' = busy \ {a}
  /\ UNCHANGED <<qhVars, qtdVars, semVars, hcpriv, waits, threadVars, flagVars>>
-----------------------------------------------------------------------------
(* USBH_IRQHandler                                                         *)

\* ehci_urb_waitup for the URBs of the queue heads S
Waitup(S) ==
  /\ QhFree(S)
  /\ hcpriv' = [u \in Urbs |-> IF hcpriv[u] \in S THEN NoQh ELSE hcpriv[u]]
  /\ waits' = waits \ {qhUrb[q] : q \in S}
  /\ Give({q \in S : qhUrb[q] \in waits}, pc)

\* ehci_check_qh, ehci_scan_qtds: the transfer has ended, well or not; the queue
\* head leaves the schedule and its descriptors are free.
CheckQh(q) ==
  /\ busy' = busy \ {qhUrb[q]}
  /\ QhRemove({q})
  /\ QtdFree(chain[q])
  /\ chain' = [chain EXCEPT ![q] = {}]
  /\ UNCHANGED <<my, victim, starved, cleared, early, late, fault>>

\* ehci_scan_async_list: the URB waits for the doorbell.
ScanAsync(q) ==
  /\ fault = "none" /\ q \in linked /\ qhUrb[q] \in Blocking
  /\ CheckQh(q)
  /\ iaad' = iaad \cup {q} /\ bell' = TRUE
  /\ UNCHANGED <<qhUrb, hcpriv, used, waits, pc, semVars>>

\* ehci_scan_periodic_list: the URB ends at once.
ScanPeriodic(q) ==
  LET u == qhUrb[q]
  IN  /\ fault = "none" /\ q \in linked /\ u \in Intr
      /\ IF hcpriv[u] # q THEN Break("stale")
         ELSE CheckQh(q) /\ Waitup({q}) /\ UNCHANGED <<iaad, bell>>

\* A disconnection marks both pools as free.  Bound: one, and none after a
\* transfer has ended early.
PortChange ==
  /\ fault = "none" /\ ~cleared /\ ~early
  /\ used' = {} /\ qtdUsed' = {} /\ cleared' = TRUE
  /\ UNCHANGED <<linked, qhUrb, iaad, chain, semVars, urbVars, threadVars, bell, early, late, fault>>

\* mutant: every queue head that has a URB
RemovedAll == {q \in used : qhUrb[q] # NoUrb}

Removed == used \cap iaad

\* the interrupt on async advance: the loop over the pool
Advance ==
  LET S == Removed
  IN  /\ fault = "none" /\ bell
      /\ IF \E q \in S : qhUrb[q] = NoUrb THEN Break("null")
         ELSE IF \E q \in S : hcpriv[qhUrb[q]] # q THEN Break("stale")
         ELSE /\ bell' = FALSE
              /\ iaad' = iaad \ S
              /\ Waitup(S)
              /\ UNCHANGED <<linked, qtdVars, busy, my, victim, starved, cleared, early, late, fault>>
-----------------------------------------------------------------------------
\* usb_hc_init
Init ==
  /\ used = {} /\ qtdUsed = {} /\ linked = {} /\ iaad = {}
  /\ qhUrb = [q \in Qhs |-> NoUrb] /\ chain = [q \in Qhs |-> {}]
  /\ value = [q \in Qhs |-> 0] /\ waiter = [q \in Qhs |-> NoUrb]
  /\ hcpriv = [u \in Urbs |-> NoQh] /\ busy = {} /\ waits = {}
  /\ pc = [u \in Urbs |-> "idle"] /\ my = [u \in Urbs |-> NoQh]
  /\ victim = [u \in Urbs |-> u] /\ starved = {}
  /\ bell = FALSE /\ cleared = FALSE /\ early = FALSE /\ late = 0 /\ fault = "none"

\* what a thread does inside a submit or a kill
Inside(u) ==
  \/ Mark(u) \/ LinkAsync(u) \/ LinkPeriodic(u) \/ Linked(u)
  \/ TakeNow(u) \/ TakeWait(u) \/ Expire(u) \/ Taken(u) \/ Expired(u) \/ Kill(u)

Handler == Advance \/ PortChange \/ \E q \in Qhs : ScanAsync(q) \/ ScanPeriodic(q)

Next ==
  \/ \E u \in Urbs : Submit(u) \/ Inside(u) \/ Forget(u) \/ \E a \in Intr : Cancel(a, u)
  \/ Handler

Spec == Init /\ [][Next]_vars
-----------------------------------------------------------------------------
(* Properties.                                                             *)

\* Until a disconnection frees both pools, what is marked as free is not in
\* use, and what is marked as used is in use: no path through a submit, a kill,
\* a completion and a doorbell leaks a queue head or a descriptor, or frees one
\* that the schedule or a thread still has (ehci_qh_alloc, ehci_qh_free and
\* their callers).
PoolsAgree ==
  ~cleared =>
    /\ used = Reserved \cup linked \cup iaad
    /\ \A q \in Qhs : qhUrb[q] # NoUrb => q \in used
    /\ qtdUsed = UNION {chain[q] : q \in Qhs}

\* Unless a transfer ends before its thread waits, a wait is ended by the end
\* of its own transfer only, and no URB is freed or given another queue head
\* while the controller has it (usbh_submit_urb, ehci_urb_waitup).
OwnTransferEnds ==
  ~early =>
    /\ \A u \in Urbs : pc[u] = "taken" => u \notin busy /\ ~InSchedule(u)
    /\ fault \notin {"freed", "stale"}

\* Unless a transfer ends before its thread waits, a semaphore that is free has
\* no token and remembers no thread, so the next thread to get its queue head
\* starts afresh: each timed wait is followed by exactly one give.
SemaphoresClean ==
  ~early =>
    \A q \in Qhs :
      /\ value[q] > 0 => \E u \in Urbs : my[u] = q /\ pc[u] \in {"linked", "take"}
      /\ waiter[q] # NoUrb =>
           my[waiter[q]] = q /\ pc[waiter[q]] \in {"wait", "expired", "kill"}

\* The URB of a blocking transfer is refused as busy only while its transfer is
\* in progress, or for ever once a submit has found no queue head or descriptor,
\* or unless a transfer ends before its thread waits.
BusyInProgress ==
  ~early /\ fault = "none" =>
    \A u \in Lasting : pc[u] = "idle" /\ u \in busy => InSchedule(u) \/ u \in starved

\* What a transfer leaves behind when it has ended, in time or not: no token, no
\* waiter and no URB that is busy for ever.  Two cases in which the code does
\* leave them are excepted: a transfer that ends before its thread waits (early),
\* and a submit that has found no queue head or descriptor (starved).
NothingLeftBehind == SemaphoresClean /\ BusyInProgress

\* What the transfers in the schedule rest on.  The frame list that usb_hc_init
\* has built visits every head in the frames of its interval, and
\* ehci_intr_urb_init hangs an endpoint on a head that is visited at least as
\* often as the endpoint asks to be polled; the descriptors that
\* ehci_bulk_urb_init has cut a buffer into reach all of it, page by page, and are
\* as many as it has found free.
ScheduleRight ==
  /\ (\E u \in Intr : InSchedule(u)) => PeriodsKept
  /\ (\E u \in Blocking : InSchedule(u)) => ChunksCover
=============================================================================
