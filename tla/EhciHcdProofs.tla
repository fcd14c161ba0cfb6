---------------------------- MODULE EhciHcdProofs ----------------------------
(***************************************************************************)
(* What holds of the EHCI driver for any number of threads, queue heads    *)
(* and transfer descriptors.                                               *)
(***************************************************************************)
EXTENDS EhciHcd, FiniteSetTheorems, WellFoundedInduction, TLAPS

\* In a submit, with a queue head; and of a blocking transfer, behind the schedule.
Allotted == {"mark", "link", "linked", "take", "wait"}
Behind == {"linked", "take", "wait", "expired", "kill", "taken"}

PCs == {"idle", "mark", "link", "linked", "take", "wait", "expired", "kill", "taken"}

TypeOK ==
  /\ used \subseteq Qhs /\ qtdUsed \subseteq Qtds /\ linked \subseteq Qhs /\ iaad \subseteq Qhs
  /\ qhUrb \in [Qhs -> Urbs \cup {NoUrb}] /\ chain \in [Qhs -> SUBSET Qtds]
  /\ value \in [Qhs -> Nat] /\ waiter \in [Qhs -> Urbs \cup {NoUrb}]
  /\ hcpriv \in [Urbs -> Qhs \cup {NoQh}] /\ busy \subseteq Urbs /\ waits \subseteq Blocking
  /\ pc \in [Urbs -> PCs]
  /\ my \in [Urbs -> Qhs \cup {NoQh}] /\ victim \in [Urbs -> Urbs]
  /\ \A u \in Urbs : pc[u] \in Allotted => my[u] \in Qhs
  /\ \A u \in Urbs : pc[u] \in {"take", "wait", "expired", "taken"} => u \in Blocking
  /\ \A u \in Blocking : victim[u] = u
  /\ bell \in BOOLEAN /\ cleared \in BOOLEAN /\ early \in BOOLEAN

\* A thread has allocated q and not linked it yet: q is in Reserved.
Keeps(q) == \E u \in Urbs : pc[u] = "link" /\ my[u] = q

\* One thread has a queue head between the allocation and the schedule; it is
\* then nobody's, and no doorbell is expected for it.
Ownership ==
  /\ \A u, v \in Urbs : pc[u] = "link" /\ pc[v] = "link" /\ my[u] = my[v] => u = v
  /\ \A u \in Urbs : pc[u] = "link" => my[u] \notin linked \cup iaad /\ qhUrb[my[u]] = NoUrb
  /\ linked \cap iaad = {}
  /\ \A q \in Qhs : q \in linked \/ Keeps(q) \/ chain[q] = {}

\* The chains are apart, and the flags say which queue heads and descriptors
\* are in use: PoolsAgree, member by member.
Apart == \A p, q \in Qhs : p # q => chain[p] \cap chain[q] = {}
QhFlags ==
  \A q \in Qhs :
    /\ q \in used <=> Keeps(q) \/ q \in linked \/ q \in iaad
    /\ qhUrb[q] # NoUrb => q \in used
QtdFlags == \A i \in Qtds : i \in qtdUsed <=> \E q \in Qhs : i \in chain[q]
Flags == ~cleared => Apart /\ QhFlags /\ QtdFlags

PoolInv == Ownership /\ Flags

\* Where a URB and its thread are while the URB has a queue head.
UrbOfQh == \A q \in Qhs : qhUrb[q] # NoUrb => hcpriv[qhUrb[q]] = q
QhOfUrb ==
  \A u \in Urbs : hcpriv[u] # NoQh =>
    /\ qhUrb[hcpriv[u]] = u
    /\ u \in Intr => u \in busy
    /\ u \in Blocking => u \in waits /\ my[u] = hcpriv[u] /\ pc[u] \in Behind \ {"taken"}
Unsent ==
  \A u \in Urbs : pc[u] \in {"mark", "link"} =>
    hcpriv[u] = NoQh /\ u \in busy /\ (u \in Blocking => u \in waits)
WaiterIs ==
  \A q \in Qhs : waiter[q] # NoUrb =>
    /\ waiter[q] \in Blocking /\ hcpriv[waiter[q]] = q
    /\ pc[waiter[q]] \in {"wait", "expired", "kill"}
WaitsThere ==
  \A u \in Blocking :
    /\ pc[u] = "wait" => hcpriv[u] # NoQh
    /\ pc[u] \in {"wait", "expired", "kill"} /\ hcpriv[u] # NoQh => waiter[hcpriv[u]] = u
    /\ pc[u] = "take" => hcpriv[u] # NoQh \/ value[my[u]] > 0
TokenFor == \A q \in Qhs : value[q] > 0 => \E u \in Blocking : my[u] = q /\ pc[u] \in {"linked", "take"}
Ended ==
  /\ \A u \in Blocking : pc[u] \in Behind /\ hcpriv[u] = NoQh => u \notin busy
  /\ \A q \in iaad : qhUrb[q] # NoUrb => qhUrb[q] \notin busy
  /\ \A u \in Lasting : pc[u] = "idle" /\ u \in busy => u \in starved
  /\ fault \notin {"freed", "stale"}

Transfers == UrbOfQh /\ QhOfUrb /\ Unsent /\ WaiterIs /\ WaitsThere /\ TokenFor /\ Ended
TransferInv == ~early => Transfers
-----------------------------------------------------------------------------
(* The search of the pools                                                 *)

LEMMA NatMin ==
  ASSUME NEW T, T \subseteq Nat, T # {}
  PROVE  Min(T) \in T /\ \A y \in T : Min(T) <= y
<1> DEFINE R == {ss \in Nat \X Nat : ss[1] < ss[2]}
<1>1. IsWellFoundedOn(R, Nat)
  BY NatLessThanWellFounded DEF OpToRel
<1>2. PICK x \in T : \A y \in T : ~ (<<y, x>> \in R)
  BY <1>1, WFMin
<1>3. \A y \in T : ~(y < x)
  BY <1>2
<1>4. \A y \in T : x <= y
  BY <1>3
<1> QED BY <1>4 DEF Min

LEMMA FirstHolds ==
  ASSUME NEW n \in Nat, NEW T, T \subseteq Nat, IsFiniteSet(T), Cardinality(T) >= n
  PROVE  \E S \in kSubset(n, T) : \A i \in S, j \in T \ S : i < j
<1> DEFINE Has(m) == \E S \in kSubset(m, T) : \A i \in S, j \in T \ S : i < j
           Bad == {m \in 0..n : ~Has(m)}
<1>1. Has(0)
  <2>1. {} \in kSubset(0, T)
    BY FS_EmptySet DEF kSubset
  <2> QED BY <2>1
<1>2. ASSUME NEW m \in Nat, m < n, Has(m)
      PROVE  Has(m + 1)
  <2>1. PICK S \in kSubset(m, T) : \A i \in S, j \in T \ S : i < j
    BY <1>2
  <2>2. S \subseteq T /\ Cardinality(S) = m /\ IsFiniteSet(S)
    BY FS_Subset DEF kSubset
  <2>3. T \ S # {}
    <3>1. S # T
      BY <1>2, <2>2, FS_CardinalityType
    <3> QED BY <2>2, <3>1
  <2> DEFINE x == Min(T \ S)
             S1 == S \cup {x}
  <2>4. x \in T \ S /\ \A j \in T \ S : x <= j
    BY <2>3, NatMin
  <2>5. S1 \in kSubset(m + 1, T)
    BY <2>2, <2>4, FS_AddElement DEF kSubset
  <2>6. ASSUME NEW i \in S1, NEW j \in T \ S1
        PROVE  i < j
    <3>1. j \in T \ S /\ j # x /\ i \in Nat /\ j \in Nat /\ x \in Nat
      BY <2>2, <2>4
    <3> QED BY <2>1, <2>4, <3>1
  <2> QED BY <2>5, <2>6
<1>3. Bad = {}
  <2> SUFFICES ASSUME Bad # {} PROVE FALSE
    OBVIOUS
  <2>1. Min(Bad) \in Bad /\ \A y \in Bad : Min(Bad) <= y
    BY NatMin
  <2> DEFINE k == Min(Bad) - 1
  <2> HIDE DEF Has
  <2>2. Min(Bad) \in 0..n /\ ~Has(Min(Bad)) /\ Min(Bad) # 0
    BY <1>1, <2>1
  <2>3. k \in Nat /\ k < n /\ k \notin Bad /\ k + 1 = Min(Bad)
    BY <2>1, <2>2
  <2>4. Has(k)
    BY <2>3
  <2>5. Has(k + 1)
    BY <1>2, <2>3, <2>4
  <2> QED BY <2>2, <2>3, <2>5
<1>4. Has(n)
  <2> HIDE DEF Has
  <2> QED BY <1>3
<1> QED BY <1>4

LEMMA FirstFreeRight ==
  ASSUME qtdUsed \subseteq Qtds, NEW n \in Nat, Cardinality(Qtds \ qtdUsed) >= n
  PROVE  FirstFree(n) \subseteq Qtds \ qtdUsed
<1>1. Qtds \ qtdUsed \subseteq Nat /\ IsFiniteSet(Qtds \ qtdUsed)
  BY EhciAssumption, FS_Subset
<1>2. \E S \in kSubset(n, Qtds \ qtdUsed) : \A i \in S, j \in (Qtds \ qtdUsed) \ S : i < j
  BY <1>1, FirstHolds
<1>3. FirstFree(n) \in kSubset(n, Qtds \ qtdUsed)
  BY <1>2 DEF FirstFree
<1> QED BY <1>3 DEF kSubset
-----------------------------------------------------------------------------
(* Types                                                                   *)

LEMMA GiveDoes ==
  ASSUME TypeOK, NEW S \in SUBSET Qhs, NEW here \in [Urbs -> PCs], Give(S, here)
  PROVE  /\ waiter' \in [Qhs -> Urbs \cup {NoUrb}]
         /\ value' \in [Qhs -> Nat]
         /\ pc' \in [Urbs -> PCs]
         /\ \A q \in Qhs : /\ waiter'[q] = IF q \in S THEN NoUrb ELSE waiter[q]
                           /\ value'[q] = IF q \in S /\ waiter[q] = NoUrb THEN value[q] + 1 ELSE value[q]
         /\ \A u \in Urbs : pc'[u] = IF here[u] = "wait" /\ \E q \in S : waiter[q] = u
                                     THEN "taken" ELSE here[u]
<1> USE DEF TypeOK, Give
<1>1. waiter' \in [Qhs -> Urbs \cup {NoUrb}] /\ value' \in [Qhs -> Nat]
  OBVIOUS
<1>2. pc' \in [Urbs -> PCs]
  BY DEF PCs
<1> QED BY <1>1, <1>2

LEMMA GiveMoves ==
  ASSUME TypeOK, NEW S \in SUBSET Qhs, NEW here \in [Urbs -> PCs], Give(S, here)
  PROVE  \A u \in Urbs : pc'[u] = here[u] \/ (here[u] = "wait" /\ pc'[u] = "taken")
BY DEF Give

LEMMA TypeInit == Init => TypeOK
<1> SUFFICES ASSUME Init PROVE TypeOK
  OBVIOUS
<1>1. /\ used \subseteq Qhs /\ qtdUsed \subseteq Qtds /\ linked \subseteq Qhs /\ iaad \subseteq Qhs
      /\ qhUrb \in [Qhs -> Urbs \cup {NoUrb}] /\ chain \in [Qhs -> SUBSET Qtds]
      /\ value \in [Qhs -> Nat] /\ waiter \in [Qhs -> Urbs \cup {NoUrb}]
      /\ hcpriv \in [Urbs -> Qhs \cup {NoQh}] /\ busy \subseteq Urbs /\ waits \subseteq Blocking
  BY DEF Init
<1>2. /\ pc \in [Urbs -> PCs] /\ my \in [Urbs -> Qhs \cup {NoQh}] /\ victim \in [Urbs -> Urbs]
      /\ \A u \in Urbs : pc[u] = "idle" /\ victim[u] = u
  BY DEF Init, PCs
<1>3. bell \in BOOLEAN /\ cleared \in BOOLEAN /\ early \in BOOLEAN
  BY DEF Init
<1> QED BY <1>1, <1>2, <1>3 DEF TypeOK, Allotted, Urbs

\* Mark finds that its queue head or a descriptor is in use, finds too few
\* descriptors, or succeeds.
MarkOut(u) ==
  /\ ~QhInUse(my[u])
  /\ OutOfQtds(u)
  /\ iaad' = iaad \ {my[u]}
  /\ UNCHANGED <<linked, qhUrb, qtdVars, semVars, urbVars, flagVars>>
MarkGot(u, chosen) ==
  /\ ~QhInUse(my[u])
  /\ chosen \subseteq Qtds \ qtdUsed
  /\ used' = used \cup {my[u]}
  /\ iaad' = iaad \ {my[u]}
  /\ qtdUsed' = qtdUsed \cup chosen
  /\ chain' = [chain EXCEPT ![my[u]] = chosen]
  /\ Goto(u, "link")
  /\ UNCHANGED <<linked, qhUrb, semVars, urbVars, my, victim, starved, flagVars>>

LEMMA MarkCases ==
  ASSUME TypeOK, NEW u \in Urbs, Mark(u)
  PROVE  /\ fault = "none" /\ pc[u] = "mark" /\ my[u] \in Qhs
         /\ Break("reuse") \/ MarkOut(u) \/ MarkGot(u, FirstFree(Need[u]))
<1>1. fault = "none" /\ pc[u] = "mark"
  BY DEF Mark, At
<1>2. my[u] \in Qhs
  BY <1>1 DEF TypeOK, Allotted
<1>3. CASE QhInUse(my[u])
  BY <1>1, <1>2, <1>3 DEF Mark
<1>4. CASE ~QhInUse(my[u]) /\ Cardinality(Qtds \ qtdUsed) < Need[u]
  BY <1>1, <1>2, <1>4 DEF Mark, MarkOut
<1>5. CASE ~QhInUse(my[u]) /\ ~(Cardinality(Qtds \ qtdUsed) < Need[u])
  <2>1. Need[u] \in Nat /\ Cardinality(Qtds \ qtdUsed) \in Nat
    BY EhciAssumption, FS_Subset, FS_CardinalityType DEF Urbs
  <2>2. Cardinality(Qtds \ qtdUsed) >= Need[u] /\ qtdUsed \subseteq Qtds
    BY <1>5, <2>1 DEF TypeOK
  <2>3. FirstFree(Need[u]) \subseteq Qtds \ qtdUsed
    BY <2>1, <2>2, FirstFreeRight
  <2> QED BY <1>1, <1>2, <1>5, <2>3 DEF Mark, MarkGot
<1> QED BY <1>3, <1>4, <1>5

\* What a kill by thread a of URB u does with queue head h, when it does not break.
Gone(u) == {q \in linked : qhUrb[q] = u}
KillDone(a, u, h) ==
  /\ qhUrb[h] \in {u, NoUrb}
  /\ linked' = linked \ Gone(u) /\ used' = used \ Gone(u)
  /\ qtdUsed' = qtdUsed \ UNION {chain[q] : q \in Gone(u)}
  /\ chain' = [q \in Qhs |-> IF q \in Gone(u) THEN {} ELSE chain[q]]
  /\ qhUrb' = [q \in Qhs |-> IF q \in Gone(u) \cup {h} THEN NoUrb ELSE qhUrb[q]]
  /\ hcpriv' = [hcpriv EXCEPT ![u] = NoQh]
  /\ my' = [my EXCEPT ![a] = NoQh]
  /\ victim' = [victim EXCEPT ![a] = a]
  /\ UNCHANGED <<iaad, starved, flagVars>>
  /\ \/ /\ u \in waits
        /\ waits' = waits \ {u} /\ busy' = busy \ {u}
        /\ Give({h}, [pc EXCEPT ![a] = "idle"])
     \/ /\ u \notin waits
        /\ pc' = [pc EXCEPT ![a] = "idle"] /\ UNCHANGED <<waits, busy, semVars>>

LEMMA KillCases ==
  ASSUME TypeOK, NEW a \in Urbs, Kill(a)
  PROVE  /\ fault = "none" /\ pc[a] = "kill" /\ victim[a] \in Urbs
         /\ \/ Break("null")
            \/ hcpriv[victim[a]] \in Qhs /\ qhUrb[hcpriv[victim[a]]] \notin {victim[a], NoUrb} /\ Break("stale")
            \/ hcpriv[victim[a]] \in Qhs /\ KillDone(a, victim[a], hcpriv[victim[a]])
<1> DEFINE u == victim[a]
           h == hcpriv[u]
<1>1. fault = "none" /\ pc[a] = "kill" /\ u \in Urbs /\ h \in Qhs \cup {NoQh}
  BY DEF Kill, At, TypeOK
<1>2. CASE h = NoQh
  BY <1>1, <1>2 DEF Kill
<1>3. CASE h # NoQh /\ qhUrb[h] \notin {u, NoUrb}
  BY <1>1, <1>3 DEF Kill
<1>4. CASE h # NoQh /\ qhUrb[h] \in {u, NoUrb}
  <2>1. CASE u \in waits
    BY <1>1, <1>4, <2>1 DEF Kill, KillDone, Gone, QhRemove, QtdFree, KilledQtds, Detached, KillTells
  <2>2. CASE u \notin waits
    BY <1>1, <1>4, <2>2 DEF Kill, KillDone, Gone, QhRemove, QtdFree, KilledQtds, Detached
  <2> QED BY <2>1, <2>2
<1> QED BY <1>1, <1>2, <1>3, <1>4

\* What the handler does when the interrupt transfer of q ends.
PeriodicDone(q) ==
  /\ qhUrb[q] \in Intr /\ hcpriv[qhUrb[q]] = q
  /\ CheckQh(q) /\ Waitup({q}) /\ UNCHANGED <<iaad, bell>>
AdvanceDone ==
  /\ \A q \in Removed : qhUrb[q] # NoUrb /\ hcpriv[qhUrb[q]] = q
  /\ bell' = FALSE /\ iaad' = iaad \ Removed /\ Waitup(Removed)
  /\ UNCHANGED <<linked, qtdVars, busy, my, victim, starved, cleared, early, late, fault>>

LEMMA PeriodicCases ==
  ASSUME NEW q \in Qhs, ScanPeriodic(q)
  PROVE  /\ fault = "none" /\ q \in linked /\ qhUrb[q] \in Intr
         /\ (hcpriv[qhUrb[q]] # q /\ Break("stale")) \/ PeriodicDone(q)
BY DEF ScanPeriodic, PeriodicDone

LEMMA AdvanceCases ==
  ASSUME Advance
  PROVE  /\ fault = "none"
         /\ \/ Break("null")
            \/ (\E q \in Removed : qhUrb[q] # NoUrb /\ hcpriv[qhUrb[q]] # q) /\ Break("stale")
            \/ AdvanceDone
<1>1. CASE \E q \in Removed : qhUrb[q] = NoUrb
  BY <1>1 DEF Advance
<1>2. CASE (\A q \in Removed : qhUrb[q] # NoUrb) /\ \E q \in Removed : hcpriv[qhUrb[q]] # q
  BY <1>2 DEF Advance
<1>3. CASE \A q \in Removed : qhUrb[q] # NoUrb /\ hcpriv[qhUrb[q]] = q
  BY <1>3 DEF Advance, AdvanceDone
<1> QED BY <1>1, <1>2, <1>3

LEMMA WaitupDoes ==
  ASSUME TypeOK, NEW S \in SUBSET Qhs, Waitup(S)
  PROVE  /\ used' = used \ S /\ used' \subseteq Qhs
         /\ qhUrb' = [q \in Qhs |-> IF q \in S THEN NoUrb ELSE qhUrb[q]]
         /\ qhUrb' \in [Qhs -> Urbs \cup {NoUrb}]
         /\ hcpriv' = [u \in Urbs |-> IF hcpriv[u] \in S THEN NoQh ELSE hcpriv[u]]
         /\ hcpriv' \in [Urbs -> Qhs \cup {NoQh}]
         /\ waits' = waits \ {qhUrb[q] : q \in S} /\ waits' \subseteq Blocking
         /\ Give({q \in S : qhUrb[q] \in waits}, pc)
         /\ waiter' \in [Qhs -> Urbs \cup {NoUrb}] /\ value' \in [Qhs -> Nat]
         /\ pc' \in [Urbs -> PCs]
         /\ \A u \in Urbs : pc'[u] = pc[u] \/ (pc[u] = "wait" /\ pc'[u] = "taken")
<1>1. /\ used' = used \ S /\ used' \subseteq Qhs
      /\ qhUrb' = [q \in Qhs |-> IF q \in S THEN NoUrb ELSE qhUrb[q]]
      /\ hcpriv' = [u \in Urbs |-> IF hcpriv[u] \in S THEN NoQh ELSE hcpriv[u]]
      /\ waits' = waits \ {qhUrb[q] : q \in S} /\ waits' \subseteq Blocking
      /\ Give({q \in S : qhUrb[q] \in waits}, pc)
  BY DEF Waitup, QhFree, Detached, TypeOK
<1> DEFINE G == {q \in S : qhUrb[q] \in waits}
<1>2. pc \in [Urbs -> PCs] /\ G \in SUBSET Qhs
  BY DEF TypeOK
<1>3. /\ waiter' \in [Qhs -> Urbs \cup {NoUrb}] /\ value' \in [Qhs -> Nat]
      /\ pc' \in [Urbs -> PCs]
      /\ \A u \in Urbs : pc'[u] = pc[u] \/ (pc[u] = "wait" /\ pc'[u] = "taken")
  <2>1. Give(G, pc)
    BY <1>1
  <2> HIDE DEF G
  <2> QED BY <1>2, <2>1, GiveDoes
<1>4. qhUrb' \in [Qhs -> Urbs \cup {NoUrb}] /\ hcpriv' \in [Urbs -> Qhs \cup {NoQh}]
  BY <1>1 DEF TypeOK
<1> QED BY <1>1, <1>3, <1>4

LEMMA TypeStep ==
  ASSUME TypeOK, [Next]_vars
  PROVE  TypeOK'
<1> USE DEF Urbs, Allotted
<1>1. ASSUME NEW u \in Urbs, Submit(u)
      PROVE  TypeOK'
  <2>1. hcpriv' \in [Urbs -> Qhs \cup {NoQh}] /\ busy' \subseteq Urbs /\ waits' \subseteq Blocking
    BY <1>1 DEF Submit, TypeOK, UrbFill
  <2>2. CASE Qhs \subseteq used
    BY <1>1, <2>1, <2>2 DEF Submit, TypeOK, ReturnNoMem, Return, Goto, PCs, At, qhVars, qtdVars, semVars
  <2>3. CASE ~(Qhs \subseteq used)
    <3>1. Min(Qhs \ used) \in Qhs
      BY <2>3, NatMin, EhciAssumption
    <3>2. my' = [my EXCEPT ![u] = Min(Qhs \ used)] /\ Goto(u, "mark") /\ UNCHANGED victim
      BY <1>1, <2>3 DEF Submit
    <3> QED BY <1>1, <2>1, <3>1, <3>2 DEF Submit, TypeOK, Goto, PCs, At, qhVars, qtdVars, semVars
  <2> QED BY <2>2, <2>3
<1>2. ASSUME NEW u \in Urbs, Mark(u)
      PROVE  TypeOK'
  <2> USE MarkCases DEF flagVars, qhVars, qtdVars, semVars, urbVars, threadVars
  <2>1. CASE Break("reuse")
    BY <2>1 DEF TypeOK, Break
  <2>2. CASE MarkOut(u)
    BY <1>2, <2>2 DEF MarkOut, OutOfQtds, ReturnNoMem, Return, Goto, QhFree, TypeOK, PCs
  <2>3. ASSUME NEW chosen, MarkGot(u, chosen)
        PROVE  TypeOK'
    <3>0. chosen \in SUBSET Qtds
      BY <2>3 DEF MarkGot
    <3>1. used' \subseteq Qhs /\ iaad' \subseteq Qhs /\ qtdUsed' \subseteq Qtds
      <4>1. my[u] \in Qhs
        BY <1>2
      <4>2. used' = used \cup {my[u]} /\ iaad' = iaad \ {my[u]} /\ qtdUsed' = qtdUsed \cup chosen
        BY <2>3 DEF MarkGot
      <4>3. used \subseteq Qhs /\ iaad \subseteq Qhs /\ qtdUsed \subseteq Qtds
        BY DEF TypeOK
      <4> QED BY <3>0, <4>1, <4>2, <4>3
    <3>4. chain' \in [Qhs -> SUBSET Qtds]
      <4>1. chain' = [chain EXCEPT ![my[u]] = chosen] /\ chain \in [Qhs -> SUBSET Qtds]
        BY <2>3 DEF MarkGot, TypeOK
      <4> QED BY <3>0, <4>1
    <3>2. pc' \in [Urbs -> PCs] /\ \A v \in Urbs : v # u => pc'[v] = pc[v]
      BY <2>3 DEF MarkGot, Goto, TypeOK, PCs
    <3>3. my[u] \in Qhs /\ pc'[u] = "link"
      BY <1>2, <2>3 DEF MarkGot, Goto, TypeOK
    <3> QED BY <2>3, <3>1, <3>2, <3>3, <3>4 DEF MarkGot, TypeOK
  <2> QED BY <1>2, <2>1, <2>2, <2>3
<1>3. ASSUME NEW u \in Urbs, LinkAsync(u) \/ LinkPeriodic(u)
      PROVE  TypeOK'
  <2>1. Schedule(u) /\ pc[u] = "link"
    BY <1>3 DEF LinkAsync, LinkPeriodic, At
  <2> QED BY <2>1 DEF Schedule, Goto, TypeOK, PCs, qtdVars, semVars, flagVars
<1>4. ASSUME NEW u \in Urbs, Linked(u)
      PROVE  TypeOK'
  <2> USE DEF qhVars, qtdVars, semVars
  <2>1. pc[u] = "linked" /\ hcpriv' = [hcpriv EXCEPT ![u] = my[u]] /\ early' \in BOOLEAN
        /\ UNCHANGED <<qhVars, qtdVars, semVars, busy, waits, starved, bell, cleared, late, fault>>
    BY <1>4 DEF Linked, At, TypeOK
  <2>2. CASE u \in waits
    BY <1>4, <2>1, <2>2 DEF Linked, Goto, TypeOK, PCs
  <2>3. CASE u \notin waits
    BY <1>4, <2>1, <2>3 DEF Linked, Return, Goto, TypeOK, PCs
  <2> QED BY <2>2, <2>3
<1>5. ASSUME NEW u \in Urbs, TakeNow(u)
      PROVE  TypeOK'
  BY <1>5 DEF TakeNow, At, Goto, TypeOK, PCs, qhVars, qtdVars, urbVars
<1>6. ASSUME NEW u \in Urbs, TakeWait(u)
      PROVE  TypeOK'
  BY <1>6 DEF TakeWait, At, Goto, TypeOK, PCs, qhVars, qtdVars, urbVars, flagVars
<1>7. ASSUME NEW u \in Urbs, Expire(u)
      PROVE  TypeOK'
  BY <1>7 DEF Expire, At, Goto, TypeOK, PCs, qhVars, qtdVars, urbVars, flagVars, semVars
<1>8. ASSUME NEW u \in Urbs, Taken(u)
      PROVE  TypeOK'
  <2> USE DEF qhVars, qtdVars, semVars, flagVars, urbVars, threadVars
  <2>1. CASE Break("freed")
    BY <2>1 DEF Break, TypeOK
  <2>2. CASE waits' = waits \ {u} /\ Return(u) /\ UNCHANGED <<qhVars, qtdVars, semVars, hcpriv, busy, starved, flagVars>>
    BY <2>2 DEF Return, Goto, TypeOK, PCs
  <2> QED BY <1>8, <2>1, <2>2 DEF Taken
<1>9. ASSUME NEW u \in Urbs, Expired(u)
      PROVE  TypeOK'
  <2> USE DEF qhVars, qtdVars, semVars, flagVars, urbVars
  <2>1. CASE hcpriv[u] = NoQh
    BY <1>9, <2>1 DEF Expired, At, Return, Goto, TypeOK, PCs
  <2>2. CASE hcpriv[u] # NoQh
    BY <1>9, <2>2 DEF Expired, At, Goto, TypeOK, PCs
  <2> QED BY <2>1, <2>2
<1>10. ASSUME NEW a \in Urbs, Kill(a)
       PROVE  TypeOK'
  <2> USE DEF qhVars, qtdVars, semVars, flagVars, urbVars, threadVars
  <2>1. CASE \E why : Break(why)
    BY <2>1 DEF Break, TypeOK
  <2>2. CASE hcpriv[victim[a]] \in Qhs /\ KillDone(a, victim[a], hcpriv[victim[a]])
    <3> DEFINE here == [pc EXCEPT ![a] = "idle"]
    <3>1. here \in [Urbs -> PCs]
      BY DEF TypeOK, PCs
    <3>2. victim[a] \in Urbs
      BY DEF TypeOK
    <3>3. /\ waiter' \in [Qhs -> Urbs \cup {NoUrb}] /\ value' \in [Qhs -> Nat]
          /\ waits' \subseteq Blocking /\ busy' \subseteq Urbs /\ pc' \in [Urbs -> PCs]
          /\ \A v \in Urbs : pc'[v] = here[v] \/ (here[v] = "wait" /\ pc'[v] = "taken")
      <4>1. CASE waits' = waits \ {victim[a]} /\ busy' = busy \ {victim[a]} /\ Give({hcpriv[victim[a]]}, here)
        <5>1. {hcpriv[victim[a]]} \in SUBSET Qhs
          BY <2>2
        <5>2. /\ waiter' \in [Qhs -> Urbs \cup {NoUrb}] /\ value' \in [Qhs -> Nat] /\ pc' \in [Urbs -> PCs]
              /\ \A v \in Urbs : pc'[v] = here[v] \/ (here[v] = "wait" /\ pc'[v] = "taken")
          <6> HIDE DEF here
          <6> QED BY <3>1, <4>1, <5>1, GiveDoes
        <5> QED BY <4>1, <5>2 DEF TypeOK
      <4>2. CASE pc' = here /\ UNCHANGED <<waits, busy, semVars>>
        BY <2>2, <3>1, <4>2 DEF TypeOK
      <4> QED BY <2>2, <4>1, <4>2 DEF KillDone
    <3>4. /\ hcpriv' \in [Urbs -> Qhs \cup {NoQh}] /\ my' \in [Urbs -> Qhs \cup {NoQh}] /\ victim' \in [Urbs -> Urbs]
          /\ \A v \in Urbs : v # a => my'[v] = my[v] /\ victim'[v] = victim[v]
          /\ victim'[a] = a
      BY <2>2 DEF KillDone, TypeOK
    <3>5. \A v \in Urbs : pc'[v] \in Allotted => v # a /\ pc[v] = pc'[v]
      BY <3>3 DEF TypeOK
    <3>6. \A v \in Urbs : pc'[v] \in {"take", "wait", "expired", "taken"} => v \in Blocking
      BY <3>3 DEF TypeOK
    <3>7. /\ used' \subseteq Qhs /\ qtdUsed' \subseteq Qtds /\ linked' \subseteq Qhs /\ iaad' \subseteq Qhs
          /\ qhUrb' \in [Qhs -> Urbs \cup {NoUrb}] /\ chain' \in [Qhs -> SUBSET Qtds]
          /\ bell' \in BOOLEAN /\ cleared' \in BOOLEAN /\ early' \in BOOLEAN
      BY <2>2 DEF KillDone, TypeOK
    <3>8. \A v \in Urbs : pc'[v] \in Allotted => my'[v] \in Qhs
      BY <3>4, <3>5 DEF TypeOK
    <3>9. \A v \in Blocking : victim'[v] = v
      BY <3>4 DEF TypeOK
    <3> QED BY <3>3, <3>4, <3>6, <3>7, <3>8, <3>9 DEF TypeOK
  <2> QED BY <1>10, <2>1, <2>2, KillCases
<1>11. ASSUME NEW a \in Intr, NEW u \in Urbs, Cancel(a, u)
       PROVE  TypeOK'
  <2>1. a \in Urbs /\ a \notin Blocking /\ pc[a] = "idle"
    BY <1>11, EhciAssumption DEF Cancel, At
  <2> QED BY <1>11, <2>1 DEF Cancel, Goto, TypeOK, PCs, qhVars, qtdVars, semVars, flagVars, urbVars
<1>12. ASSUME NEW u \in Urbs, Forget(u)
       PROVE  TypeOK'
  BY <1>12 DEF Forget, TypeOK, qhVars, qtdVars, semVars, flagVars, threadVars
<1>13. ASSUME NEW q \in Qhs, ScanAsync(q)
       PROVE  TypeOK'
  BY <1>13 DEF ScanAsync, CheckQh, QhRemove, QtdFree, TypeOK, semVars
<1>14. ASSUME NEW q \in Qhs, ScanPeriodic(q)
       PROVE  TypeOK'
  <2>1. CASE Break("stale")
    BY <2>1 DEF Break, TypeOK, qhVars, qtdVars, semVars, urbVars, threadVars
  <2>2. CASE PeriodicDone(q)
    <3>1. CheckQh(q) /\ Waitup({q}) /\ UNCHANGED <<iaad, bell>>
      BY <2>2 DEF PeriodicDone
    <3>2. /\ qtdUsed' \subseteq Qtds /\ linked' \subseteq Qhs /\ busy' \subseteq Urbs
          /\ chain' \in [Qhs -> SUBSET Qtds] /\ UNCHANGED <<my, victim, starved, cleared, early, late, fault>>
      BY <3>1 DEF CheckQh, QhRemove, QtdFree, TypeOK
    <3> QED BY <3>1, <3>2, WaitupDoes DEF TypeOK
  <2> QED BY <1>14, <2>1, <2>2, PeriodicCases
<1>15. CASE PortChange
  BY <1>15 DEF PortChange, TypeOK, semVars, urbVars, threadVars
<1>16. CASE Advance
  <2>1. CASE \E why : Break(why)
    BY <2>1 DEF Break, TypeOK, qhVars, qtdVars, semVars, urbVars, threadVars
  <2>2. CASE AdvanceDone
    <3>1. Removed \subseteq Qhs
      BY DEF Removed, TypeOK
    <3>2. Waitup(Removed) /\ iaad' \subseteq Qhs /\ bell' = FALSE
          /\ UNCHANGED <<linked, qtdVars, busy, my, victim, starved, cleared, early, late, fault>>
      BY <2>2 DEF AdvanceDone, TypeOK
    <3> QED BY <3>1, <3>2, WaitupDoes DEF TypeOK, qtdVars
  <2> QED BY <1>16, <2>1, <2>2, AdvanceCases
<1>17. CASE UNCHANGED vars
  BY <1>17 DEF vars, TypeOK
<1> QED
  BY <1>1, <1>2, <1>3, <1>4, <1>5, <1>6, <1>7, <1>8, <1>9, <1>10, <1>11, <1>12, <1>13, <1>14,
     <1>15, <1>16, <1>17 DEF Next, Inside, Handler
-----------------------------------------------------------------------------
(* The pools                                                               *)

LEMMA KeepsIsReserved ==
  ASSUME NEW q
  PROVE  Keeps(q) <=> q \in Reserved
BY DEF Keeps, Reserved

LEMMA PoolsFollow ==
  ASSUME TypeOK, PoolInv
  PROVE  PoolsAgree
<1> SUFFICES ASSUME ~cleared
             PROVE  /\ used = Reserved \cup linked \cup iaad
                    /\ \A q \in Qhs : qhUrb[q] # NoUrb => q \in used
                    /\ qtdUsed = UNION {chain[q] : q \in Qhs}
  BY DEF PoolsAgree
<1>1. QhFlags /\ QtdFlags
  BY DEF PoolInv, Flags
<1>2. Reserved \subseteq Qhs
  BY DEF Reserved, TypeOK, Allotted
<1>3. used = Reserved \cup linked \cup iaad
  BY <1>1, <1>2, KeepsIsReserved DEF QhFlags, TypeOK
<1>4. qtdUsed = UNION {chain[q] : q \in Qhs}
  <2>1. \A q \in Qhs : chain[q] \subseteq Qtds
    BY DEF TypeOK
  <2> QED BY <1>1, <2>1 DEF QtdFlags, TypeOK
<1> QED BY <1>1, <1>3, <1>4 DEF QhFlags

\* Nothing that the pools and their flags are about changes.
PoolsStay ==
  /\ UNCHANGED <<used, qtdUsed, linked, qhUrb, chain, iaad, cleared>>
  /\ \A u \in Urbs : /\ pc'[u] = "link" <=> pc[u] = "link"
                     /\ pc[u] = "link" => my'[u] = my[u]

LEMMA StayKeeps ==
  ASSUME PoolInv, PoolsStay
  PROVE  PoolInv'
<1>1. \A q : Keeps(q)' <=> Keeps(q)
  BY DEF Keeps, PoolsStay
<1>2. Ownership'
  BY <1>1 DEF PoolInv, Ownership, PoolsStay
<1>3. cleared' \/ (Apart' /\ QhFlags' /\ QtdFlags')
  BY <1>1 DEF PoolInv, Flags, Apart, QhFlags, QtdFlags, PoolsStay
<1> QED BY <1>2, <1>3 DEF PoolInv, Flags

LEMMA PoolInit == Init => PoolInv
BY EhciAssumption DEF Init, PoolInv, Ownership, Flags, Apart, QhFlags, QtdFlags, Keeps, Urbs

LEMMA PoolMark ==
  ASSUME TypeOK, PoolInv, NEW u \in Urbs, Mark(u)
  PROVE  PoolInv'
<1> DEFINE q == my[u]
<1>0. pc[u] = "mark" /\ q \in Qhs
  BY MarkCases
<1>1. CASE Break("reuse")
  BY <1>1, StayKeeps DEF Break, PoolsStay, qhVars, qtdVars, threadVars
<1>2. CASE MarkOut(u)
  <2>1. ~Keeps(q) /\ q \notin linked /\ qhUrb[q] = NoUrb
    BY <1>2, KeepsIsReserved DEF MarkOut, QhInUse
  <2>2. used' = used \ {q} /\ iaad' = iaad \ {q} /\ UNCHANGED <<linked, qhUrb, qtdUsed, chain, cleared>>
    BY <1>2 DEF MarkOut, OutOfQtds, QhFree, qtdVars, flagVars
  <2>3. \A v \in Urbs : (pc'[v] = "link" <=> pc[v] = "link") /\ (pc[v] = "link" => my'[v] = my[v])
    BY <1>0, <1>2 DEF MarkOut, OutOfQtds, ReturnNoMem, Return, Goto, TypeOK
  <2>4. \A p : Keeps(p)' <=> Keeps(p)
    BY <2>3 DEF Keeps
  <2>5. Ownership'
    BY <2>2, <2>3, <2>4 DEF PoolInv, Ownership
  <2>6. Flags'
    BY <2>1, <2>2, <2>4 DEF PoolInv, Flags, Apart, QhFlags, QtdFlags
  <2> QED BY <2>5, <2>6 DEF PoolInv
<1>3. ASSUME NEW chosen, MarkGot(u, chosen)
      PROVE  PoolInv'
  <2>1. ~Keeps(q) /\ q \notin linked /\ qhUrb[q] = NoUrb
    BY <1>3, KeepsIsReserved DEF MarkGot, QhInUse
  <2>2. used' = used \cup {q} /\ iaad' = iaad \ {q} /\ qtdUsed' = qtdUsed \cup chosen
        /\ UNCHANGED <<linked, qhUrb, my, cleared>>
    BY <1>3 DEF MarkGot, flagVars
  <2>3. /\ \A v \in Urbs : pc'[v] = IF v = u THEN "link" ELSE pc[v]
        /\ \A p \in Qhs : chain'[p] = IF p = q THEN chosen ELSE chain[p]
    BY <1>0, <1>3 DEF MarkGot, Goto, TypeOK
  <2>4. \A p : Keeps(p)' <=> Keeps(p) \/ p = q
    BY <1>0, <2>2, <2>3 DEF Keeps
  <2>5. chain[q] = {} /\ chosen \subseteq Qtds /\ chosen \cap qtdUsed = {}
    BY <1>0, <1>3, <2>1 DEF MarkGot, PoolInv, Ownership
  <2>6. Ownership'
    <3>1. \A v \in Urbs : pc[v] = "link" => my[v] # q
      BY <2>1 DEF Keeps
    <3>2. \A v, w \in Urbs : pc'[v] = "link" /\ pc'[w] = "link" /\ my[v] = my[w] => v = w
      BY <2>3, <3>1 DEF PoolInv, Ownership
    <3>3. \A v \in Urbs : pc'[v] = "link" => my[v] \notin linked \cup iaad' /\ qhUrb[my[v]] = NoUrb
      BY <2>1, <2>2, <2>3 DEF PoolInv, Ownership
    <3>4. linked \cap iaad' = {}
      BY <2>2 DEF PoolInv, Ownership
    <3>5. \A p \in Qhs : p \in linked \/ Keeps(p)' \/ chain'[p] = {}
      BY <2>3, <2>4 DEF PoolInv, Ownership
    <3> QED BY <2>2, <3>2, <3>3, <3>4, <3>5 DEF Ownership
  <2>7. ASSUME ~cleared
        PROVE  Apart' /\ QhFlags' /\ QtdFlags'
    <3>1. QhFlags'
      BY <2>2, <2>4, <2>7 DEF PoolInv, Flags, QhFlags
    <3>2. \A p \in Qhs : chain[p] \cap chosen = {}
      BY <2>5, <2>7 DEF PoolInv, Flags, QtdFlags, TypeOK
    <3>3. Apart'
      BY <2>3, <2>7, <3>2 DEF PoolInv, Flags, Apart
    <3>4. QtdFlags'
      BY <1>0, <2>2, <2>3, <2>5, <2>7 DEF PoolInv, Flags, QtdFlags
    <3> QED BY <3>1, <3>3, <3>4
  <2> QED BY <2>2, <2>6, <2>7 DEF PoolInv, Flags
<1> QED BY <1>1, <1>2, <1>3, MarkCases

LEMMA PoolSchedule ==
  ASSUME TypeOK, PoolInv, NEW u \in Urbs, pc[u] = "link", Schedule(u)
  PROVE  PoolInv'
<1> DEFINE q == my[u]
<1>1. q \in Qhs
  BY DEF TypeOK, Allotted
<1>2. linked' = linked \cup {q} /\ UNCHANGED <<used, iaad, my, qtdUsed, chain, cleared>>
  BY DEF Schedule, qtdVars, flagVars
<1>3. /\ \A v \in Urbs : pc'[v] = IF v = u THEN "linked" ELSE pc[v]
      /\ \A p \in Qhs : qhUrb'[p] = IF p = q THEN u ELSE qhUrb[p]
  BY <1>1 DEF Schedule, Goto, TypeOK
<1>4. \A v \in Urbs : v # u /\ pc[v] = "link" => my[v] # q
  BY DEF PoolInv, Ownership
<1>5. \A p : Keeps(p)' <=> Keeps(p) /\ p # q
  BY <1>2, <1>3, <1>4 DEF Keeps
<1>6. Keeps(q) /\ q \notin linked \cup iaad
  BY DEF Keeps, PoolInv, Ownership
<1>7. Ownership'
  <2>1. \A v, w \in Urbs : pc'[v] = "link" /\ pc'[w] = "link" /\ my[v] = my[w] => v = w
    BY <1>3 DEF PoolInv, Ownership
  <2>2. \A v \in Urbs : pc'[v] = "link" => my[v] \notin linked' \cup iaad /\ qhUrb'[my[v]] = NoUrb
    BY <1>2, <1>3, <1>4 DEF PoolInv, Ownership, TypeOK, Allotted
  <2>3. linked' \cap iaad = {}
    BY <1>2, <1>6 DEF PoolInv, Ownership
  <2>4. \A p \in Qhs : p \in linked' \/ Keeps(p)' \/ chain[p] = {}
    BY <1>2, <1>5 DEF PoolInv, Ownership
  <2> QED BY <1>2, <2>1, <2>2, <2>3, <2>4 DEF Ownership
<1>8. ASSUME ~cleared
      PROVE  Apart' /\ QhFlags' /\ QtdFlags'
  <2>1. QhFlags'
    BY <1>2, <1>3, <1>5, <1>6, <1>8 DEF PoolInv, Flags, QhFlags
  <2> QED BY <1>2, <1>8, <2>1 DEF PoolInv, Flags, Apart, QtdFlags
<1> QED BY <1>2, <1>7, <1>8 DEF PoolInv, Flags

LEMMA PoolKill ==
  ASSUME TypeOK, PoolInv, NEW a \in Urbs, Kill(a)
  PROVE  PoolInv'
<1>1. CASE \E why : Break(why)
  BY <1>1, StayKeeps DEF Break, PoolsStay, qhVars, qtdVars, threadVars
<1>2. ASSUME NEW u \in Urbs, NEW h \in Qhs, KillDone(a, u, h)
      PROVE  PoolInv'
  <2> DEFINE gone == Gone(u)
  <2>1. /\ linked' = linked \ gone /\ used' = used \ gone
        /\ qtdUsed' = qtdUsed \ UNION {chain[q] : q \in gone}
        /\ UNCHANGED <<iaad, cleared>>
        /\ \A q \in Qhs : /\ chain'[q] = IF q \in gone THEN {} ELSE chain[q]
                          /\ qhUrb'[q] # NoUrb => qhUrb[q] # NoUrb /\ q \notin gone
                          /\ qhUrb[q] = NoUrb => qhUrb'[q] = NoUrb
    BY <1>2 DEF KillDone, flagVars
  <2>2. gone \subseteq linked /\ gone \subseteq Qhs
    BY DEF Gone, TypeOK
  <2>3. \A v \in Urbs : /\ pc'[v] = "link" <=> pc[v] = "link"
                        /\ pc[v] = "link" => my'[v] = my[v]
    <3> DEFINE here == [pc EXCEPT ![a] = "idle"]
    <3>1. pc[a] = "kill"
      BY KillCases
    <3>2. here \in [Urbs -> PCs] /\ {h} \in SUBSET Qhs
      BY DEF TypeOK, PCs
    <3>3. \A v \in Urbs : pc'[v] = here[v] \/ (here[v] = "wait" /\ pc'[v] = "taken")
      <4>1. CASE Give({h}, here)
        <5>1. here \in [Urbs -> PCs]
          BY <3>2
        <5>2. {h} \in SUBSET Qhs
          BY <3>2
        <5> HIDE DEF here
        <5> QED BY <4>1, <5>1, <5>2, GiveMoves
      <4> QED BY <1>2, <4>1 DEF KillDone
    <3> QED BY <1>2, <3>1, <3>3 DEF KillDone, TypeOK
  <2>4. \A q : Keeps(q)' <=> Keeps(q)
    BY <2>3 DEF Keeps
  <2> HIDE DEF gone
  <2>5. Ownership'
    BY <2>1, <2>2, <2>3, <2>4 DEF PoolInv, Ownership, TypeOK, Allotted
  <2>6. ASSUME ~cleared
        PROVE  Apart' /\ QhFlags' /\ QtdFlags'
    <3>1. \A q \in gone : ~Keeps(q) /\ q \notin iaad
      BY <2>2 DEF PoolInv, Ownership, Keeps
    <3>2. QhFlags'
      BY <2>1, <2>2, <2>4, <2>6, <3>1 DEF PoolInv, Flags, QhFlags
    <3>3. Apart'
      BY <2>1, <2>6 DEF PoolInv, Flags, Apart
    <3>4. QtdFlags'
      BY <2>1, <2>2, <2>6 DEF PoolInv, Flags, Apart, QtdFlags
    <3> QED BY <3>2, <3>3, <3>4
  <2> QED BY <2>1, <2>5, <2>6 DEF PoolInv, Flags
<1>3. victim[a] \in Urbs
  BY DEF TypeOK
<1> QED BY <1>1, <1>2, <1>3, KillCases

LEMMA PoolHandler ==
  ASSUME TypeOK, PoolInv, Handler
  PROVE  PoolInv'
<1>1. CASE \E why : Break(why)
  BY <1>1, StayKeeps DEF Break, PoolsStay, qhVars, qtdVars, threadVars
<1>2. ASSUME NEW q \in Qhs, q \in linked, CheckQh(q), UNCHANGED <<my, cleared>>,
             NEW S \in {{}, {q}}, used' = used \ S, iaad' = iaad \cup ({q} \ S),
             \A p \in Qhs : qhUrb'[p] = IF p \in S THEN NoUrb ELSE qhUrb[p],
             \A u \in Urbs : pc'[u] = "link" <=> pc[u] = "link"
      PROVE  PoolInv'
  <2>1. /\ linked' = linked \ {q} /\ qtdUsed' = qtdUsed \ chain[q]
        /\ \A p \in Qhs : chain'[p] = IF p = q THEN {} ELSE chain[p]
    BY <1>2 DEF CheckQh, QhRemove, QtdFree, TypeOK
  <2>2. \A p : Keeps(p)' <=> Keeps(p)
    BY <1>2 DEF Keeps
  <2>3. ~Keeps(q) /\ q \notin iaad
    BY <1>2 DEF PoolInv, Ownership, Keeps
  <2>4. Ownership'
    <3>1. \A u \in Urbs : pc[u] = "link" => my[u] \in Qhs /\ my[u] # q
      BY <2>3 DEF Keeps, TypeOK, Allotted
    <3>2. \A u \in Urbs : pc'[u] = "link" => my[u] \notin linked' \cup iaad' /\ qhUrb'[my[u]] = NoUrb
      BY <1>2, <2>1, <3>1 DEF PoolInv, Ownership
    <3>3. linked' \cap iaad' = {}
      BY <1>2, <2>1 DEF PoolInv, Ownership
    <3>4. \A p \in Qhs : p \in linked' \/ Keeps(p)' \/ chain'[p] = {}
      BY <2>1, <2>2 DEF PoolInv, Ownership
    <3>5. \A u, v \in Urbs : pc'[u] = "link" /\ pc'[v] = "link" /\ my[u] = my[v] => u = v
      BY <1>2 DEF PoolInv, Ownership
    <3> QED BY <1>2, <3>2, <3>3, <3>4, <3>5 DEF Ownership
  <2>5. ASSUME ~cleared
        PROVE  Apart' /\ QhFlags' /\ QtdFlags'
    <3>1. Apart'
      BY <2>1, <2>5 DEF PoolInv, Flags, Apart
    <3>2. QtdFlags'
      BY <1>2, <2>1, <2>5 DEF PoolInv, Flags, Apart, QtdFlags
    <3>3. QhFlags'
      BY <1>2, <2>1, <2>2, <2>3, <2>5 DEF PoolInv, Flags, QhFlags
    <3> QED BY <3>1, <3>2, <3>3
  <2> QED BY <1>2, <2>4, <2>5 DEF PoolInv, Flags
<1>3. ASSUME NEW q \in Qhs, ScanAsync(q)
      PROVE  PoolInv'
  BY <1>3, <1>2 DEF ScanAsync, CheckQh
<1>4. ASSUME NEW q \in Qhs, PeriodicDone(q), q \in linked
      PROVE  PoolInv'
  <2>1. {q} \in SUBSET Qhs /\ Waitup({q}) /\ CheckQh(q) /\ UNCHANGED iaad
    BY <1>4 DEF PeriodicDone
  <2>2. /\ used' = used \ {q}
        /\ \A p \in Qhs : qhUrb'[p] = IF p \in {q} THEN NoUrb ELSE qhUrb[p]
        /\ \A u \in Urbs : pc'[u] = "link" <=> pc[u] = "link"
    <3>1. used' = used \ {q} /\ qhUrb' = [p \in Qhs |-> IF p \in {q} THEN NoUrb ELSE qhUrb[p]]
      BY <2>1, WaitupDoes
    <3>2. \A u \in Urbs : pc'[u] = pc[u] \/ (pc[u] = "wait" /\ pc'[u] = "taken")
      BY <2>1, WaitupDoes
    <3> QED BY <3>1, <3>2
  <2>3. iaad' = iaad \cup ({q} \ {q}) /\ UNCHANGED <<my, cleared>>
    BY <2>1 DEF CheckQh
  <2> QED BY <1>2, <1>4, <2>1, <2>2, <2>3
<1>5. CASE PortChange
  <2>1. cleared' = TRUE /\ UNCHANGED <<linked, qhUrb, iaad, chain, pc, my>>
    BY <1>5 DEF PortChange, threadVars
  <2>2. \A p : Keeps(p)' <=> Keeps(p)
    BY <2>1 DEF Keeps
  <2> QED BY <2>1, <2>2 DEF PoolInv, Ownership, Flags
<1>6. CASE AdvanceDone
  <2> DEFINE S == Removed
  <2>1. S \in SUBSET Qhs /\ Waitup(S) /\ iaad' = iaad \ S /\ UNCHANGED <<linked, qtdUsed, chain, my, cleared>>
    BY <1>6 DEF AdvanceDone, Removed, TypeOK, qtdVars
  <2> HIDE DEF S
  <2>2. /\ used' = used \ S
        /\ \A p \in Qhs : qhUrb'[p] = IF p \in S THEN NoUrb ELSE qhUrb[p]
        /\ \A u \in Urbs : pc'[u] = "link" <=> pc[u] = "link"
    <3>1. used' = used \ S /\ qhUrb' = [p \in Qhs |-> IF p \in S THEN NoUrb ELSE qhUrb[p]]
      BY <2>1, WaitupDoes
    <3>2. \A u \in Urbs : pc'[u] = pc[u] \/ (pc[u] = "wait" /\ pc'[u] = "taken")
      BY <2>1, WaitupDoes
    <3> QED BY <3>1, <3>2
  <2>3. \A p : Keeps(p)' <=> Keeps(p)
    BY <2>1, <2>2 DEF Keeps
  <2>4. S = used \cap iaad
    BY DEF S, Removed
  <2>5. Ownership'
    <3>1. \A u \in Urbs : pc[u] = "link" => my[u] \in Qhs
      BY DEF TypeOK, Allotted
    <3> QED BY <2>1, <2>2, <2>3, <3>1 DEF PoolInv, Ownership
  <2>6. Flags'
    <3>1. ~cleared => \A q \in S : ~Keeps(q) /\ q \notin linked
      BY <2>4 DEF PoolInv, Ownership, Keeps
    <3> QED BY <2>1, <2>2, <2>3, <2>4, <3>1 DEF PoolInv, Flags, Apart, QhFlags, QtdFlags
  <2> QED BY <2>5, <2>6 DEF PoolInv
<1>7. ASSUME NEW q \in Qhs, ScanPeriodic(q)
      PROVE  PoolInv'
  BY <1>1, <1>4, <1>7, PeriodicCases
<1> QED BY <1>1, <1>3, <1>5, <1>6, <1>7, AdvanceCases DEF Handler

LEMMA PoolStep ==
  ASSUME TypeOK, PoolInv, [Next]_vars
  PROVE  PoolInv'
<1> USE DEF qhVars, qtdVars, threadVars, flagVars
<1>1. ASSUME NEW u \in Urbs, Submit(u)
      PROVE  PoolInv'
  <2>1. pc[u] = "idle" /\ \A v \in Urbs : v # u => pc'[v] = pc[v] /\ my'[v] = my[v]
    BY <1>1 DEF Submit, At, ReturnNoMem, Return, Goto, TypeOK
  <2>2. pc'[u] # "link"
    BY <1>1 DEF Submit, ReturnNoMem, Return, Goto, TypeOK
  <2>3. UNCHANGED <<used, qtdUsed, linked, qhUrb, chain, iaad, cleared>>
    BY <1>1 DEF Submit
  <2> QED BY <2>1, <2>2, <2>3, StayKeeps DEF PoolsStay
<1>2. ASSUME NEW u \in Urbs, Linked(u) \/ TakeNow(u) \/ TakeWait(u) \/ Expire(u)
      PROVE  PoolInv'
  <2>1. pc[u] \in {"linked", "take", "wait"} /\ \A v \in Urbs : v # u => pc'[v] = pc[v] /\ my'[v] = my[v]
    BY <1>2 DEF Linked, TakeNow, TakeWait, Expire, At, Return, Goto, TypeOK
  <2>2. pc'[u] # "link"
    BY <1>2 DEF Linked, TakeNow, TakeWait, Expire, Return, Goto, TypeOK
  <2>3. UNCHANGED <<used, qtdUsed, linked, qhUrb, chain, iaad, cleared>>
    BY <1>2 DEF Linked, TakeNow, TakeWait, Expire
  <2> QED BY <2>1, <2>2, <2>3, StayKeeps DEF PoolsStay
<1>3. ASSUME NEW u \in Urbs, Taken(u) \/ Expired(u)
      PROVE  PoolInv'
  <2>1. pc[u] \in {"taken", "expired"} /\ \A v \in Urbs : v # u => pc'[v] = pc[v] /\ my'[v] = my[v]
    BY <1>3 DEF Taken, Expired, At, Return, Goto, Break, TypeOK
  <2>2. pc'[u] # "link"
    BY <1>3, <2>1 DEF Taken, Expired, Return, Goto, Break, TypeOK
  <2>3. UNCHANGED <<used, qtdUsed, linked, qhUrb, chain, iaad, cleared>>
    BY <1>3 DEF Taken, Expired, Break
  <2> QED BY <2>1, <2>2, <2>3, StayKeeps DEF PoolsStay
<1>4. ASSUME NEW a \in Intr, NEW u \in Urbs, Cancel(a, u)
      PROVE  PoolInv'
  <2>1. a \in Urbs /\ pc[a] = "idle"
    BY <1>4 DEF Cancel, At, Urbs
  <2> QED BY <1>4, <2>1, StayKeeps DEF Cancel, Goto, TypeOK, PoolsStay
<1>5. ASSUME NEW u \in Urbs, Forget(u)
      PROVE  PoolInv'
  BY <1>5, StayKeeps DEF Forget, PoolsStay
<1>6. ASSUME NEW u \in Urbs, LinkAsync(u) \/ LinkPeriodic(u)
      PROVE  PoolInv'
  BY <1>6, PoolSchedule DEF LinkAsync, LinkPeriodic, At
<1>7. CASE UNCHANGED vars
  BY <1>7, StayKeeps DEF vars, PoolsStay
<1> QED
  BY <1>1, <1>2, <1>3, <1>4, <1>5, <1>6, <1>7, PoolMark, PoolKill, PoolHandler DEF Next, Inside

\* Until a disconnection, the flags of both pools say exactly what is in use: no
\* path through a submit, a kill, a completion and a doorbell leaks a queue head
\* or a descriptor, or frees one that the schedule or a thread still has.
THEOREM PoolsAlwaysAgree == Spec => []PoolsAgree
<1> DEFINE Inv == TypeOK /\ PoolInv
<1>1. Init => Inv
  BY TypeInit, PoolInit
<1>2. Inv /\ [Next]_vars => Inv'
  BY TypeStep, PoolStep
<1>3. Inv => PoolsAgree
  BY PoolsFollow
<1> QED BY <1>1, <1>2, <1>3, PTL DEF Spec
-----------------------------------------------------------------------------
(* Transfers                                                               *)

LEMMA TransferInit == Init => Transfers
<1> SUFFICES ASSUME Init PROVE Transfers
  OBVIOUS
<1>1. \A u \in Urbs : hcpriv[u] = NoQh /\ pc[u] = "idle"
  BY DEF Init
<1>2. \A q \in Qhs : qhUrb[q] = NoUrb /\ waiter[q] = NoUrb /\ value[q] = 0
  BY DEF Init
<1>3. busy = {} /\ iaad = {} /\ fault = "none"
  BY DEF Init
<1>4. Urbs = Blocking \cup Intr /\ Lasting \subseteq Blocking
  BY DEF Urbs, Lasting
<1>5. UrbOfQh /\ QhOfUrb /\ Unsent /\ WaiterIs /\ TokenFor
  BY <1>1, <1>2, <1>3 DEF UrbOfQh, QhOfUrb, Unsent, WaiterIs, TokenFor
<1>6. WaitsThere /\ Ended
  BY <1>1, <1>2, <1>3, <1>4 DEF WaitsThere, Ended
<1> QED BY <1>5, <1>6 DEF Transfers

\* A URB in the schedule has its queue head to itself.
LEMMA OneQh ==
  ASSUME TypeOK, Transfers
  PROVE  /\ NoQh \notin Qhs /\ NoUrb \notin Urbs
         /\ \A q \in Qhs, u \in Urbs : qhUrb[q] = u <=> hcpriv[u] = q
         /\ \A u \in Urbs : hcpriv[u] \in Qhs \/ hcpriv[u] = NoQh
<1>1. NoQh \notin Qhs /\ NoUrb \notin Urbs
  BY EhciAssumption DEF NoQh, Urbs
<1>2. \A u \in Urbs : hcpriv[u] \in Qhs \/ hcpriv[u] = NoQh
  BY DEF TypeOK
<1> QED BY <1>1, <1>2 DEF Transfers, UrbOfQh, QhOfUrb

\* The URBs of the queue heads of S end, in a kill by the thread of D or in the
\* handler, and the threads that wait for one are told.
Ends(S, D) ==
  /\ \A q \in S : qhUrb[q] # NoUrb
  /\ \A q \in Qhs :
       /\ qhUrb'[q] = IF q \in S THEN NoUrb ELSE qhUrb[q]
       /\ waiter'[q] = IF q \in S /\ qhUrb[q] \in waits THEN NoUrb ELSE waiter[q]
       /\ value'[q] = IF q \in S /\ qhUrb[q] \in waits /\ waiter[q] = NoUrb THEN value[q] + 1 ELSE value[q]
  /\ \A u \in Urbs :
       /\ hcpriv'[u] = IF hcpriv[u] \in S THEN NoQh ELSE hcpriv[u]
       /\ u \in waits' <=> u \in waits /\ hcpriv[u] \notin S
       /\ u \in busy' => u \in busy
       /\ u \in busy /\ u \notin busy' => hcpriv[u] \in S
       /\ u \in Blocking /\ hcpriv[u] \in S => u \notin busy'
       /\ u \in D => pc'[u] = "idle" /\ pc[u] = "kill" /\ (u \in Blocking => hcpriv[u] \in S)
       /\ u \notin D => /\ my'[u] = my[u]
                        /\ pc'[u] = IF pc[u] = "wait" /\ \E q \in S : qhUrb[q] \in waits /\ waiter[q] = u
                                    THEN "taken" ELSE pc[u]
  /\ iaad' \subseteq iaad /\ UNCHANGED <<starved, fault>>

LEMMA EndsKeeps ==
  ASSUME TypeOK, Transfers, NEW S \in SUBSET Qhs, NEW D \in SUBSET Urbs, Ends(S, D)
  PROVE  Transfers'
<1> DEFINE Waiting == {"wait", "expired", "kill"}
<1>0. /\ NoQh \notin Qhs /\ NoUrb \notin Urbs
      /\ \A q \in Qhs, u \in Urbs : qhUrb[q] = u <=> hcpriv[u] = q
      /\ \A u \in Urbs : hcpriv[u] \in Qhs \/ hcpriv[u] = NoQh
  BY OneQh
<1>1. /\ \A q \in Qhs : qhUrb[q] \in Urbs \cup {NoUrb} /\ waiter[q] \in Urbs \cup {NoUrb} /\ value[q] \in Nat
      /\ Urbs = Blocking \cup Intr /\ Blocking \cap Intr = {} /\ Lasting \subseteq Blocking
      /\ waits \subseteq Blocking /\ iaad \subseteq Qhs
  BY EhciAssumption DEF TypeOK, Urbs, Lasting
\* whose thread waits for queue head q
<1>2. \A q \in Qhs : waiter[q] # NoUrb => waiter[q] = qhUrb[q] /\ waiter[q] \in waits
  BY <1>0, <1>1 DEF Transfers, WaiterIs, QhOfUrb
<1>3. \A u \in Blocking : hcpriv[u] \in S =>
        /\ my[u] = hcpriv[u] /\ qhUrb[hcpriv[u]] = u /\ u \in waits
        /\ \/ pc[u] \in {"linked", "take"} /\ waiter[hcpriv[u]] = NoUrb
           \/ pc[u] \in Waiting /\ waiter[hcpriv[u]] = u
  <2> SUFFICES ASSUME NEW u \in Blocking, hcpriv[u] \in S
               PROVE  /\ my[u] = hcpriv[u] /\ qhUrb[hcpriv[u]] = u /\ u \in waits
                      /\ \/ pc[u] \in {"linked", "take"} /\ waiter[hcpriv[u]] = NoUrb
                         \/ pc[u] \in Waiting /\ waiter[hcpriv[u]] = u
    OBVIOUS
  <2>1. hcpriv[u] \in Qhs /\ hcpriv[u] # NoQh /\ u \in Urbs
    BY <1>0, <1>1
  <2>2. my[u] = hcpriv[u] /\ qhUrb[hcpriv[u]] = u /\ u \in waits /\ pc[u] \in Behind \ {"taken"}
    BY <2>1 DEF Transfers, QhOfUrb
  <2>3. CASE pc[u] \in Waiting
    BY <2>1, <2>2, <2>3 DEF Transfers, WaitsThere
  <2>4. CASE pc[u] \in {"linked", "take"}
    <3> DEFINE q == hcpriv[u]
    <3> SUFFICES ASSUME waiter[q] # NoUrb PROVE FALSE
      BY <2>2, <2>4
    <3>1. waiter[q] = u
      BY <1>2, <2>1, <2>2
    <3>2. pc[waiter[q]] \in {"wait", "expired", "kill"}
      BY <2>1 DEF Transfers, WaiterIs
    <3> QED BY <2>4, <3>1, <3>2
  <2> QED BY <2>2, <2>3, <2>4 DEF Behind
<1>4. UrbOfQh'
  BY <1>0, <1>1 DEF Ends, UrbOfQh
\* every other thread of a blocking transfer is where it was, or is told
<1>5. \A u \in Blocking : /\ u \in D => hcpriv[u] \in S
                          /\ u \notin D => my'[u] = my[u]
                          /\ u \notin D /\ pc[u] # "wait" => pc'[u] = pc[u]
                          /\ hcpriv[u] \notin S => pc'[u] = pc[u]
  <2>1. \A u \in Blocking : hcpriv[u] \notin S => \A q \in S : waiter[q] # u
    BY <1>0, <1>1, <1>2
  <2> QED BY <1>1, <2>1 DEF Ends
<1>6. QhOfUrb'
  <2> SUFFICES ASSUME NEW u \in Urbs, hcpriv'[u] # NoQh
               PROVE  /\ qhUrb'[hcpriv'[u]] = u
                      /\ u \in Intr => u \in busy'
                      /\ u \in Blocking => u \in waits' /\ my'[u] = hcpriv'[u] /\ pc'[u] \in Behind \ {"taken"}
    BY DEF QhOfUrb
  <2>1. hcpriv'[u] = hcpriv[u] /\ hcpriv[u] \notin S /\ hcpriv[u] \in Qhs
    BY <1>0 DEF Ends
  <2>2. qhUrb'[hcpriv[u]] = u /\ (u \in Intr => u \in busy')
    BY <1>0, <2>1 DEF Ends, Transfers, QhOfUrb
  <2>3. u \in Blocking => u \in waits' /\ my'[u] = hcpriv[u] /\ pc'[u] \in Behind \ {"taken"}
    BY <1>0, <1>5, <2>1 DEF Ends, Transfers, QhOfUrb
  <2> QED BY <2>1, <2>2, <2>3
<1>7. Unsent'
  <2> SUFFICES ASSUME NEW u \in Urbs, pc'[u] \in {"mark", "link"}
               PROVE  hcpriv'[u] = NoQh /\ u \in busy' /\ (u \in Blocking => u \in waits')
    BY DEF Unsent
  <2>1. pc[u] \in {"mark", "link"}
    BY DEF Ends
  <2>2. hcpriv[u] = NoQh /\ u \in busy /\ (u \in Blocking => u \in waits)
    BY <2>1 DEF Transfers, Unsent
  <2> QED BY <1>0, <2>2 DEF Ends
<1>8. WaiterIs'
  <2> SUFFICES ASSUME NEW q \in Qhs, waiter'[q] # NoUrb
               PROVE  waiter'[q] \in Blocking /\ hcpriv'[waiter'[q]] = q /\ pc'[waiter'[q]] \in Waiting
    BY DEF WaiterIs
  <2>1. waiter'[q] = waiter[q] /\ waiter[q] # NoUrb /\ q \notin S
    BY <1>2 DEF Ends
  <2>2. waiter[q] \in Blocking /\ hcpriv[waiter[q]] = q /\ pc[waiter[q]] \in Waiting
    BY <2>1 DEF Transfers, WaiterIs
  <2> QED BY <1>0, <1>1, <1>5, <2>1, <2>2 DEF Ends
<1>9. WaitsThere'
  <2> SUFFICES ASSUME NEW u \in Blocking
               PROVE  /\ pc'[u] = "wait" => hcpriv'[u] # NoQh
                      /\ pc'[u] \in Waiting /\ hcpriv'[u] # NoQh => waiter'[hcpriv'[u]] = u
                      /\ pc'[u] = "take" => hcpriv'[u] # NoQh \/ value'[my'[u]] > 0
    BY DEF WaitsThere
  <2>1. u \in Urbs
    BY <1>1
  <2>2. CASE hcpriv[u] \in S
    <3>1. hcpriv'[u] = NoQh
      BY <2>1, <2>2 DEF Ends
    <3>2. pc'[u] # "wait"
      BY <1>3, <2>1, <2>2 DEF Ends
    <3>3. pc'[u] = "take" => u \notin D /\ pc[u] = "take"
      BY <2>1 DEF Ends
    <3>4. pc'[u] = "take" => value'[hcpriv[u]] = value[hcpriv[u]] + 1 /\ value[hcpriv[u]] \in Nat
      BY <1>1, <1>3, <2>2, <3>3 DEF Ends
    <3>5. pc'[u] = "take" => my'[u] = hcpriv[u]
      BY <1>3, <1>5, <2>2, <3>3
    <3> QED BY <3>1, <3>2, <3>4, <3>5
  <2>3. CASE hcpriv[u] \notin S
    <3>1. u \notin D /\ pc'[u] = pc[u] /\ hcpriv'[u] = hcpriv[u] /\ my'[u] = my[u]
      BY <1>5, <2>1, <2>3 DEF Ends
    <3>2. hcpriv[u] # NoQh => waiter'[hcpriv[u]] = waiter[hcpriv[u]]
      BY <1>0, <2>1, <2>3 DEF Ends
    <3>3. pc[u] = "take" => my[u] \in Qhs /\ value'[my[u]] >= value[my[u]]
      BY <1>1, <2>1 DEF Ends, TypeOK, Allotted
    <3>4. pc[u] = "take" => value[my[u]] \in Nat /\ value'[my[u]] \in Nat
      BY <1>1, <3>3 DEF Ends
    <3>5. /\ pc[u] = "wait" => hcpriv[u] # NoQh
          /\ pc[u] \in Waiting /\ hcpriv[u] # NoQh => waiter[hcpriv[u]] = u
          /\ pc[u] = "take" => hcpriv[u] # NoQh \/ value[my[u]] > 0
      BY DEF Transfers, WaitsThere
    <3> QED BY <3>1, <3>2, <3>3, <3>4, <3>5
  <2> QED BY <2>2, <2>3
<1>10. TokenFor'
  <2> SUFFICES ASSUME NEW q \in Qhs, value'[q] > 0
               PROVE  \E u \in Blocking : my'[u] = q /\ pc'[u] \in {"linked", "take"}
    BY DEF TokenFor
  <2>1. CASE value[q] > 0
    <3>1. PICK u \in Blocking : my[u] = q /\ pc[u] \in {"linked", "take"}
      BY <2>1 DEF Transfers, TokenFor
    <3>2. u \notin D
      BY <1>1, <3>1 DEF Ends
    <3> QED BY <1>5, <3>1, <3>2
  <2>2. CASE ~(value[q] > 0)
    <3>1. q \in S /\ qhUrb[q] \in waits /\ waiter[q] = NoUrb
      BY <2>2 DEF Ends
    <3> DEFINE u == qhUrb[q]
    <3>2. u \in Blocking /\ hcpriv[u] = q
      BY <1>0, <1>1, <3>1
    <3>3. my[u] = q /\ pc[u] \in {"linked", "take"}
      BY <1>3, <3>1, <3>2, <1>1, <1>0
    <3>4. u \notin D
      BY <1>1, <3>2, <3>3 DEF Ends
    <3> QED BY <1>5, <3>2, <3>3, <3>4
  <2> QED BY <2>1, <2>2
<1>11. Ended'
  <2>1. \A u \in Blocking : pc'[u] \in Behind /\ hcpriv'[u] = NoQh => u \notin busy'
    <3> SUFFICES ASSUME NEW u \in Blocking, pc'[u] \in Behind, hcpriv'[u] = NoQh, hcpriv[u] \notin S
                 PROVE  u \notin busy'
      BY <1>1 DEF Ends
    <3>1. hcpriv[u] = NoQh /\ pc'[u] = pc[u]
      BY <1>1, <1>5 DEF Ends
    <3> QED BY <1>1, <3>1 DEF Ends, Transfers, Ended
  <2>2. \A q \in iaad' : qhUrb'[q] # NoUrb => qhUrb'[q] \notin busy'
    BY <1>1 DEF Ends, Transfers, Ended
  <2>3. \A u \in Lasting : pc'[u] = "idle" /\ u \in busy' => u \in starved'
    <3> SUFFICES ASSUME NEW u \in Lasting, pc'[u] = "idle", u \in busy'
                 PROVE  u \in starved'
      OBVIOUS
    <3>1. u \in Blocking /\ u \in Urbs /\ hcpriv[u] \notin S
      BY <1>1 DEF Ends
    <3>2. pc[u] = "idle"
      BY <1>5, <3>1
    <3> QED BY <3>1, <3>2 DEF Ends, Transfers, Ended
  <2>4. fault' \notin {"freed", "stale"}
    BY DEF Ends, Transfers, Ended
  <2> QED BY <2>1, <2>2, <2>3, <2>4 DEF Ended
<1> QED BY <1>4, <1>6, <1>7, <1>8, <1>9, <1>10, <1>11 DEF Transfers

\* Only thread u and its URB move, and no queue head changes hands.
OnlyMoves(u) ==
  /\ UNCHANGED <<qhUrb, hcpriv, value, waiter, fault>>
  /\ iaad' \subseteq iaad
  /\ \A v \in Urbs : v # u =>
       /\ pc'[v] = pc[v] /\ my'[v] = my[v]
       /\ v \in busy' <=> v \in busy
       /\ v \in waits' <=> v \in waits
       /\ v \in starved => v \in starved'

\* What has to hold where the thread and the URB are then.
Settled(u) ==
  /\ hcpriv[u] # NoQh =>
       /\ u \in Intr => u \in busy'
       /\ u \in busy' => u \in busy
       /\ u \in Blocking => u \in waits' /\ my'[u] = hcpriv[u] /\ pc'[u] \in Behind \ {"taken"}
  /\ pc'[u] \in {"mark", "link"} => hcpriv[u] = NoQh /\ u \in busy' /\ (u \in Blocking => u \in waits')
  /\ (\E q \in Qhs : waiter[q] = u) => pc'[u] \in {"wait", "expired", "kill"}
  /\ u \in Blocking =>
       /\ pc'[u] = "wait" => hcpriv[u] # NoQh
       /\ pc'[u] \in {"wait", "expired", "kill"} /\ hcpriv[u] # NoQh => waiter[hcpriv[u]] = u
       /\ pc'[u] = "take" => hcpriv[u] # NoQh
       /\ pc[u] \in {"linked", "take"} => pc'[u] \in {"linked", "take"} /\ my'[u] = my[u]
       /\ pc'[u] \in Behind /\ hcpriv[u] = NoQh => u \notin busy'
       /\ u \in Lasting /\ pc'[u] = "idle" /\ u \in busy' => u \in starved'

LEMMA MoveKeeps ==
  ASSUME TypeOK, Transfers, NEW u \in Urbs, OnlyMoves(u), Settled(u)
  PROVE  Transfers'
<1>0. /\ NoQh \notin Qhs /\ NoUrb \notin Urbs
      /\ \A q \in Qhs, v \in Urbs : qhUrb[q] = v <=> hcpriv[v] = q
  BY OneQh
<1>1. /\ Urbs = Blocking \cup Intr /\ Lasting \subseteq Blocking /\ iaad \subseteq Qhs
      /\ \A q \in Qhs : qhUrb[q] \in Urbs \cup {NoUrb} /\ waiter[q] \in Urbs \cup {NoUrb}
  BY DEF TypeOK, Urbs, Lasting
<1>2. UrbOfQh'
  BY DEF OnlyMoves, Transfers, UrbOfQh
<1>3. QhOfUrb'
  <2> SUFFICES ASSUME NEW v \in Urbs, hcpriv[v] # NoQh
               PROVE  /\ qhUrb[hcpriv[v]] = v
                      /\ v \in Intr => v \in busy'
                      /\ v \in Blocking => v \in waits' /\ my'[v] = hcpriv[v] /\ pc'[v] \in Behind \ {"taken"}
    BY DEF OnlyMoves, QhOfUrb
  <2>1. CASE v = u
    BY <2>1 DEF Settled, Transfers, QhOfUrb
  <2>2. CASE v # u
    BY <2>2 DEF OnlyMoves, Transfers, QhOfUrb
  <2> QED BY <2>1, <2>2
<1>4. Unsent'
  <2> SUFFICES ASSUME NEW v \in Urbs, pc'[v] \in {"mark", "link"}
               PROVE  hcpriv[v] = NoQh /\ v \in busy' /\ (v \in Blocking => v \in waits')
    BY DEF OnlyMoves, Unsent
  <2>1. CASE v = u
    BY <2>1 DEF Settled
  <2>2. CASE v # u
    BY <2>2 DEF OnlyMoves, Transfers, Unsent
  <2> QED BY <2>1, <2>2
<1>5. WaiterIs'
  <2> SUFFICES ASSUME NEW q \in Qhs, waiter[q] # NoUrb
               PROVE  waiter[q] \in Blocking /\ hcpriv[waiter[q]] = q /\ pc'[waiter[q]] \in {"wait", "expired", "kill"}
    BY DEF OnlyMoves, WaiterIs
  <2>1. waiter[q] \in Blocking /\ hcpriv[waiter[q]] = q /\ pc[waiter[q]] \in {"wait", "expired", "kill"}
    BY DEF Transfers, WaiterIs
  <2>2. CASE waiter[q] = u
    BY <2>1, <2>2 DEF Settled
  <2>3. CASE waiter[q] # u
    BY <1>1, <2>1, <2>3 DEF OnlyMoves
  <2> QED BY <2>1, <2>2, <2>3
<1>6. WaitsThere'
  <2> SUFFICES ASSUME NEW v \in Blocking
               PROVE  /\ pc'[v] = "wait" => hcpriv[v] # NoQh
                      /\ pc'[v] \in {"wait", "expired", "kill"} /\ hcpriv[v] # NoQh => waiter[hcpriv[v]] = v
                      /\ pc'[v] = "take" => hcpriv[v] # NoQh \/ value[my'[v]] > 0
    BY DEF OnlyMoves, WaitsThere
  <2>1. CASE v = u
    BY <2>1 DEF Settled
  <2>2. CASE v # u
    BY <1>1, <2>2 DEF OnlyMoves, Transfers, WaitsThere
  <2> QED BY <2>1, <2>2
<1>7. TokenFor'
  <2> SUFFICES ASSUME NEW q \in Qhs, value[q] > 0
               PROVE  \E v \in Blocking : my'[v] = q /\ pc'[v] \in {"linked", "take"}
    BY DEF OnlyMoves, TokenFor
  <2>1. PICK v \in Blocking : my[v] = q /\ pc[v] \in {"linked", "take"}
    BY DEF Transfers, TokenFor
  <2> QED BY <1>1, <2>1 DEF OnlyMoves, Settled
<1>8. Ended'
  <2>1. \A v \in Blocking : pc'[v] \in Behind /\ hcpriv[v] = NoQh => v \notin busy'
    BY <1>1 DEF OnlyMoves, Settled, Transfers, Ended
  <2>2. \A q \in iaad' : qhUrb[q] # NoUrb => qhUrb[q] \notin busy'
    BY <1>0, <1>1 DEF OnlyMoves, Settled, Transfers, Ended
  <2>3. \A v \in Lasting : pc'[v] = "idle" /\ v \in busy' => v \in starved'
    BY <1>1 DEF OnlyMoves, Settled, Transfers, Ended
  <2> QED BY <2>1, <2>2, <2>3 DEF Ended, OnlyMoves, Transfers
<1> QED BY <1>2, <1>3, <1>4, <1>5, <1>6, <1>7, <1>8 DEF Transfers

\* Nothing moves; the model may stop.
LEMMA StandsStill ==
  ASSUME Transfers, UNCHANGED <<qhUrb, hcpriv, value, waiter, iaad, busy, waits, pc, my, starved>>,
         fault' \notin {"freed", "stale"}
  PROVE  Transfers'
BY DEF Transfers, UrbOfQh, QhOfUrb, Unsent, WaiterIs, WaitsThere, TokenFor, Ended

LEMMA TransferSubmit ==
  ASSUME TypeOK, Transfers, NEW u \in Urbs, Submit(u)
  PROVE  Transfers'
<1>0. u \in Blocking \/ u \in Intr
  BY DEF Urbs
<1>1. pc[u] = "idle" /\ (u \notin busy \/ u \in Blocking)
  BY EhciAssumption DEF Submit, At
<1>2. hcpriv[u] = NoQh
  BY <1>0, <1>1 DEF Transfers, QhOfUrb, Behind
<1>3. /\ UNCHANGED <<qhUrb, iaad, value, waiter, fault>> /\ hcpriv' = hcpriv
      /\ busy' = busy \cup {u} /\ waits' = waits \cup ({u} \cap Blocking)
  BY <1>2 DEF Submit, UrbFill, qhVars, semVars, TypeOK
<1>4. /\ pc'[u] \in {"idle", "mark"}
      /\ pc'[u] = "idle" => (u \in Lasting => u \in starved')
      /\ \A v \in Urbs : v # u => pc'[v] = pc[v] /\ my'[v] = my[v] /\ (v \in starved => v \in starved')
  <2>1. CASE Qhs \subseteq used
    BY <2>1 DEF Submit, ReturnNoMem, Return, Goto, TypeOK
  <2>2. CASE ~(Qhs \subseteq used)
    BY <2>2 DEF Submit, Goto, TypeOK
  <2> QED BY <2>1, <2>2
<1>5. \A q \in Qhs : waiter[q] # u
  BY <1>1, OneQh DEF Transfers, WaiterIs
<1>6. OnlyMoves(u)
  BY <1>3, <1>4 DEF OnlyMoves
<1>7. Settled(u)
  BY <1>1, <1>2, <1>3, <1>4, <1>5 DEF Settled, Behind
<1> QED BY <1>6, <1>7, MoveKeeps

LEMMA TransferMark ==
  ASSUME TypeOK, Transfers, NEW u \in Urbs, Mark(u)
  PROVE  Transfers'
<1>1. pc[u] = "mark" /\ my[u] \in Qhs
  BY MarkCases
<1>2. CASE Break("reuse")
  <2>1. UNCHANGED <<qhUrb, hcpriv, value, waiter, iaad, busy, waits, pc, my, starved>> /\ fault' = "reuse"
    BY <1>2 DEF Break, qhVars, semVars, urbVars, threadVars
  <2> QED BY <2>1, StandsStill
<1>3. hcpriv[u] = NoQh /\ u \in busy /\ (u \in Blocking => u \in waits)
  BY <1>1 DEF Transfers, Unsent
<1>4. \A q \in Qhs : waiter[q] # u
  BY <1>1, OneQh DEF Transfers, WaiterIs
<1>5. CASE MarkOut(u)
  <2>1. UNCHANGED <<qhUrb, hcpriv, value, waiter, busy, waits, fault>> /\ iaad' \subseteq iaad
    BY <1>5 DEF MarkOut, semVars, urbVars, flagVars
  <2>2. /\ pc'[u] = "idle" /\ starved' = starved \cup ({u} \cap Lasting)
        /\ \A v \in Urbs : v # u => pc'[v] = pc[v] /\ my'[v] = my[v]
    BY <1>5 DEF MarkOut, OutOfQtds, ReturnNoMem, Return, Goto, TypeOK
  <2>3. OnlyMoves(u)
    BY <2>1, <2>2 DEF OnlyMoves
  <2>4. Settled(u)
    BY <1>1, <1>3, <1>4, <2>1, <2>2 DEF Settled, Behind
  <2> QED BY <2>3, <2>4, MoveKeeps
<1>6. ASSUME NEW chosen, MarkGot(u, chosen)
      PROVE  Transfers'
  <2>1. UNCHANGED <<qhUrb, hcpriv, value, waiter, busy, waits, fault, my, starved>> /\ iaad' \subseteq iaad
    BY <1>6 DEF MarkGot, semVars, urbVars, flagVars
  <2>2. pc'[u] = "link" /\ \A v \in Urbs : v # u => pc'[v] = pc[v]
    BY <1>6 DEF MarkGot, Goto, TypeOK
  <2>3. OnlyMoves(u)
    BY <2>1, <2>2 DEF OnlyMoves
  <2>4. Settled(u)
    BY <1>1, <1>3, <1>4, <2>1, <2>2 DEF Settled, Behind
  <2> QED BY <2>3, <2>4, MoveKeeps
<1> QED BY <1>2, <1>5, <1>6, MarkCases

LEMMA TransferSchedule ==
  ASSUME TypeOK, PoolInv, Transfers, NEW u \in Urbs, pc[u] = "link", Schedule(u)
  PROVE  Transfers'
<1> DEFINE q == my[u]
<1>0. /\ NoQh \notin Qhs /\ NoUrb \notin Urbs
      /\ \A p \in Qhs, v \in Urbs : qhUrb[p] = v <=> hcpriv[v] = p
  BY OneQh
<1>1. q \in Qhs /\ qhUrb[q] = NoUrb /\ q \notin iaad
  BY DEF TypeOK, Allotted, PoolInv, Ownership
<1>2. hcpriv[u] = NoQh /\ u \in busy /\ (u \in Blocking => u \in waits)
  BY DEF Transfers, Unsent
<1>3. /\ UNCHANGED <<iaad, busy, waits, my, value, waiter, starved, fault>>
      /\ \A p \in Qhs : qhUrb'[p] = IF p = q THEN u ELSE qhUrb[p]
      /\ \A v \in Urbs : hcpriv'[v] = IF v = u THEN q ELSE hcpriv[v]
      /\ \A v \in Urbs : pc'[v] = IF v = u THEN "linked" ELSE pc[v]
  BY <1>1 DEF Schedule, Goto, TypeOK, semVars, flagVars
<1>4. /\ Urbs = Blocking \cup Intr /\ Lasting \subseteq Blocking /\ iaad \subseteq Qhs
      /\ \A p \in Qhs : qhUrb[p] \in Urbs \cup {NoUrb} /\ waiter[p] \in Urbs \cup {NoUrb}
  BY DEF TypeOK, Urbs, Lasting
<1> HIDE DEF q
<1>5. UrbOfQh'
  BY <1>0, <1>1, <1>2, <1>3, <1>4 DEF UrbOfQh
<1>6. QhOfUrb'
  <2> SUFFICES ASSUME NEW v \in Urbs, hcpriv'[v] # NoQh
               PROVE  /\ qhUrb'[hcpriv'[v]] = v
                      /\ v \in Intr => v \in busy
                      /\ v \in Blocking => v \in waits /\ my[v] = hcpriv'[v] /\ pc'[v] \in Behind \ {"taken"}
    BY <1>3 DEF QhOfUrb
  <2>1. CASE v = u
    BY <1>1, <1>2, <1>3, <2>1 DEF Behind, q
  <2>2. CASE v # u
    <3>1. hcpriv[v] \in Qhs /\ hcpriv[v] # q
      BY <1>0, <1>1, <1>3, <2>2 DEF TypeOK
    <3> QED BY <1>3, <2>2, <3>1 DEF Transfers, QhOfUrb
  <2> QED BY <2>1, <2>2
<1>7. Unsent' /\ WaiterIs' /\ WaitsThere'
  BY <1>0, <1>2, <1>3, <1>4 DEF Transfers, Unsent, WaiterIs, WaitsThere
<1>8. TokenFor'
  BY <1>3, <1>4 DEF Transfers, TokenFor
<1>9. Ended'
  <2>1. \A v \in Blocking : pc'[v] \in Behind /\ hcpriv'[v] = NoQh => v \notin busy
    BY <1>0, <1>1, <1>3, <1>4 DEF Transfers, Ended
  <2>2. \A p \in iaad : qhUrb'[p] # NoUrb => qhUrb'[p] \notin busy
    BY <1>1, <1>3, <1>4 DEF Transfers, Ended
  <2>3. \A v \in Lasting : pc'[v] = "idle" /\ v \in busy => v \in starved
    BY <1>3, <1>4 DEF Transfers, Ended
  <2> QED BY <1>3, <2>1, <2>2, <2>3 DEF Ended, Transfers
<1> QED BY <1>5, <1>6, <1>7, <1>8, <1>9 DEF Transfers

LEMMA TransferLinked ==
  ASSUME TypeOK, Transfers, NEW u \in Urbs, Linked(u), ~early'
  PROVE  Transfers'
<1> DEFINE q == my[u]
<1>1. pc[u] = "linked" /\ q \in Qhs /\ qhUrb[q] = u
  BY DEF Linked, At, TypeOK, Allotted
<1>2. hcpriv[u] = q /\ q # NoQh
  BY <1>1, OneQh
<1>3. /\ UNCHANGED <<qhUrb, iaad, value, waiter, fault, busy, waits, starved>> /\ hcpriv' = hcpriv
      /\ \A v \in Urbs : v # u => pc'[v] = pc[v] /\ my'[v] = my[v]
      /\ u \in waits => pc'[u] = "take" /\ my'[u] = my[u]
      /\ u \notin waits => pc'[u] = "idle"
  BY <1>2 DEF Linked, qhVars, semVars, Goto, Return, TypeOK
<1>4. (u \in Intr => u \in busy /\ u \notin Blocking) /\ (u \in Blocking => u \in waits)
  BY <1>2, EhciAssumption DEF Transfers, QhOfUrb
<1>5. \A p \in Qhs : waiter[p] # u
  BY <1>1, OneQh DEF Transfers, WaiterIs
<1>6. u \in Blocking \/ u \in Intr
  BY DEF Urbs
<1>7. OnlyMoves(u)
  BY <1>3 DEF OnlyMoves
<1>8. Settled(u)
  BY <1>1, <1>2, <1>3, <1>4, <1>5, <1>6 DEF Settled, Behind, TypeOK
<1> QED BY <1>7, <1>8, MoveKeeps

LEMMA TransferTakeWait ==
  ASSUME TypeOK, Transfers, NEW u \in Urbs, TakeWait(u)
  PROVE  Transfers'
<1> DEFINE q == my[u]
<1>0. /\ NoQh \notin Qhs /\ NoUrb \notin Urbs
      /\ \A p \in Qhs, v \in Urbs : qhUrb[p] = v <=> hcpriv[v] = p
  BY OneQh
<1>1. pc[u] = "take" /\ u \in Blocking /\ q \in Qhs /\ value[q] = 0
  BY DEF TakeWait, At, TypeOK, Allotted
<1>2. hcpriv[u] = q /\ qhUrb[q] = u /\ u \in waits
  <2>1. hcpriv[u] # NoQh
    BY <1>1 DEF Transfers, WaitsThere
  <2> QED BY <1>1, <2>1 DEF Transfers, QhOfUrb
<1>3. /\ UNCHANGED <<qhUrb, iaad, value, fault, busy, waits, starved, hcpriv, my>>
      /\ \A v \in Urbs : pc'[v] = IF v = u THEN "wait" ELSE pc[v]
      /\ \A p \in Qhs : waiter'[p] = IF p = q THEN u ELSE waiter[p]
  BY DEF TakeWait, qhVars, urbVars, flagVars, Goto, TypeOK
<1>4. /\ Urbs = Blocking \cup Intr /\ Lasting \subseteq Blocking
      /\ \A p \in Qhs : qhUrb[p] \in Urbs \cup {NoUrb} /\ waiter[p] \in Urbs \cup {NoUrb}
  BY DEF TypeOK, Urbs, Lasting
<1> HIDE DEF q
<1>5. UrbOfQh' /\ Unsent'
  BY <1>3 DEF Transfers, UrbOfQh, Unsent
<1>6. QhOfUrb'
  BY <1>3 DEF Transfers, QhOfUrb, Behind
<1>7. WaiterIs'
  BY <1>1, <1>2, <1>3, <1>4 DEF Transfers, WaiterIs
<1>8. WaitsThere'
  <2> SUFFICES ASSUME NEW v \in Blocking
               PROVE  /\ pc'[v] = "wait" => hcpriv[v] # NoQh
                      /\ pc'[v] \in {"wait", "expired", "kill"} /\ hcpriv[v] # NoQh => waiter'[hcpriv[v]] = v
                      /\ pc'[v] = "take" => hcpriv[v] # NoQh \/ value[my[v]] > 0
    BY <1>3 DEF WaitsThere
  <2>1. CASE v = u
    BY <1>0, <1>1, <1>2, <1>3, <1>4, <2>1
  <2>2. CASE v # u
    <3>1. pc'[v] = pc[v] /\ hcpriv[v] # q
      BY <1>0, <1>1, <1>2, <1>3, <1>4, <2>2
    <3>2. hcpriv[v] # NoQh => waiter'[hcpriv[v]] = waiter[hcpriv[v]]
      BY <1>3, <1>4, <3>1 DEF TypeOK
    <3> QED BY <3>1, <3>2 DEF Transfers, WaitsThere
  <2> QED BY <2>1, <2>2
<1>9. TokenFor'
  BY <1>1, <1>3, <1>4 DEF Transfers, TokenFor, q
<1>10. Ended'
  BY <1>0, <1>1, <1>2, <1>3, <1>4 DEF Transfers, Ended, Behind
<1> QED BY <1>5, <1>6, <1>7, <1>8, <1>9, <1>10 DEF Transfers

\* Behind the wait of a blocking transfer.
LEMMA TransferAfter ==
  ASSUME TypeOK, Transfers, NEW u \in Urbs, Expire(u) \/ Taken(u) \/ Expired(u)
  PROVE  Transfers'
<1>1. u \in Blocking /\ u \notin Intr
  BY EhciAssumption DEF Expire, Taken, Expired, At, TypeOK
<1>2. \A q \in Qhs : waiter[q] = u => hcpriv[u] = q /\ hcpriv[u] # NoQh /\ pc[u] \in {"wait", "expired"}
  BY <1>1, OneQh DEF Transfers, WaiterIs, Expire, Taken, Expired, At
<1>3. hcpriv[u] # NoQh => u \in waits /\ my[u] = hcpriv[u] /\ pc[u] # "taken"
  BY <1>1 DEF Transfers, QhOfUrb
<1>4. hcpriv[u] = NoQh /\ pc[u] \in Behind => u \notin busy
  BY <1>1 DEF Transfers, Ended
<1>5. pc[u] \in {"wait", "expired"} /\ hcpriv[u] # NoQh => waiter[hcpriv[u]] = u
  BY <1>1 DEF Transfers, WaitsThere
<1>6. CASE Expire(u)
  <2>1. UNCHANGED <<qhUrb, hcpriv, value, waiter, iaad, busy, waits, my, starved, fault>>
    BY <1>6 DEF Expire, qhVars, semVars, urbVars, flagVars
  <2>2. pc[u] = "wait" /\ pc'[u] = "expired" /\ \A v \in Urbs : v # u => pc'[v] = pc[v]
    BY <1>6 DEF Expire, At, Goto, TypeOK
  <2>3. hcpriv[u] # NoQh
    BY <1>1, <2>2 DEF Transfers, WaitsThere
  <2>4. OnlyMoves(u)
    BY <2>1, <2>2 DEF OnlyMoves
  <2>5. Settled(u)
    BY <1>1, <1>2, <1>3, <1>5, <2>1, <2>2, <2>3 DEF Settled, Behind
  <2> QED BY <2>4, <2>5, MoveKeeps
<1>7. CASE Taken(u)
  <2>1. pc[u] = "taken"
    BY <1>7 DEF Taken, At
  <2>2. hcpriv[u] = NoQh
    BY <1>3, <2>1
  <2>3. ~InSchedule(u)
    BY <2>2, OneQh DEF InSchedule
  <2>4. /\ UNCHANGED <<qhUrb, iaad, hcpriv, value, waiter, busy, starved, fault>>
        /\ waits' = waits \ {u} /\ pc'[u] = "idle"
        /\ \A v \in Urbs : v # u => pc'[v] = pc[v] /\ my'[v] = my[v]
    BY <1>7, <2>3 DEF Taken, Return, Goto, TypeOK, qhVars, semVars, flagVars
  <2>5. OnlyMoves(u)
    BY <2>4 DEF OnlyMoves
  <2>6. Settled(u)
    BY <1>1, <1>2, <1>4, <2>1, <2>2, <2>4 DEF Settled, Behind
  <2> QED BY <2>5, <2>6, MoveKeeps
<1>8. CASE Expired(u)
  <2>1. /\ UNCHANGED <<qhUrb, hcpriv, value, waiter, iaad, busy, waits, starved, fault>>
    BY <1>8 DEF Expired, qhVars, semVars, urbVars, flagVars
  <2>2. /\ pc[u] = "expired"
        /\ \A v \in Urbs : v # u => pc'[v] = pc[v] /\ my'[v] = my[v]
        /\ hcpriv[u] = NoQh => pc'[u] = "idle"
        /\ hcpriv[u] # NoQh => pc'[u] = "kill" /\ my'[u] = my[u]
    BY <1>8 DEF Expired, At, Return, Goto, TypeOK
  <2>3. OnlyMoves(u)
    BY <2>1, <2>2 DEF OnlyMoves
  <2>4. Settled(u)
    BY <1>1, <1>2, <1>3, <1>4, <1>5, <2>1, <2>2 DEF Settled, Behind
  <2> QED BY <2>3, <2>4, MoveKeeps
<1> QED BY <1>6, <1>7, <1>8

\* The hub thread begins to kill, or forgets its URB.
LEMMA TransferHub ==
  ASSUME TypeOK, Transfers, NEW a \in Intr, Forget(a) \/ \E u \in Urbs : Cancel(a, u)
  PROVE  Transfers'
<1>1. a \in Urbs /\ a \notin Blocking /\ pc[a] = "idle"
  BY EhciAssumption DEF Urbs, Forget, Cancel, At
<1>2. \A q \in Qhs : waiter[q] # a
  BY <1>1, OneQh DEF Transfers, WaiterIs
<1>3. CASE Forget(a)
  <2>1. /\ hcpriv[a] = NoQh /\ busy' = busy \ {a}
        /\ UNCHANGED <<qhUrb, hcpriv, value, waiter, iaad, waits, pc, my, starved, fault>>
    BY <1>3 DEF Forget, qhVars, semVars, threadVars, flagVars
  <2>2. OnlyMoves(a)
    BY <2>1 DEF OnlyMoves
  <2>3. Settled(a)
    BY <1>1, <1>2, <2>1 DEF Settled
  <2> QED BY <1>1, <2>2, <2>3, MoveKeeps
<1>4. ASSUME NEW u \in Urbs, Cancel(a, u)
      PROVE  Transfers'
  <2>1. UNCHANGED <<qhUrb, hcpriv, value, waiter, iaad, busy, waits, my, starved, fault>>
    BY <1>4 DEF Cancel, qhVars, semVars, urbVars, flagVars
  <2>2. pc'[a] = "kill" /\ \A v \in Urbs : v # a => pc'[v] = pc[v]
    BY <1>1, <1>4 DEF Cancel, Goto, TypeOK
  <2>3. OnlyMoves(a)
    BY <2>1, <2>2 DEF OnlyMoves
  <2>4. hcpriv[a] # NoQh => a \in busy
    BY <1>1 DEF Transfers, QhOfUrb
  <2>5. Settled(a)
    BY <1>1, <1>2, <2>1, <2>2, <2>4 DEF Settled
  <2> QED BY <1>1, <2>3, <2>5, MoveKeeps
<1> QED BY <1>3, <1>4

LEMMA TransferKill ==
  ASSUME TypeOK, Transfers, NEW a \in Urbs, Kill(a)
  PROVE  Transfers'
<1> DEFINE u == victim[a]
           h == hcpriv[u]
           here == [pc EXCEPT ![a] = "idle"]
<1>0. /\ NoQh \notin Qhs /\ NoUrb \notin Urbs
      /\ \A p \in Qhs, v \in Urbs : qhUrb[p] = v <=> hcpriv[v] = p
  BY OneQh
<1>1. pc[a] = "kill" /\ u \in Urbs
  BY KillCases
<1>2. CASE Break("null")
  <2>1. UNCHANGED <<qhUrb, hcpriv, value, waiter, iaad, busy, waits, pc, my, starved>> /\ fault' = "null"
    BY <1>2 DEF Break, qhVars, semVars, urbVars, threadVars
  <2> QED BY <2>1, StandsStill
<1>3. ~(h \in Qhs /\ qhUrb[h] \notin {u, NoUrb})
  BY <1>0, <1>1
<1>4. CASE h \in Qhs /\ KillDone(a, u, h)
  <2>1. h \in Qhs /\ qhUrb[h] = u /\ \A q \in Qhs : q \in Gone(u) \cup {h} <=> q = h
    BY <1>0, <1>1, <1>4 DEF Gone, TypeOK
  <2>2. /\ \A q \in Qhs : qhUrb'[q] = IF q = h THEN NoUrb ELSE qhUrb[q]
        /\ \A v \in Urbs : hcpriv'[v] = IF v = u THEN NoQh ELSE hcpriv[v]
        /\ \A v \in Urbs : v # a => my'[v] = my[v]
        /\ UNCHANGED <<iaad, starved, fault>>
    BY <1>1, <1>4, <2>1 DEF KillDone, TypeOK, flagVars
  <2>3. \A v \in Urbs : v = u <=> hcpriv[v] \in {h}
    BY <1>0, <1>1, <2>1
  <2>4. u \in Blocking => u \in waits
    BY <1>0, <1>1, <2>1 DEF Transfers, QhOfUrb
  <2>5. a \in Blocking => u = a
    BY DEF TypeOK
  <2>6. {h} \in SUBSET Qhs /\ {a} \in SUBSET Urbs
    BY <2>1
  <2>7. here \in [Urbs -> PCs] /\ \A v \in Urbs : here[v] = IF v = a THEN "idle" ELSE pc[v]
    BY DEF TypeOK, PCs
  <2> HIDE DEF u, h, here
  <2>8. waits \subseteq Blocking
    BY DEF TypeOK
  <2>9. CASE u \in waits
    <3>1. waits' = waits \ {u} /\ busy' = busy \ {u} /\ Give({h}, here)
      BY <1>4, <2>9 DEF KillDone, here
    <3>2. /\ \A q \in Qhs : /\ waiter'[q] = IF q \in {h} THEN NoUrb ELSE waiter[q]
                            /\ value'[q] = IF q \in {h} /\ waiter[q] = NoUrb THEN value[q] + 1 ELSE value[q]
          /\ \A v \in Urbs : pc'[v] = IF here[v] = "wait" /\ \E q \in {h} : waiter[q] = v
                                      THEN "taken" ELSE here[v]
      BY <3>1 DEF Give
    <3>3. Ends({h}, {a})
      <4>1. \A q \in {h} : qhUrb[q] # NoUrb
        BY <1>0, <1>1, <2>1
      <4>2. \A q \in Qhs :
              /\ qhUrb'[q] = IF q \in {h} THEN NoUrb ELSE qhUrb[q]
              /\ waiter'[q] = IF q \in {h} /\ qhUrb[q] \in waits THEN NoUrb ELSE waiter[q]
              /\ value'[q] = IF q \in {h} /\ qhUrb[q] \in waits /\ waiter[q] = NoUrb THEN value[q] + 1 ELSE value[q]
        BY <2>1, <2>2, <2>9, <3>2
      <4>3. \A v \in Urbs :
              /\ hcpriv'[v] = IF hcpriv[v] \in {h} THEN NoQh ELSE hcpriv[v]
              /\ v \in waits' <=> v \in waits /\ hcpriv[v] \notin {h}
              /\ v \in busy' => v \in busy
              /\ v \in busy /\ v \notin busy' => hcpriv[v] \in {h}
              /\ v \in Blocking /\ hcpriv[v] \in {h} => v \notin busy'
        BY <2>2, <2>3, <3>1
      <4>4. ASSUME NEW v \in Urbs
            PROVE  /\ v \in {a} => pc'[v] = "idle" /\ pc[v] = "kill" /\ (v \in Blocking => hcpriv[v] \in {h})
                   /\ v \notin {a} => /\ my'[v] = my[v]
                                      /\ pc'[v] = IF pc[v] = "wait" /\ \E q \in {h} : qhUrb[q] \in waits /\ waiter[q] = v
                                                  THEN "taken" ELSE pc[v]
        BY <1>1, <2>1, <2>2, <2>3, <2>5, <2>7, <2>9, <3>2
      <4> QED BY <2>2, <4>1, <4>2, <4>3, <4>4 DEF Ends
    <3> QED BY <2>6, <3>3, EndsKeeps
  <2>10. CASE u \notin waits
    <3>1. UNCHANGED <<waits, busy, value, waiter>> /\ pc' = here
      BY <1>4, <2>10 DEF KillDone, semVars, here
    <3>2. u \notin Blocking /\ a \notin Blocking
      BY <2>4, <2>5, <2>10
    <3>3. Ends({h}, {a})
      <4>1. \A q \in {h} : qhUrb[q] # NoUrb
        BY <1>0, <1>1, <2>1
      <4>2. \A q \in Qhs :
              /\ qhUrb'[q] = IF q \in {h} THEN NoUrb ELSE qhUrb[q]
              /\ waiter'[q] = IF q \in {h} /\ qhUrb[q] \in waits THEN NoUrb ELSE waiter[q]
              /\ value'[q] = IF q \in {h} /\ qhUrb[q] \in waits /\ waiter[q] = NoUrb THEN value[q] + 1 ELSE value[q]
        BY <2>1, <2>2, <2>10, <3>1
      <4>3. \A v \in Urbs :
              /\ hcpriv'[v] = IF hcpriv[v] \in {h} THEN NoQh ELSE hcpriv[v]
              /\ v \in waits' <=> v \in waits /\ hcpriv[v] \notin {h}
              /\ v \in busy' => v \in busy
              /\ v \in busy /\ v \notin busy' => hcpriv[v] \in {h}
              /\ v \in Blocking /\ hcpriv[v] \in {h} => v \notin busy'
        BY <2>2, <2>3, <2>8, <2>10, <3>1, <3>2
      <4>4. ASSUME NEW v \in Urbs
            PROVE  /\ v \in {a} => pc'[v] = "idle" /\ pc[v] = "kill" /\ (v \in Blocking => hcpriv[v] \in {h})
                   /\ v \notin {a} => /\ my'[v] = my[v]
                                      /\ pc'[v] = IF pc[v] = "wait" /\ \E q \in {h} : qhUrb[q] \in waits /\ waiter[q] = v
                                                  THEN "taken" ELSE pc[v]
        BY <1>1, <2>1, <2>2, <2>7, <2>10, <3>1, <3>2
      <4> QED BY <2>2, <4>1, <4>2, <4>3, <4>4 DEF Ends
    <3> QED BY <2>6, <3>3, EndsKeeps
  <2> QED BY <2>9, <2>10
<1> QED BY <1>2, <1>3, <1>4, KillCases

LEMMA TransferHandler ==
  ASSUME TypeOK, Transfers, Handler
  PROVE  Transfers'
<1>0. /\ NoQh \notin Qhs /\ NoUrb \notin Urbs
      /\ \A p \in Qhs, v \in Urbs : qhUrb[p] = v <=> hcpriv[v] = p
  BY OneQh
<1>1. /\ Urbs = Blocking \cup Intr /\ Lasting \subseteq Blocking /\ Blocking \cap Intr = {}
      /\ waits \subseteq Blocking /\ iaad \subseteq Qhs
      /\ \A q \in Qhs : qhUrb[q] \in Urbs \cup {NoUrb}
      /\ \A u \in Urbs : hcpriv[u] \in Qhs \/ hcpriv[u] = NoQh
  BY EhciAssumption DEF TypeOK, Urbs, Lasting
<1>2. ASSUME NEW q \in Qhs, ScanAsync(q)
      PROVE  Transfers'
  <2>1. qhUrb[q] \in Blocking /\ qhUrb[q] \in Urbs
    BY <1>1, <1>2 DEF ScanAsync
  <2>2. hcpriv[qhUrb[q]] = q
    BY <1>0, <2>1
  <2>3. /\ busy' = busy \ {qhUrb[q]} /\ iaad' = iaad \cup {q}
        /\ UNCHANGED <<qhUrb, hcpriv, waits, pc, my, value, waiter, starved, fault>>
    BY <1>2 DEF ScanAsync, CheckQh, semVars
  <2>4. UrbOfQh' /\ WaiterIs' /\ WaitsThere' /\ TokenFor'
    BY <2>3 DEF Transfers, UrbOfQh, WaiterIs, WaitsThere, TokenFor
  <2>5. QhOfUrb' /\ Unsent'
    BY <1>0, <1>1, <2>1, <2>2, <2>3 DEF Transfers, QhOfUrb, Unsent
  <2>6. Ended'
    BY <1>1, <2>3 DEF Transfers, Ended
  <2> QED BY <2>4, <2>5, <2>6 DEF Transfers
<1>3. ASSUME NEW S \in SUBSET Qhs, \A q \in S : qhUrb[q] # NoUrb, Waitup(S),
             \A u \in Urbs : /\ u \in busy' => u \in busy
                             /\ u \in busy /\ u \notin busy' => hcpriv[u] \in S
                             /\ u \in Blocking /\ hcpriv[u] \in S => u \notin busy',
             iaad' \subseteq iaad, UNCHANGED <<my, starved, fault>>
      PROVE  Transfers'
  <2> DEFINE G == {q \in S : qhUrb[q] \in waits}
  <2>1. /\ \A q \in Qhs : qhUrb'[q] = IF q \in S THEN NoUrb ELSE qhUrb[q]
        /\ \A u \in Urbs : hcpriv'[u] = IF hcpriv[u] \in S THEN NoQh ELSE hcpriv[u]
    BY <1>3 DEF Waitup, QhFree, Detached
  <2>2. waits' = waits \ {qhUrb[q] : q \in S}
    BY <1>3 DEF Waitup
  <2>3. \A u \in Urbs : u \in waits' <=> u \in waits /\ hcpriv[u] \notin S
    BY <1>0, <1>1, <2>2
  <2>4. pc \in [Urbs -> PCs] /\ G \in SUBSET Qhs
    BY DEF TypeOK
  <2>5. Give(G, pc)
    BY <1>3 DEF Waitup
  <2>6. \A q : q \in G <=> q \in S /\ qhUrb[q] \in waits
    OBVIOUS
  <2> HIDE DEF G
  <2>7. /\ \A q \in Qhs : /\ waiter'[q] = IF q \in G THEN NoUrb ELSE waiter[q]
                          /\ value'[q] = IF q \in G /\ waiter[q] = NoUrb THEN value[q] + 1 ELSE value[q]
        /\ \A u \in Urbs : pc'[u] = IF pc[u] = "wait" /\ \E q \in G : waiter[q] = u
                                    THEN "taken" ELSE pc[u]
    BY <2>5 DEF Give
  <2>8. Ends(S, {})
    <3>1. \A q \in Qhs :
            /\ waiter'[q] = IF q \in S /\ qhUrb[q] \in waits THEN NoUrb ELSE waiter[q]
            /\ value'[q] = IF q \in S /\ qhUrb[q] \in waits /\ waiter[q] = NoUrb THEN value[q] + 1 ELSE value[q]
      BY <2>6, <2>7
    <3>2. \A u \in Urbs : pc'[u] = IF pc[u] = "wait" /\ \E q \in S : qhUrb[q] \in waits /\ waiter[q] = u
                                   THEN "taken" ELSE pc[u]
      BY <2>6, <2>7
    <3> QED BY <1>3, <2>1, <2>3, <3>1, <3>2 DEF Ends
  <2> QED BY <2>8, EndsKeeps
<1>4. ASSUME NEW q \in Qhs, ScanPeriodic(q)
      PROVE  Transfers'
  <2>1. qhUrb[q] \in Intr /\ hcpriv[qhUrb[q]] = q
    BY <1>0, <1>1, <1>4, PeriodicCases
  <2>2. PeriodicDone(q)
    BY <1>4, <2>1, PeriodicCases
  <2>3. busy' = busy \ {qhUrb[q]} /\ UNCHANGED <<my, starved, fault>>
    BY <2>2 DEF PeriodicDone, CheckQh
  <2>4. Waitup({q}) /\ iaad' = iaad
    BY <2>2 DEF PeriodicDone
  <2>5. \A u \in Urbs : hcpriv[u] \in {q} <=> u = qhUrb[q]
    BY <1>0, <2>1
  <2>6. qhUrb[q] # NoUrb /\ qhUrb[q] \notin Blocking /\ {q} \in SUBSET Qhs
    BY <1>0, <1>1, <2>1
  <2> QED BY <1>3, <2>3, <2>4, <2>5, <2>6
<1>5. CASE PortChange
  <2>1. UNCHANGED <<qhUrb, hcpriv, value, waiter, iaad, busy, waits, pc, my, starved, fault>>
    BY <1>5 DEF PortChange, semVars, urbVars, threadVars
  <2> QED BY <2>1, StandsStill DEF Transfers, Ended
<1>6. CASE Advance
  <2>1. ASSUME Break("null")
        PROVE  Transfers'
    <3>1. UNCHANGED <<qhUrb, hcpriv, value, waiter, iaad, busy, waits, pc, my, starved>> /\ fault' = "null"
      BY <2>1 DEF Break, qhVars, semVars, urbVars, threadVars
    <3> QED BY <3>1, StandsStill
  <2>2. \A q \in Removed : qhUrb[q] # NoUrb => hcpriv[qhUrb[q]] = q
    BY <1>0, <1>1 DEF Removed
  <2>3. ASSUME AdvanceDone
        PROVE  Transfers'
    <3> DEFINE S == Removed
    <3>1. /\ \A q \in S : qhUrb[q] # NoUrb
          /\ Waitup(S) /\ iaad' \subseteq iaad /\ UNCHANGED <<busy, my, starved, fault>>
      BY <2>3 DEF AdvanceDone
    <3>2. S \in SUBSET Qhs /\ S \subseteq iaad
      BY <1>1 DEF Removed
    <3>3. \A u \in Urbs : hcpriv[u] \in S => u \notin busy
      BY <1>0, <3>1, <3>2 DEF Transfers, Ended
    <3> HIDE DEF S
    <3> QED BY <1>3, <3>1, <3>2, <3>3
  <2> QED BY <1>6, <2>1, <2>2, <2>3, AdvanceCases
<1> QED BY <1>2, <1>4, <1>5, <1>6 DEF Handler

LEMMA TransferStep ==
  ASSUME TypeOK, PoolInv, TransferInv, [Next]_vars
  PROVE  TransferInv'
<1> SUFFICES ASSUME ~early' PROVE Transfers'
  BY DEF TransferInv
<1>1. ~early
  <2>1. ASSUME NEW u \in Urbs, Submit(u) \/ Mark(u) \/ LinkAsync(u) \/ LinkPeriodic(u)
        PROVE  early' = early
    BY <2>1 DEF Submit, Mark, LinkAsync, LinkPeriodic, Schedule, Break, flagVars
  <2>2. ASSUME NEW u \in Urbs, Linked(u) \/ TakeNow(u)
        PROVE  early => early'
    BY <2>2 DEF Linked, TakeNow
  <2>3. ASSUME NEW u \in Urbs, TakeWait(u) \/ Expire(u) \/ Taken(u) \/ Expired(u)
        PROVE  early' = early
    BY <2>3 DEF TakeWait, Expire, Taken, Expired, Break, flagVars
  <2>4. ASSUME NEW u \in Urbs, Kill(u)
        PROVE  early' = early
    BY <2>4, KillCases DEF KillDone, Break, flagVars
  <2>5. ASSUME NEW u \in Urbs, Forget(u) \/ \E a \in Intr : Cancel(a, u)
        PROVE  early' = early
    BY <2>5 DEF Forget, Cancel, flagVars
  <2>6. CASE Handler
    <3>1. ASSUME NEW q \in Qhs, ScanAsync(q) \/ ScanPeriodic(q)
          PROVE  early' = early
      BY <3>1 DEF ScanAsync, ScanPeriodic, CheckQh, Break
    <3>2. CASE Advance \/ PortChange
      BY <3>2, AdvanceCases DEF AdvanceDone, PortChange, Break
    <3> QED BY <2>6, <3>1, <3>2 DEF Handler
  <2>7. CASE UNCHANGED vars
    BY <2>7 DEF vars
  <2> QED BY <2>1, <2>2, <2>3, <2>4, <2>5, <2>6, <2>7 DEF Next, Inside
<1>2. Transfers
  BY <1>1 DEF TransferInv
<1>3. ASSUME NEW u \in Urbs, LinkAsync(u) \/ LinkPeriodic(u)
      PROVE  Transfers'
  BY <1>2, <1>3, TransferSchedule DEF LinkAsync, LinkPeriodic, At
<1>4. ASSUME NEW u \in Urbs, TakeNow(u)
      PROVE  Transfers'
  BY <1>4 DEF TakeNow
<1>5. ASSUME NEW u \in Urbs, NEW a \in Intr, Cancel(a, u)
      PROVE  Transfers'
  BY <1>2, <1>5, TransferHub
<1>6. ASSUME NEW u \in Urbs, Forget(u)
      PROVE  Transfers'
  BY <1>2, <1>6, TransferHub DEF Forget
<1>7. CASE UNCHANGED vars
  BY <1>2, <1>7, StandsStill DEF vars, Transfers, Ended
<1>8. ASSUME NEW u \in Urbs, Submit(u) \/ Mark(u) \/ Linked(u) \/ TakeWait(u)
      PROVE  Transfers'
  BY <1>2, <1>8, TransferSubmit, TransferMark, TransferLinked, TransferTakeWait
<1>9. ASSUME NEW u \in Urbs, Expire(u) \/ Taken(u) \/ Expired(u) \/ Kill(u)
      PROVE  Transfers'
  BY <1>2, <1>9, TransferAfter, TransferKill
<1>10. CASE Handler
  BY <1>2, <1>10, TransferHandler
<1> QED
  BY <1>3, <1>4, <1>5, <1>6, <1>7, <1>8, <1>9, <1>10 DEF Next, Inside

\* The pools, the schedule, the semaphores and the threads of the driver are what
\* they are meant to be.
THEOREM TypeCorrect == Spec => []TypeOK
BY TypeInit, TypeStep, PTL DEF Spec

LEMMA TransfersAlways == Spec => [](TypeOK /\ PoolInv /\ TransferInv)
<1> DEFINE Inv == TypeOK /\ PoolInv /\ TransferInv
<1>1. Init => Inv
  BY TypeInit, PoolInit, TransferInit DEF TransferInv
<1>2. Inv /\ [Next]_vars => Inv'
  BY TypeStep, PoolStep, TransferStep
<1> QED BY <1>1, <1>2, PTL DEF Spec

\* Unless a transfer ends before its thread waits, a wait is ended by the end of
\* its own transfer only, whatever else is submitted, killed, completed or
\* disconnected meanwhile, and no URB is freed or given another queue head while
\* the controller has it.
THEOREM TransfersEndRight == Spec => []OwnTransferEnds
<1>1. TypeOK /\ PoolInv /\ TransferInv => OwnTransferEnds
  <2> SUFFICES ASSUME TypeOK, TransferInv, ~early
               PROVE  /\ \A u \in Urbs : pc[u] = "taken" => u \notin busy /\ ~InSchedule(u)
                      /\ fault \notin {"freed", "stale"}
    BY DEF OwnTransferEnds
  <2>1. Transfers
    BY DEF TransferInv
  <2>2. ASSUME NEW u \in Urbs, pc[u] = "taken"
        PROVE  u \notin busy /\ ~InSchedule(u)
    <3>1. u \in Blocking
      BY <2>2 DEF TypeOK
    <3>2. hcpriv[u] = NoQh
      BY <2>1, <2>2, <3>1 DEF Transfers, QhOfUrb
    <3>3. u \notin busy
      BY <2>1, <2>2, <3>1, <3>2 DEF Transfers, Ended, Behind
    <3>4. ~InSchedule(u)
      BY <2>1, <3>2, OneQh DEF InSchedule
    <3> QED BY <3>3, <3>4
  <2> QED BY <2>1, <2>2 DEF Transfers, Ended
<1> QED BY <1>1, TransfersAlways, PTL

\* Unless a transfer ends before its thread waits, what a transfer leaves behind
\* when it has ended, in time or not: no token and no waiter at a semaphore; and,
\* but for a submit that has found no queue head or descriptor, no URB that is
\* busy without a transfer (usbh_submit_urb, usbh_kill_urb, ehci_urb_waitup).
THEOREM NothingStaysBehind == Spec => []NothingLeftBehind
<1>1. TypeOK /\ PoolInv /\ TransferInv => SemaphoresClean
  <2> SUFFICES ASSUME TypeOK, TransferInv, ~early, NEW q \in Qhs
               PROVE  /\ value[q] > 0 => \E u \in Urbs : my[u] = q /\ pc[u] \in {"linked", "take"}
                      /\ waiter[q] # NoUrb => my[waiter[q]] = q /\ pc[waiter[q]] \in {"wait", "expired", "kill"}
    BY DEF SemaphoresClean
  <2>1. Transfers
    BY DEF TransferInv
  <2>2. value[q] > 0 => \E u \in Urbs : my[u] = q /\ pc[u] \in {"linked", "take"}
    BY <2>1 DEF Transfers, TokenFor, Urbs
  <2>3. ASSUME waiter[q] # NoUrb
        PROVE  my[waiter[q]] = q /\ pc[waiter[q]] \in {"wait", "expired", "kill"}
    <3>1. waiter[q] \in Blocking /\ hcpriv[waiter[q]] = q /\ pc[waiter[q]] \in {"wait", "expired", "kill"}
      BY <2>1, <2>3 DEF Transfers, WaiterIs
    <3> QED BY <2>1, <3>1, OneQh DEF Transfers, QhOfUrb, Urbs
  <2> QED BY <2>2, <2>3
<1>2. TypeOK /\ PoolInv /\ TransferInv => BusyInProgress
  <2> SUFFICES ASSUME TypeOK, TransferInv, ~early, NEW u \in Lasting, pc[u] = "idle", u \in busy
               PROVE  u \in starved
    BY DEF BusyInProgress
  <2> QED BY DEF TransferInv, Transfers, Ended
<1> QED BY <1>1, <1>2, TransfersAlways, PTL DEF NothingLeftBehind
-----------------------------------------------------------------------------
(* What the driver computes for the controller: powers of two              *)

LEMMA Reaches ==
  ASSUME NEW n \in Nat, NEW T, 0 \in T, \A k \in 1..n : k - 1 \in T => k \in T
  PROVE  0..n \subseteq T
<1> DEFINE Rest == {k \in 0..n : k \notin T}
<1> SUFFICES ASSUME Rest # {} PROVE FALSE
  OBVIOUS
<1>1. Rest \subseteq Nat
  OBVIOUS
<1>2. PICK k \in Rest : \A y \in Rest : k <= y
  BY <1>1, NatMin
<1>3. k \in 1..n /\ k - 1 \in 0..n /\ ~(k <= k - 1)
  BY <1>2
<1>4. k - 1 \in T
  BY <1>2, <1>3
<1> QED BY <1>2, <1>3, <1>4

\* Values that come one from another
Comes(f, n, base, F) == f[0] = base /\ \A k \in 1..n : f[k] = F[<<f[k - 1], k>>]

\* are those of a function.
LEMMA Recursion ==
  ASSUME NEW n \in Nat, NEW S, NEW base \in S, NEW F \in [S \X Nat -> S]
  PROVE  \E f \in [0..n -> S] : Comes(f, n, base, F)
<1> DEFINE Fits(f, k) == Comes(f, k, base, F)
           T == {k \in Nat : \E f \in [0..k -> S] : Fits(f, k)}
<1>1. 0 \in T
  <2>1. [i \in 0..0 |-> base] \in [0..0 -> S] /\ Fits([i \in 0..0 |-> base], 0)
    BY DEF Comes
  <2> QED BY <2>1
<1>2. ASSUME NEW k \in 1..n, k - 1 \in T
      PROVE  k \in T
  <2>1. PICK f \in [0..(k - 1) -> S] : f[0] = base /\ \A i \in 1..(k - 1) : f[i] = F[<<f[i - 1], i>>]
    BY <1>2 DEF Comes
  <2> DEFINE last == F[<<f[k - 1], k>>]
             g == [i \in 0..k |-> IF i = k THEN last ELSE f[i]]
  <2>2. last \in S
    BY <2>1
  <2>3. \A i \in 0..k : i # k => i \in 0..(k - 1)
    OBVIOUS
  <2>4. g \in [0..k -> S]
    BY <2>2, <2>3
  <2>5. g[0] = base
    BY <2>1
  <2>6. ASSUME NEW i \in 1..k
        PROVE  g[i] = F[<<g[i - 1], i>>]
    <3>1. i - 1 \in 0..k /\ i - 1 # k /\ i \in 0..k
      OBVIOUS
    <3>2. g[i - 1] = f[i - 1]
      BY <3>1
    <3>3. CASE i = k
      BY <3>1, <3>2, <3>3
    <3>4. CASE i # k
      <4>1. i \in 1..(k - 1)
        BY <3>4
      <4> QED BY <2>1, <3>1, <3>2, <3>4, <4>1
    <3> QED BY <3>3, <3>4
  <2> HIDE DEF g
  <2>7. Fits(g, k)
    BY <2>5, <2>6 DEF Comes
  <2> QED BY <2>4, <2>7
<1> HIDE DEF T
<1>3. n \in T
  <2>1. 0..n \subseteq T
    BY <1>1, <1>2, Reaches
  <2> QED BY <2>1
<1> QED BY <1>3 DEF T


\* The function Pow2 exists: it is made of those up to each exponent.
LEMMA Pow2Def ==
  /\ \A n \in Nat : Pow2[n] \in Nat \ {0}
  /\ Pow2[0] = 1 /\ \A n \in Nat \ {0} : Pow2[n] = 2 * Pow2[n - 1]
<1> DEFINE F == [x \in Nat \X Nat |-> 2 * x[1]]
           Upto(n) == CHOOSE f \in [0..n -> Nat] : Comes(f, n, 1, F)
           p == [n \in Nat |-> Upto(n)[n]]
           Is(f) == f = [n \in Nat |-> IF n = 0 THEN 1 ELSE 2 * f[n - 1]]
<1>1. ASSUME NEW n \in Nat
      PROVE  Upto(n) \in [0..n -> Nat] /\ Upto(n)[0] = 1 /\ \A k \in 1..n : Upto(n)[k] = 2 * Upto(n)[k - 1]
  <2>1. F \in [Nat \X Nat -> Nat]
    OBVIOUS
  <2>2. \E f \in [0..n -> Nat] : Comes(f, n, 1, F)
    BY <2>1, Recursion
  <2>3. Upto(n) \in [0..n -> Nat] /\ Comes(Upto(n), n, 1, F)
    BY <2>2
  <2> HIDE DEF Upto
  <2>4. ASSUME NEW k \in 1..n
        PROVE  Upto(n)[k] = 2 * Upto(n)[k - 1]
    <3>1. <<Upto(n)[k - 1], k>> \in Nat \X Nat
      BY <2>3
    <3> QED BY <2>3, <3>1 DEF Comes
  <2> QED BY <2>3, <2>4 DEF Comes
<1> HIDE DEF Upto
<1>2. ASSUME NEW n \in Nat \ {0}
      PROVE  Upto(n)[n - 1] = Upto(n - 1)[n - 1]
  <2> DEFINE T == {k \in Nat : k <= n - 1 => Upto(n)[k] = Upto(n - 1)[k]}
             m == n - 1
  <2>1. n - 1 \in Nat
    OBVIOUS
  <2>2. 0 \in T
    BY <1>1, <2>1
  <2>3. ASSUME NEW k \in 1..m, k - 1 \in T
        PROVE  k \in T
    <3>1. k \in 1..n /\ k \in 1..(n - 1) /\ k - 1 <= n - 1
      OBVIOUS
    <3>2. Upto(n)[k] = 2 * Upto(n)[k - 1] /\ Upto(n - 1)[k] = 2 * Upto(n - 1)[k - 1]
      BY <1>1, <2>1, <3>1
    <3> QED BY <2>3, <3>1, <3>2
  <2> HIDE DEF T
  <2>4. 0..m \subseteq T
    BY <2>1, <2>2, <2>3, Reaches
  <2>5. m \in T
    BY <2>1, <2>4
  <2> QED BY <2>1, <2>5 DEF T
<1>3. ASSUME NEW n \in Nat
      PROVE  p[n] = IF n = 0 THEN 1 ELSE 2 * p[n - 1]
  <2>1. CASE n = 0
    BY <1>1, <2>1
  <2>2. CASE n # 0
    <3>1. n - 1 \in Nat /\ n \in 1..n
      BY <2>2
    <3>2. Upto(n)[n] = 2 * Upto(n)[n - 1]
      BY <1>1, <3>1
    <3> QED BY <1>2, <2>2, <3>1, <3>2
  <2> QED BY <2>1, <2>2
<1> HIDE DEF p
<1>4. Is(p)
  <2>1. p = [n \in Nat |-> p[n]]
    BY DEF p
  <2> QED BY <1>3, <2>1
<1>5. Is(Pow2)
  BY <1>4 DEF Pow2
<1> HIDE DEF Is
<1>6. Pow2[0] = 1 /\ \A n \in Nat \ {0} : Pow2[n] = 2 * Pow2[n - 1]
  BY <1>5 DEF Is
<1> DEFINE P == {n \in Nat : Pow2[n] \in Nat \ {0}}
<1>7. ASSUME NEW n \in Nat
      PROVE  Pow2[n] \in Nat \ {0}
  <2>1. 0 \in P
    BY <1>6
  <2>2. ASSUME NEW k \in 1..n, k - 1 \in P
        PROVE  k \in P
    <3>1. k \in Nat \ {0}
      OBVIOUS
    <3> QED BY <1>6, <2>2, <3>1
  <2> HIDE DEF P
  <2>3. 0..n \subseteq P
    BY <2>1, <2>2, Reaches
  <2> QED BY <2>3 DEF P
<1> QED BY <1>6, <1>7

LEMMA PowGrows ==
  ASSUME NEW i \in Nat, NEW k \in Nat, i <= k
  PROVE  Pow2[i] <= Pow2[k]
<1> DEFINE T == {d \in Nat : Pow2[i] <= Pow2[i + d]}
           n == k - i
<1>1. 0 \in T
  BY Pow2Def
<1>2. ASSUME NEW d \in 1..n, d - 1 \in T
      PROVE  d \in T
  <2>1. /\ i + d \in Nat \ {0} /\ d \in Nat /\ (i + d) - 1 = i + (d - 1)
        /\ Pow2[i] <= Pow2[i + (d - 1)] /\ i + (d - 1) \in Nat
    BY <1>2
  <2>2. Pow2[i + d] = 2 * Pow2[(i + d) - 1] /\ Pow2[i + (d - 1)] \in Nat /\ Pow2[i] \in Nat
    BY <2>1, Pow2Def
  <2> QED BY <2>1, <2>2
<1> HIDE DEF T
<1>3. n \in Nat
  OBVIOUS
<1>4. n \in T
  <2>1. 0..n \subseteq T
    BY <1>1, <1>2, <1>3, Reaches
  <2> QED BY <1>3, <2>1
<1>5. i + n = k
  OBVIOUS
<1> QED BY <1>4, <1>5 DEF T

LEMMA DivIs ==
  ASSUME NEW c \in Nat \ {0}, NEW q \in Int, NEW r \in 0..(c - 1), NEW x \in Int, x = q * c + r
  PROVE  x \div c = q /\ x % c = r
<1> DEFINE y == x \div c
           s == x % c
<1>1. y \in Int /\ s \in 0..(c - 1) /\ x = y * c + s
  OBVIOUS
<1> HIDE DEF y, s
<1>2. (y - q) * c = r - s
  BY <1>1
<1>3. y - q = 0
  <2> DEFINE t == y - q
  <2>1. t \in Int
    BY <1>1
  <2>2. t * c = r - s
    BY <1>2
  <2> HIDE DEF t
  <2>3. t * c < c /\ -c < t * c
    BY <1>1, <2>2
  <2>4. t = 0
    <3>1. t >= 1 => t * c >= c
      BY <2>1
    <3>2. t <= -1 => t * c <= -c
      BY <2>1
    <3> QED BY <2>1, <2>3, <3>1, <3>2
  <2> QED BY <2>4 DEF t
<1>4. y = q /\ s = r
  BY <1>1, <1>2, <1>3
<1> QED BY <1>4 DEF y, s

\* What a power of two divides, a lower one divides.
LEMMA DivDown ==
  ASSUME NEW x \in Nat, NEW p \in Nat \ {0}, x % (2 * p) = 0
  PROVE  x % p = 0
<1> DEFINE c == 2 * p
           q == x \div c
           r == 2 * q
<1>1. c \in Nat \ {0} /\ x % c = 0
  OBVIOUS
<1> HIDE DEF c
<1>2. q \in Int /\ x = q * c
  BY <1>1
<1> HIDE DEF q
<1>3. q * c = r * p
  BY <1>2 DEF c
<1>4. r \in Int /\ r * p \in Int
  BY <1>2
<1> HIDE DEF r
<1>5. x = r * p + 0 /\ 0 \in 0..(p - 1)
  BY <1>2, <1>3, <1>4
<1> QED BY <1>4, <1>5, DivIs

LEMMA DivBelow ==
  ASSUME NEW x \in Nat, NEW e \in Nat, x % Pow2[e] = 0, NEW i \in 0..e
  PROVE  x % Pow2[i] = 0
<1> DEFINE T == {k \in Nat : k <= e => x % Pow2[e - k] = 0}
           n == e - i
<1>1. 0 \in T
  OBVIOUS
<1>2. ASSUME NEW k \in 1..n, k - 1 \in T
      PROVE  k \in T
  <2>1. /\ k \in Nat /\ k <= e /\ k - 1 <= e /\ e - (k - 1) \in Nat \ {0} /\ e - k \in Nat
        /\ (e - (k - 1)) - 1 = e - k
    OBVIOUS
  <2>2. x % Pow2[e - (k - 1)] = 0
    BY <1>2, <2>1
  <2>3. Pow2[e - (k - 1)] = 2 * Pow2[e - k] /\ Pow2[e - k] \in Nat \ {0}
    BY <2>1, Pow2Def
  <2>4. x % Pow2[e - k] = 0
    BY <2>2, <2>3, DivDown
  <2> QED BY <2>1, <2>4
<1> HIDE DEF T
<1>3. n \in Nat /\ n <= e /\ e - n = i
  OBVIOUS
<1>4. n \in T
  <2>1. 0..n \subseteq T
    BY <1>1, <1>2, <1>3, Reaches
  <2> QED BY <1>3, <2>1
<1> QED BY <1>3, <1>4 DEF T

\* The frames of head k: every 2^k-th one, the first with 2^k - 1 before it
Divides(k, j) == (j + 1) % Pow2[k] = 0

LEMMA FirstFrameIs ==
  ASSUME NEW j \in Nat, NEW i \in Nat
  PROVE  (j >= FirstFrame(i) /\ (j - FirstFrame(i)) % Pow2[i] = 0) <=> Divides(i, j)
<1> DEFINE p == Pow2[i]
           x == j - (p - 1)
           y == j + 1
<1>1. p \in Nat \ {0} /\ FirstFrame(i) = p - 1
  BY Pow2Def DEF FirstFrame
<1> HIDE DEF p
<1>2. ASSUME x >= 0, x % p = 0
      PROVE  y % p = 0
  <2> DEFINE q == x \div p
             r == q + 1
  <2>1. q \in Int /\ x = q * p
    BY <1>1, <1>2
  <2> HIDE DEF q
  <2>2. y = r * p + 0 /\ r \in Int /\ y \in Int /\ 0 \in 0..(p - 1)
    BY <1>1, <2>1
  <2> HIDE DEF r, y
  <2> QED BY <1>1, <2>2, DivIs
<1>3. ASSUME y % p = 0
      PROVE  x >= 0 /\ x % p = 0
  <2> DEFINE q == y \div p
             r == q - 1
  <2>1. q \in Int /\ y = q * p
    BY <1>1, <1>3
  <2> HIDE DEF q
  <2>2. q >= 1
    <3>1. q <= 0 => q * p <= 0
      BY <1>1, <2>1
    <3> QED BY <2>1, <3>1
  <2>3. x = r * p + 0 /\ r \in Nat /\ x \in Int /\ 0 \in 0..(p - 1)
    BY <1>1, <2>1, <2>2
  <2>4. r * p \in Nat
    <3> HIDE DEF r
    <3> QED BY <1>1, <2>3
  <2> HIDE DEF r, x
  <2>5. x >= 0
    BY <2>3, <2>4
  <2> QED BY <1>1, <2>3, <2>5, DivIs
<1>4. j >= p - 1 <=> x >= 0
  BY <1>1
<1> QED BY <1>1, <1>2, <1>3, <1>4 DEF p, Divides
-----------------------------------------------------------------------------
(* The frame list                                                          *)

HeadNums == 0..(Heads - 1)

\* The links when the heads from i on have been hung.
Links(i) == [h \in HeadNums |-> IF h > i THEN h - 1 ELSE End]

LEMMA Before ==
  ASSUME NEW n \in Int, NEW f \in Seq(Int)
  PROVE  <<n>> \o f = [k \in 1..(Len(f) + 1) |-> IF k = 1 THEN n ELSE f[k - 1]]
<1> DEFINE s == <<n>> \o f
<1>1. Len(f) \in Nat /\ Len(s) = Len(f) + 1 /\ s \in Seq(Int) /\ Len(<<n>>) = 1 /\ <<n>>[1] = n
  OBVIOUS
<1>2. s = [k \in 1..(Len(f) + 1) |-> s[k]]
  BY <1>1
<1>3. ASSUME NEW k \in 1..(Len(f) + 1)
      PROVE  s[k] = IF k = 1 THEN n ELSE f[k - 1]
  BY <1>1
<1> QED BY <1>2, <1>3

LEMMA ChainIs ==
  ASSUME NEW i \in 0..Heads, NEW e \in HeadNums, i <= e
  PROVE  Chain(Links(i), e) = [k \in 1..(e - i + 1) |-> e - k + 1]
<1> DEFINE next == Links(i)
           Is(f) == f = [n \in -1..(Heads - 1) |-> IF n = End THEN <<>> ELSE <<n>> \o f[next[n]]]
           Down(n) == [k \in 1..(n - i + 1) |-> n - k + 1]
           g == [n \in -1..(Heads - 1) |-> IF n = End THEN <<>> ELSE IF n < i THEN <<n>> ELSE Down(n)]
           c == CHOOSE f : Is(f)
<1>0. Heads \in Nat /\ Heads > 0 /\ i \in Nat /\ e \in Nat /\ End = -1
  BY LayoutAssumption DEF HeadNums, End
<1>1. ASSUME NEW n \in HeadNums
      PROVE  n \in Nat /\ n # End /\ n \in -1..(Heads - 1) /\ next[n] = IF n > i THEN n - 1 ELSE End
  BY <1>0 DEF Links, HeadNums
<1>2. ASSUME NEW n \in HeadNums
      PROVE  g[n] = <<n>> \o g[next[n]]
  <2>1. CASE n < i
    <3>1. next[n] = End /\ End \in -1..(Heads - 1) /\ n # End /\ n \in -1..(Heads - 1)
      BY <1>0, <1>1, <2>1
    <3>2. g[n] = <<n>> /\ g[End] = <<>>
      BY <2>1, <3>1
    <3> QED BY <1>1, <3>1, <3>2
  <2>2. CASE n = i
    <3>1. next[n] = End /\ End \in -1..(Heads - 1) /\ n # End /\ n \in -1..(Heads - 1) /\ ~(n < i)
      BY <1>0, <1>1, <2>2
    <3>2. g[n] = Down(n) /\ g[End] = <<>>
      BY <3>1
    <3>3. Down(n) = <<n>> /\ <<n>> \o <<>> = <<n>>
      <4>1. n - i + 1 = 1 /\ n - 1 + 1 = n
        BY <1>0, <1>1, <2>2
      <4>2. Down(n) = [k \in 1..1 |-> n]
        BY <1>1, <4>1
      <4> QED BY <4>2
    <3> QED BY <3>1, <3>2, <3>3
  <2>3. CASE n > i
    <3>1. next[n] = n - 1 /\ n - 1 \in -1..(Heads - 1) /\ n - 1 # End /\ ~(n - 1 < i) /\ ~(n < i)
      BY <1>0, <1>1, <2>3
    <3>2. g[n] = Down(n) /\ g[n - 1] = Down(n - 1)
      BY <1>1, <3>1
    <3>3. Down(n) = <<n>> \o Down(n - 1)
      <4> DEFINE m == n - i
      <4>1. m \in Nat \ {0} /\ n - i + 1 = m + 1 /\ (n - 1) - i + 1 = m
        BY <1>0, <1>1, <2>3
      <4>2. Down(n) = [k \in 1..(m + 1) |-> n - k + 1] /\ Down(n - 1) = [k \in 1..m |-> (n - 1) - k + 1]
        BY <4>1
      <4> HIDE DEF m, Down
      <4>3. Down(n - 1) \in Seq(Int) /\ Len(Down(n - 1)) = m
        <5>1. \A k \in 1..m : (n - 1) - k + 1 \in Int
          BY <1>1
        <5> QED BY <4>1, <4>2, <5>1
      <4>4. <<n>> \o Down(n - 1) = [k \in 1..(m + 1) |-> IF k = 1 THEN n ELSE Down(n - 1)[k - 1]]
        BY <1>1, <4>3, Before
      <4>5. ASSUME NEW k \in 1..(m + 1)
            PROVE  n - k + 1 = IF k = 1 THEN n ELSE Down(n - 1)[k - 1]
        <5>1. k = 1 => n - k + 1 = n
          BY <1>1
        <5>2. k # 1 => k - 1 \in 1..m /\ (n - 1) - (k - 1) + 1 = n - k + 1
          BY <1>1, <4>1
        <5>3. k # 1 => Down(n - 1)[k - 1] = n - k + 1
          BY <4>2, <5>2
        <5> QED BY <5>1, <5>3
      <4> QED BY <4>2, <4>4, <4>5
    <3> HIDE DEF g, Down, next
    <3> QED BY <3>1, <3>2, <3>3
  <2> HIDE DEF g
  <2>4. n < i \/ n = i \/ n > i
    BY <1>0, <1>1
  <2> QED BY <2>1, <2>2, <2>3, <2>4
<1>3. Is(g)
  <2>1. ASSUME NEW n \in -1..(Heads - 1)
        PROVE  g[n] = IF n = End THEN <<>> ELSE <<n>> \o g[next[n]]
    <3>1. n # End => n \in HeadNums
      BY <1>0 DEF HeadNums
    <3>2. n = End => g[n] = <<>>
      OBVIOUS
    <3> HIDE DEF g
    <3> QED BY <1>2, <3>1, <3>2, Zenon
  <2>2. g = [n \in -1..(Heads - 1) |-> g[n]]
    OBVIOUS
  <2> HIDE DEF g
  <2> QED BY <2>1, <2>2
<1>4. Is(c)
  BY <1>3, Zenon
<1>5. c[End] = <<>> /\ \A n \in HeadNums : c[n] = <<n>> \o c[next[n]]
  <2> HIDE DEF c, next
  <2>1. End \in -1..(Heads - 1) /\ \A n \in HeadNums : n \in -1..(Heads - 1) /\ n # End
    BY <1>0, <1>1
  <2> QED BY <1>4, <2>1
<1>6. g[End] = <<>>
  BY <1>0
<1> DEFINE T == {n \in Nat : n <= Heads => c[n - 1] = g[n - 1]}
<1> HIDE DEF g, c, next, Is, Down
<1>7. 0 \in T
  BY <1>0, <1>5, <1>6
<1>8. ASSUME NEW n \in 1..Heads, \A m \in 0..(n - 1) : m \in T
      PROVE  n \in T
  <2>1. n - 1 \in HeadNums /\ n \in Nat
    BY <1>0 DEF HeadNums
  <2>2. c[n - 1] = <<n - 1>> \o c[next[n - 1]] /\ g[n - 1] = <<n - 1>> \o g[next[n - 1]]
    BY <1>2, <1>5, <2>1
  <2>3. CASE next[n - 1] = End
    BY <1>5, <1>6, <2>1, <2>2, <2>3
  <2>4. CASE next[n - 1] # End
    <3>1. next[n - 1] = (n - 1) - 1 /\ n - 1 \in 0..(n - 1) /\ n - 1 <= Heads
      BY <1>0, <1>1, <2>1, <2>4
    <3>2. c[(n - 1) - 1] = g[(n - 1) - 1]
      BY <1>8, <3>1
    <3> QED BY <2>1, <2>2, <3>1, <3>2
  <2> QED BY <2>3, <2>4
<1> DEFINE U == {n \in Nat : \A m \in 0..n : m \in T}
<1>9. e + 1 \in T
  <2> HIDE DEF T
  <2>1. 0 \in U
    BY <1>7
  <2>2. ASSUME NEW n \in 1..Heads, n - 1 \in U
        PROVE  n \in U
    <3>1. n \in T
      BY <1>8, <2>2
    <3>2. \A m \in 0..n : m = n \/ m \in 0..(n - 1)
      OBVIOUS
    <3> QED BY <2>2, <3>1, <3>2
  <2> HIDE DEF U
  <2>3. 0..Heads \subseteq U
    BY <1>0, <2>1, <2>2, Reaches
  <2>4. Heads \in U /\ e + 1 \in 0..Heads
    BY <1>0, <2>3 DEF HeadNums
  <2> QED BY <2>4 DEF U
<1>10. c[e] = g[e]
  <2>1. e + 1 <= Heads /\ (e + 1) - 1 = e
    BY <1>0 DEF HeadNums
  <2> QED BY <1>9, <2>1 DEF T
<1>11. g[e] = Down(e)
  <2>1. e \in -1..(Heads - 1) /\ e # End /\ ~(e < i)
    BY <1>0, <1>1
  <2> QED BY <2>1 DEF g
<1>12. Chain(Links(i), e) = c[e]
  BY DEF Chain, c, Is, next
<1> QED BY <1>10, <1>11, <1>12 DEF Down

\* so that the last head of a chain is the lowest that has been hung.
LEMMA LastIs ==
  ASSUME NEW i \in 0..Heads, NEW e \in HeadNums, i <= e
  PROVE  Last(Chain(Links(i), e)) = i
<1> DEFINE m == e - i + 1
           c == [k \in 1..m |-> e - k + 1]
<1>1. e \in Nat /\ i \in Nat /\ m \in Nat \ {0}
  BY LayoutAssumption DEF HeadNums
<1>2. e - m + 1 = i
  BY <1>1
<1> HIDE DEF m
<1>3. m \in 1..m /\ c[m] = i
  BY <1>1, <1>2
<1>4. Len(c) = m
  BY <1>1
<1> HIDE DEF c
<1>5. Last(c) = i
  BY <1>3, <1>4 DEF Last
<1> QED BY <1>5, ChainIs DEF c, m

\* The heads from i on have been hung: a frame begins with the highest of those
\* that divide it.
Hung(list, i) ==
  /\ list = [entry |-> list.entry, next |-> Links(i)]
  /\ list.entry \in [Frames -> HeadNums \cup {End}]
  /\ \A j \in Frames :
       IF list.entry[j] = End THEN \A k \in HeadNums : k >= i => ~Divides(k, j)
       ELSE /\ list.entry[j] >= i /\ Divides(list.entry[j], j)
            /\ \A k \in HeadNums : k > list.entry[j] => ~Divides(k, j)

LEMMA Numbers ==
  /\ Heads \in Nat \ {0} /\ HeadNums \subseteq Nat /\ Frames \subseteq Nat /\ End \notin Nat
  /\ \A k \in HeadNums : k < Heads
BY LayoutAssumption DEF HeadNums, Frames, End

LEMMA HangIs ==
  ASSUME NEW i \in HeadNums, NEW list, Hung(list, i + 1)
  PROVE  Hung(HangHead(list, i), i)
<1> DEFINE mine == {j \in Frames : j >= FirstFrame(i) /\ (j - FirstFrame(i)) % Pow2[i] = 0}
           last(j) == Last(Chain(list.next, list.entry[j]))
           tails == {last(j) : j \in {k \in mine : list.entry[k] # End}}
           entry == [j \in Frames |-> IF j \in mine /\ list.entry[j] = End THEN i ELSE list.entry[j]]
           next == [h \in DOMAIN list.next |-> IF h \in tails \ {i} THEN i ELSE list.next[h]]
<1>1. /\ i \in Nat /\ i + 1 \in 0..Heads /\ i + 1 \in Nat /\ i < Heads
      /\ \A k \in HeadNums : k \in Nat /\ (k >= i <=> k = i \/ k >= i + 1)
  BY Numbers DEF HeadNums
<1>2. list.next = Links(i + 1) /\ DOMAIN list.next = HeadNums
  BY DEF Hung, Links
<1>3. \A j \in Frames : j \in mine <=> Divides(i, j)
  BY <1>1, Numbers, FirstFrameIs
<1> HIDE DEF mine
<1>4. ASSUME NEW j \in Frames, list.entry[j] # End
      PROVE  /\ list.entry[j] \in HeadNums /\ list.entry[j] >= i + 1
             /\ Divides(list.entry[j], j) /\ \A k \in HeadNums : k > list.entry[j] => ~Divides(k, j)
  BY <1>4 DEF Hung
<1>5. ASSUME NEW j \in Frames, list.entry[j] # End
      PROVE  j \in mine /\ last(j) = i + 1 /\ i + 1 \in HeadNums
  <2> DEFINE e == list.entry[j]
  <2>1. e \in HeadNums /\ e >= i + 1 /\ (j + 1) % Pow2[e] = 0
    BY <1>4, <1>5 DEF Divides
  <2>0. last(j) = Last(Chain(Links(i + 1), e))
    BY <1>2
  <2> HIDE DEF e, last
  <2>2. e \in Nat /\ i \in 0..e /\ j + 1 \in Nat
    <3>1. e \in Nat /\ j \in Nat
      BY <2>1, Numbers
    <3> QED BY <1>1, <2>1, <3>1
  <2>3. Divides(i, j)
    BY <2>1, <2>2, DivBelow DEF Divides
  <2>4. Last(Chain(Links(i + 1), e)) = i + 1
    BY <1>1, <2>1, <2>2, LastIs
  <2>5. i + 1 \in HeadNums
    BY <1>1, <2>1, <2>2, Numbers DEF HeadNums
  <2> QED BY <1>3, <2>0, <2>3, <2>4, <2>5
<1>6. tails = IF i + 1 \in HeadNums THEN {i + 1} ELSE {}
  <2>1. ASSUME NEW t \in tails
        PROVE  t = i + 1 /\ i + 1 \in HeadNums
    <3>1. PICK j \in mine : list.entry[j] # End /\ t = last(j)
      OBVIOUS
    <3>2. j \in Frames
      BY <3>1 DEF mine
    <3> HIDE DEF last
    <3> QED BY <1>5, <3>1, <3>2
  <2>2. ASSUME i + 1 \in HeadNums
        PROVE  i + 1 \in tails
    <3> DEFINE j == Pow2[i + 1] - 1
    <3>0. Heads - 1 \in Nat /\ i + 1 <= Heads - 1
      BY <1>1, <2>2, Numbers DEF HeadNums
    <3>1. Pow2[i + 1] \in Nat \ {0} /\ Heads - 1 \in Nat /\ Pow2[i + 1] <= Pow2[Heads - 1]
      BY <1>1, <3>0, PowGrows, Pow2Def
    <3>2. Pow2[Heads - 1] \in Nat
      BY <3>1, Pow2Def
    <3>3. j \in Frames /\ j + 1 = Pow2[i + 1]
      BY <3>1, <3>2 DEF Frames
    <3>4. Pow2[i + 1] % Pow2[i + 1] = 0
      <4>1. Pow2[i + 1] = 1 * Pow2[i + 1] + 0 /\ 0 \in 0..(Pow2[i + 1] - 1)
        BY <3>1
      <4> QED BY <3>1, <4>1, DivIs
    <3>5. Divides(i + 1, j)
      BY <3>3, <3>4 DEF Divides
    <3> HIDE DEF j
    <3>6. list.entry[j] # End
      BY <1>1, <2>2, <3>3, <3>5 DEF Hung
    <3> HIDE DEF last
    <3> QED BY <1>5, <3>3, <3>6
  <2> HIDE DEF tails
  <2> QED BY <2>1, <2>2
<1> HIDE DEF tails
<1>7. next = Links(i)
  <2>1. ASSUME NEW h \in HeadNums
        PROVE  (IF h \in tails \ {i} THEN i ELSE list.next[h]) = IF h > i THEN h - 1 ELSE End
    <3>1. list.next[h] = IF h > i + 1 THEN h - 1 ELSE End
      BY <1>2 DEF Links
    <3>2. h \in tails \ {i} <=> h = i + 1
      BY <1>1, <1>6
    <3>3. h \in Nat
      BY Numbers
    <3>4. CASE h = i + 1
      BY <1>1, <3>2, <3>4
    <3>5. CASE h # i + 1
      <4>1. h > i + 1 <=> h > i
        BY <1>1, <3>3, <3>5
      <4> QED BY <3>1, <3>2, <3>5, <4>1
    <3> QED BY <3>4, <3>5
  <2> QED BY <1>2, <2>1 DEF Links
<1>8. entry \in [Frames -> HeadNums \cup {End}]
  BY DEF Hung
<1>9. ASSUME NEW j \in Frames
      PROVE  IF entry[j] = End THEN \A k \in HeadNums : k >= i => ~Divides(k, j)
             ELSE /\ entry[j] >= i /\ Divides(entry[j], j)
                  /\ \A k \in HeadNums : k > entry[j] => ~Divides(k, j)
  <2>1. i # End
    BY <1>1, Numbers
  <2>2. CASE list.entry[j] # End
    <3>1. entry[j] = list.entry[j]
      BY <2>2
    <3>2. list.entry[j] >= i
      BY <1>1, <1>4, <2>2
    <3> QED BY <1>4, <2>2, <3>1, <3>2
  <2>3. CASE list.entry[j] = End /\ j \in mine
    <3>1. entry[j] = i
      BY <2>3
    <3>2. \A k \in HeadNums : k > i => ~Divides(k, j)
      BY <1>1, <2>3 DEF Hung
    <3>3. i >= i
      BY <1>1
    <3> QED BY <1>3, <2>1, <2>3, <3>1, <3>2, <3>3
  <2>4. CASE list.entry[j] = End /\ j \notin mine
    <3>1. entry[j] = End
      BY <2>4
    <3>2. \A k \in HeadNums : k >= i + 1 => ~Divides(k, j)
      BY <2>4 DEF Hung
    <3> QED BY <1>1, <1>3, <2>4, <3>1, <3>2
  <2> QED BY <2>2, <2>3, <2>4
<1>10. HangHead(list, i) = [entry |-> entry, next |-> next]
  BY DEF HangHead, tails, mine
<1> HIDE DEF entry, next
<1> QED BY <1>7, <1>8, <1>9, <1>10 DEF Hung

\* The lists that usb_hc_init builds, one head at a time
Built ==
  LET hung[n \in 0..Heads] ==
        IF n = 0 THEN [entry |-> [j \in Frames |-> End], next |-> [h \in 0..(Heads - 1) |-> End]]
        ELSE HangHead(hung[n - 1], Heads - n)
  IN  hung

LEMMA BuiltIs == Hung(Built[Heads], 0)
<1> DEFINE bare == [entry |-> [j \in Frames |-> End], next |-> [h \in 0..(Heads - 1) |-> End]]
           Is(f, n) == f = [m \in 0..n |-> IF m = 0 THEN bare ELSE HangHead(f[m - 1], Heads - m)]
           T == {n \in Nat : \E f : Is(f, n)}
<1> HIDE DEF bare
<1>1. 0 \in T
  <2>1. Is([m \in 0..0 |-> bare], 0)
    OBVIOUS
  <2> QED BY <2>1
<1>2. ASSUME NEW n \in 1..Heads, n - 1 \in T
      PROVE  n \in T
  <2>1. PICK f : Is(f, n - 1)
    BY <1>2
  <2> DEFINE g == [m \in 0..n |-> IF m = n THEN HangHead(f[n - 1], Heads - n) ELSE f[m]]
  <2>2. n \in Nat /\ n - 1 \in 0..n /\ n - 1 # n /\ n \in 0..n /\ n # 0
    OBVIOUS
  <2>3. ASSUME NEW m \in 0..n
        PROVE  g[m] = IF m = 0 THEN bare ELSE HangHead(g[m - 1], Heads - m)
    <3>1. CASE m = n
      <4>1. g[m] = HangHead(f[n - 1], Heads - n) /\ g[n - 1] = f[n - 1]
        BY <2>2, <3>1
      <4> QED BY <2>2, <3>1, <4>1
    <3>2. CASE m # n
      <4>1. m \in 0..(n - 1) /\ (m # 0 => m - 1 \in 0..n /\ m - 1 # n)
        BY <2>2, <3>2
      <4>2. g[m] = f[m] /\ (m # 0 => g[m - 1] = f[m - 1])
        BY <3>2, <4>1
      <4> HIDE DEF g
      <4> QED BY <2>1, <4>1, <4>2
    <3> QED BY <3>1, <3>2
  <2>4. Is(g, n)
    <3>1. g = [m \in 0..n |-> g[m]]
      OBVIOUS
    <3> HIDE DEF g
    <3> QED BY <2>3, <3>1
  <2> QED BY <2>2, <2>4
<1> HIDE DEF T
<1>3. \E f : Is(f, Heads)
  <2>1. Heads \in Nat
    BY Numbers
  <2>2. 0..Heads \subseteq T
    BY <1>1, <1>2, <2>1, Reaches
  <2>3. Heads \in T
    BY <2>1, <2>2
  <2> HIDE DEF Is
  <2> QED BY <2>3 DEF T
<1>4. Is(Built, Heads)
  BY <1>3 DEF Built, bare
<1>5. /\ Heads \in Nat /\ Built[0] = bare
      /\ \A n \in 1..Heads : Built[n] = HangHead(Built[n - 1], Heads - n)
  <2>1. Heads \in Nat
    BY Numbers
  <2> QED BY <1>4, <2>1
<1> HIDE DEF Is
<1> DEFINE U == {n \in Nat : n <= Heads => Hung(Built[n], Heads - n)}
<1>6. 0 \in U
  <2>1. Hung(bare, Heads)
    <3>1. bare.next = Links(Heads)
      <4>1. \A h \in HeadNums : ~(h > Heads)
        BY Numbers
      <4> QED BY <4>1 DEF bare, Links, HeadNums
    <3>2. \A j \in Frames : bare.entry[j] = End
      BY DEF bare
    <3>3. bare.entry \in [Frames -> HeadNums \cup {End}] /\ bare = [entry |-> bare.entry, next |-> bare.next]
      BY DEF bare
    <3>4. \A k \in HeadNums : ~(k >= Heads)
      BY Numbers
    <3> HIDE DEF bare
    <3> QED BY <3>1, <3>2, <3>3, <3>4 DEF Hung
  <2>2. Heads - 0 = Heads
    BY <1>5
  <2> QED BY <1>5, <2>1, <2>2
<1>7. ASSUME NEW n \in 1..Heads, n - 1 \in U
      PROVE  n \in U
  <2>1. /\ n \in Nat /\ n - 1 <= Heads /\ Heads - n \in HeadNums /\ Heads - (n - 1) = (Heads - n) + 1
    BY <1>5 DEF HeadNums
  <2>2. Hung(Built[n - 1], (Heads - n) + 1)
    BY <1>7, <2>1
  <2>3. Hung(HangHead(Built[n - 1], Heads - n), Heads - n)
    BY <2>1, <2>2, HangIs
  <2> QED BY <1>5, <2>1, <2>3
<1> HIDE DEF U
<1>8. Heads \in U
  <2>1. 0..Heads \subseteq U
    BY <1>5, <1>6, <1>7, Reaches
  <2> QED BY <1>5, <2>1
<1>9. Heads - Heads = 0 /\ Heads <= Heads
  BY <1>5
<1> QED BY <1>8, <1>9 DEF U

\* A frame visits the heads that divide it, from the highest one down.
LEMMA FramesRight ==
  ASSUME NEW j \in Frames
  PROVE  LET visited == Chain(FrameList.next, FrameList.entry[j])
         IN  /\ IsInjective(visited)
             /\ \A i \in 0..(Heads - 1) : i \in ToSet(visited) <=> (j + 1) % Pow2[i] = 0
<1> DEFINE list == Built[Heads]
           e == list.entry[j]
           m == e - 0 + 1
           c == [k \in 1..m |-> e - k + 1]
<1>1. FrameList = list
  BY DEF FrameList, Built
<1>2. list.next = Links(0) /\ e \in HeadNums /\ Divides(e, j) /\ \A k \in HeadNums : k > e => ~Divides(k, j)
  <2>1. Hung(list, 0)
    BY BuiltIs
  <2> HIDE DEF list
  <2>2. 0 \in HeadNums /\ 0 >= 0 /\ j + 1 \in Int
    BY Numbers DEF HeadNums
  <2>3. Divides(0, j)
    <3>1. (j + 1) % 1 = 0
      BY <2>2
    <3> QED BY <3>1, Pow2Def DEF Divides
  <2> QED BY <2>1, <2>2, <2>3 DEF Hung
<1> HIDE DEF list, e
<1>3. e \in Nat /\ 0 \in 0..Heads /\ 0 <= e /\ m = e + 1
  BY <1>2, Numbers
<1>4. Chain(Links(0), e) = c
  BY <1>2, <1>3, ChainIs
<1>5. \A k \in 1..m : c[k] = e - k + 1
  OBVIOUS
<1>6. DOMAIN c = 1..m
  OBVIOUS
<1> HIDE DEF c
<1>7. IsInjective(c)
  BY <1>3, <1>5, <1>6 DEF IsInjective
<1>8. ASSUME NEW i \in 0..(Heads - 1)
      PROVE  i \in ToSet(c) <=> Divides(i, j)
  <2>1. i \in Nat /\ i \in HeadNums
    BY Numbers DEF HeadNums
  <2>2. ASSUME i <= e
        PROVE  i \in ToSet(c) /\ Divides(i, j)
    <3>1. e - i + 1 \in 1..m /\ e - (e - i + 1) + 1 = i
      BY <1>3, <2>1, <2>2
    <3>2. i \in ToSet(c)
      BY <1>5, <1>6, <3>1 DEF ToSet
    <3>3. i \in 0..e /\ j + 1 \in Nat
      BY <1>3, <2>1, <2>2, Numbers
    <3>4. Divides(i, j)
      BY <1>2, <1>3, <3>3, DivBelow DEF Divides
    <3> QED BY <3>2, <3>4
  <2>3. ASSUME ~(i <= e)
        PROVE  i \notin ToSet(c) /\ ~Divides(i, j)
    <3>1. i > e
      BY <1>3, <2>1, <2>3
    <3>2. \A k \in 1..m : c[k] # i
      BY <1>3, <1>5, <2>1, <3>1
    <3>3. i \notin ToSet(c)
      BY <1>6, <3>2 DEF ToSet
    <3> QED BY <1>2, <2>1, <3>1, <3>3
  <2> QED BY <2>2, <2>3
<1> QED BY <1>1, <1>2, <1>4, <1>7, <1>8 DEF Divides, e
-----------------------------------------------------------------------------
(* The heads of endpoints                                                  *)

LEMMA LowPowers ==
  Pow2[0] = 1 /\ Pow2[1] = 2 /\ Pow2[2] = 4 /\ Pow2[3] = 8 /\ Pow2[4] = 16 /\ Pow2[5] = 32
<1>1. Pow2[0] = 1 /\ \A n \in Nat \ {0} : Pow2[n] = 2 * Pow2[n - 1]
  BY Pow2Def
<1>2. Pow2[1] = 2
  BY <1>1
<1>3. Pow2[2] = 4
  BY <1>1, <1>2
<1>4. Pow2[3] = 8
  BY <1>1, <1>3
<1>5. Pow2[4] = 16
  BY <1>1, <1>4
<1>6. Pow2[5] = 32
  BY <1>1, <1>5
<1> QED BY <1>1, <1>2, <1>3, <1>4, <1>5, <1>6

LEMMA LogIs ==
  ASSUME NEW v \in 1..31
  PROVE  Log2Floor(v) \in Nat /\ Pow2[Log2Floor(v)] <= v /\ (v = 1 => Log2Floor(v) = 0)
<1>1. \E k \in 0..8 : Pow2[k] <= v /\ v < Pow2[k + 1]
  <2>1. CASE v < 2
    BY <2>1, LowPowers
  <2>2. CASE 2 <= v /\ v < 4
    BY <2>2, LowPowers
  <2>3. CASE 4 <= v /\ v < 8
    BY <2>3, LowPowers
  <2>4. CASE 8 <= v /\ v < 16
    BY <2>4, LowPowers
  <2>5. CASE 16 <= v
    BY <2>5, LowPowers
  <2> QED BY <2>1, <2>2, <2>3, <2>4, <2>5
<1> DEFINE k == Log2Floor(v)
<1>2. k \in 0..8 /\ Pow2[k] <= v /\ v < Pow2[k + 1]
  BY <1>1 DEF Log2Floor
<1> HIDE DEF k
<1>3. ASSUME v = 1
      PROVE  k = 0
  <2>1. ASSUME k # 0
        PROVE  Pow2[1] <= Pow2[k] /\ Pow2[k] \in Nat
    <3>1. k \in Nat /\ 1 <= k
      BY <1>2, <2>1
    <3> QED BY <3>1, PowGrows, Pow2Def
  <2> QED BY <1>2, <1>3, <2>1, LowPowers
<1> QED BY <1>2, <1>3 DEF k

LEMMA HeadAtMost ==
  ASSUME NEW v \in 0..31, NEW interval, interval \div 8 = v
  PROVE  /\ PeriodicHead(interval) \in Nat
         /\ v <= 1 => PeriodicHead(interval) = 0
         /\ v >= 1 => Pow2[PeriodicHead(interval)] <= v
<1> DEFINE k == IF v = 0 THEN 0 ELSE Log2Floor(v)
           h == IF k < Heads - 1 THEN k ELSE Heads - 1
<1>1. k \in Nat /\ (v <= 1 => k = 0) /\ (v >= 1 => Pow2[k] <= v)
  <2>1. CASE v = 0
    BY <2>1
  <2>2. CASE v # 0
    <3>1. v \in 1..31 /\ k = Log2Floor(v) /\ (v <= 1 => v = 1)
      BY <2>2
    <3> HIDE DEF k
    <3> QED BY <3>1, LogIs
  <2> QED BY <2>1, <2>2
<1> HIDE DEF k
<1>2. Heads - 1 \in Nat
  BY Numbers
<1>3. h \in Nat /\ h <= k
  BY <1>1, <1>2
<1>4. PeriodicHead(interval) = h
  BY DEF PeriodicHead, k
<1> HIDE DEF h
<1>5. Pow2[h] <= Pow2[k] /\ Pow2[h] \in Nat /\ Pow2[k] \in Nat
  BY <1>1, <1>3, PowGrows, Pow2Def
<1> QED BY <1>1, <1>3, <1>4, <1>5

LEMMA PolledEnough ==
  ASSUME NEW speed \in {"low", "full", "high"},
         NEW b \in 1..(IF speed = "high" THEN 16 ELSE 255)
  PROVE  Pow2[HeadOf(speed, b)] <= Asked(speed, b)
<1>1. CASE speed = "high"
  <2> DEFINE v == b \div 8
  <2>1. b \in 1..16 /\ v \in 0..31 /\ v <= 2 /\ (v = 2 => b = 16)
    BY <1>1
  <2>2. HeadOf(speed, b) = PeriodicHead(b)
    BY <1>1 DEF HeadOf
  <2>3. Asked(speed, b) \in Nat \ {0} /\ (b = 16 => Asked(speed, b) = Pow2[12])
    <3>1. CASE b <= 4
      BY <1>1, <2>1, <3>1 DEF Asked
    <3>2. CASE ~(b <= 4)
      <4>1. b - 4 \in Nat /\ (b = 16 => b - 4 = 12)
        BY <2>1, <3>2
      <4> QED BY <1>1, <3>2, <4>1, Pow2Def DEF Asked
    <3> QED BY <3>1, <3>2
  <2>4. CASE v <= 1
    <3>1. PeriodicHead(b) = 0
      BY <2>1, <2>4, HeadAtMost
    <3> QED BY <2>2, <2>3, <3>1, LowPowers
  <2>5. CASE v = 2
    <3>1. PeriodicHead(b) \in Nat /\ Pow2[PeriodicHead(b)] <= 2
      BY <2>1, <2>5, HeadAtMost
    <3>2. 2 <= Pow2[12] /\ Pow2[12] \in Nat /\ Pow2[PeriodicHead(b)] \in Nat
      BY <3>1, LowPowers, PowGrows, Pow2Def
    <3> QED BY <2>1, <2>2, <2>3, <2>5, <3>1, <3>2
  <2> QED BY <2>1, <2>4, <2>5
<1>2. CASE speed # "high"
  <2> DEFINE w == (b * 8) % 256
             v == w \div 8
  <2>1. b \in 1..255
    BY <1>2
  <2>2. w \in 0..255 /\ w <= b * 8
    BY <2>1
  <2> HIDE DEF w
  <2>3. v \in 0..31 /\ v <= b
    BY <2>1, <2>2
  <2>4. HeadOf(speed, b) = PeriodicHead(w) /\ Asked(speed, b) = b
    BY <1>2 DEF HeadOf, Asked, w
  <2>5. CASE v = 0
    <3>1. PeriodicHead(w) = 0
      BY <2>3, <2>5, HeadAtMost
    <3> QED BY <2>1, <2>4, <3>1, LowPowers
  <2>6. CASE v # 0
    <3>1. v >= 1 /\ v \in Nat
      BY <2>3, <2>6
    <3>2. PeriodicHead(w) \in Nat /\ Pow2[PeriodicHead(w)] <= v
      BY <2>3, <3>1, HeadAtMost
    <3>3. Pow2[PeriodicHead(w)] \in Nat
      BY <3>2, Pow2Def
    <3> HIDE DEF v
    <3> QED BY <2>1, <2>3, <2>4, <3>1, <3>2, <3>3
  <2> QED BY <2>5, <2>6
<1> QED BY <1>1, <1>2

LEMMA MicroframesRight ==
  ASSUME NEW b \in 1..4, NEW t \in 0..7
  PROVE  \E d \in 0..(Pow2[b - 1] - 1) : (t + d) % 8 \in Smask(b)
<1>1. CASE b = 1
  <2>1. 0 \in 0..(Pow2[b - 1] - 1) /\ (t + 0) % 8 \in 0..7
    BY <1>1, LowPowers
  <2> QED BY <1>1, <2>1 DEF Smask
<1>2. CASE b = 2
  <2> DEFINE d == t % 2
  <2>1. d \in 0..(Pow2[b - 1] - 1)
    BY <1>2, LowPowers
  <2>2. (t + d) % 8 \in {0, 2, 4, 6}
    OBVIOUS
  <2> QED BY <1>2, <2>1, <2>2 DEF Smask
<1>3. CASE b = 3
  <2> DEFINE d == (5 - t) % 4
  <2>1. d \in 0..(Pow2[b - 1] - 1)
    BY <1>3, LowPowers
  <2>2. (t + d) % 8 \in {1, 5}
    OBVIOUS
  <2> QED BY <1>3, <2>1, <2>2 DEF Smask
<1>4. CASE b = 4
  <2> DEFINE d == (3 - t) % 8
  <2>1. d \in 0..(Pow2[b - 1] - 1)
    BY <1>4, LowPowers
  <2>2. (t + d) % 8 = 3 /\ (b - 1) % 8 = 3
    BY <1>4
  <2> QED BY <1>4, <2>1, <2>2 DEF Smask
<1> QED BY <1>1, <1>2, <1>3, <1>4

LEMMA PeriodsAlwaysKept == PeriodsKept
<1>1. ASSUME NEW speed \in {"low", "full", "high"},
             NEW b \in 1..(IF speed = "high" THEN 16 ELSE 255)
      PROVE  /\ Pow2[HeadOf(speed, b)] <= Asked(speed, b)
             /\ StartMask(speed, b) # {}
             /\ speed = "high" /\ b <= 4 =>
                  \A t \in 0..7 : \E d \in 0..(Pow2[b - 1] - 1) : (t + d) % 8 \in StartMask(speed, b)
  <2>1. StartMask(speed, b) # {}
    <3>1. Smask(b) # {}
      <4>1. 0 \in 0..7
        OBVIOUS
      <4> QED BY <4>1 DEF Smask
    <3> QED BY <3>1 DEF StartMask
  <2>2. ASSUME speed = "high", b <= 4
        PROVE  \A t \in 0..7 : \E d \in 0..(Pow2[b - 1] - 1) : (t + d) % 8 \in StartMask(speed, b)
    <3>1. StartMask(speed, b) = Smask(b) /\ b \in 1..4
      BY <2>2 DEF StartMask
    <3> QED BY <3>1, MicroframesRight
  <2> QED BY <2>1, <2>2, PolledEnough, SMTT(30)
<1> QED BY <1>1, FramesRight DEF PeriodsKept
-----------------------------------------------------------------------------
(* The descriptors of a buffer                                             *)

LEMMA ChunkCount ==
  ASSUME NEW len \in Nat \ {0}
  PROVE  LET full == (len - 1) \div ChunkMax
         IN  /\ full \in Nat /\ len - full * ChunkMax \in 1..ChunkMax
             /\ ChunksNeeded(len) = full + 1
<1> DEFINE x == len - 1
           c == ChunkMax
           q == x \div c
           r == x % c
           y == len + c - 1
           n == q + 1
<1>1. c \in Nat \ {0} /\ x \in Nat
  BY LayoutAssumption
<1> HIDE DEF c, x
<1>2. q \in Nat /\ r \in 0..(c - 1) /\ q * c \in Nat /\ x = q * c + r
  BY <1>1
<1> HIDE DEF q, r
<1>3. n * c = q * c + c /\ n \in Int
  BY <1>1, <1>2
<1>4. y = n * c + r /\ y \in Int
  BY <1>1, <1>2, <1>3 DEF x
<1> HIDE DEF n, y
<1>5. y \div c = n
  BY <1>1, <1>2, <1>3, <1>4, DivIs
<1>6. ChunksNeeded(len) = n
  BY <1>5 DEF ChunksNeeded, y, c
<1>7. len - q * c = r + 1
  BY <1>1, <1>2 DEF x
<1>8. len - q * c \in 1..c
  BY <1>1, <1>2, <1>7
<1> QED BY <1>2, <1>6, <1>8 DEF c, q, x, n

\* A descriptor reaches what it is given, wherever that begins in its page.
LEMMA AllReached ==
  ASSUME NEW at \in 0..(Page - 1), NEW n \in 1..ChunkMax
  PROVE  Reached(at, n) = n
<1> DEFINE p == Page
           rest == p - at
           x == n - rest + p - 1
           more == x \div p
<1>1. p \in Nat \ {0} /\ rest \in 1..p /\ n \in Nat /\ n <= 4 * p
  BY LayoutAssumption
<1> HIDE DEF p, rest
<1>2. CASE n < rest
  BY <1>2 DEF Reached, rest, p
<1>3. CASE ~(n < rest)
  <2>1. x \in Nat /\ x < 5 * p
    BY <1>1, <1>3
  <2> HIDE DEF x
  <2> DEFINE r == x % p
  <2>2. more \in Nat /\ r \in 0..(p - 1) /\ more * p \in Nat /\ x = more * p + r
    BY <1>1, <2>1
  <2> HIDE DEF more, r
  <2>3. more >= 5 => more * p >= 5 * p
    BY <1>1, <2>2
  <2>4. more <= 4
    BY <1>1, <2>1, <2>2, <2>3
  <2> QED BY <1>3, <2>4 DEF Reached, more, x, rest, p
<1> QED BY <1>1, <1>2, <1>3

LEMMA ChunksAlwaysCover == ChunksCover
<1> SUFFICES ASSUME NEW len \in 1..MaxLen, NEW offset \in 0..(Page - 1)
             PROVE  LET lens == ChunkLens(len)
                        upto[i \in 0..Len(lens)] == IF i = 0 THEN 0 ELSE upto[i - 1] + lens[i]
                    IN  /\ upto[Len(lens)] = len
                        /\ Len(lens) = ChunksNeeded(len)
                        /\ \A i \in DOMAIN lens :
                             Reached((offset + (i - 1) * ChunkMax) % Page, lens[i]) = lens[i]
  BY DEF ChunksCover
<1> DEFINE full == (len - 1) \div ChunkMax
           m == full + 1
           lens == ChunkLens(len)
           Is(f) == f = [i \in 0..Len(lens) |-> IF i = 0 THEN 0 ELSE f[i - 1] + lens[i]]
           upto == CHOOSE f : Is(f)
           g == [i \in 0..m |-> IF i <= full THEN i * ChunkMax ELSE len]
<1>1. len \in Nat \ {0} /\ ChunkMax \in Nat \ {0} /\ Page \in Nat \ {0} /\ MaxLen \in Nat
  BY LayoutAssumption
<1>2. full \in Nat /\ len - full * ChunkMax \in 1..ChunkMax /\ ChunksNeeded(len) = m
  BY <1>1, ChunkCount
<1>3. lens = [i \in 1..m |-> IF i <= full THEN ChunkMax ELSE len - full * ChunkMax]
  <2>1. len # 0
    BY <1>1
  <2> QED BY <2>1 DEF ChunkLens
<1> HIDE DEF lens, full
<1>4. m \in Nat \ {0} /\ Len(lens) = m /\ DOMAIN lens = 1..m
  BY <1>2, <1>3
<1>5. ASSUME NEW i \in 1..m
      PROVE  /\ lens[i] = IF i <= full THEN ChunkMax ELSE len - full * ChunkMax
             /\ lens[i] \in 1..ChunkMax
  <2>1. ChunkMax \in 1..ChunkMax
    BY <1>1
  <2> QED BY <1>2, <1>3, <2>1
<1>6. ASSUME NEW i \in 1..m
      PROVE  g[i] = g[i - 1] + lens[i]
  <2>1. i \in 0..m /\ i - 1 \in 0..m /\ i - 1 <= full /\ i - 1 \in Nat
    BY <1>2
  <2>2. g[i - 1] = (i - 1) * ChunkMax
    BY <2>1
  <2>3. CASE i <= full
    <3>1. g[i] = i * ChunkMax
      BY <2>1, <2>3
    <3>2. i * ChunkMax = (i - 1) * ChunkMax + ChunkMax
      BY <1>1
    <3> HIDE DEF g
    <3> QED BY <1>5, <2>2, <2>3, <3>1, <3>2
  <2>4. CASE ~(i <= full)
    <3>1. g[i] = len /\ i - 1 = full
      BY <1>2, <2>1, <2>4
    <3>2. full * ChunkMax \in Int /\ len = full * ChunkMax + (len - full * ChunkMax)
      BY <1>1, <1>2
    <3>3. lens[i] = len - full * ChunkMax
      BY <1>5, <2>4
    <3> HIDE DEF g
    <3> QED BY <2>2, <3>1, <3>2, <3>3
  <2> QED BY <2>3, <2>4
<1>7. g[0] = 0 /\ g[m] = len
  <2>1. 0 \in 0..m /\ m \in 0..m /\ 0 <= full /\ ~(m <= full) /\ 0 * ChunkMax = 0
    BY <1>1, <1>2, <1>4
  <2> QED BY <2>1
<1>8. Is(g)
  <2>1. g = [i \in 0..m |-> g[i]]
    OBVIOUS
  <2>2. \A i \in 0..m : i = 0 \/ i \in 1..m
    BY <1>4
  <2> HIDE DEF g
  <2> QED BY <1>4, <1>6, <1>7, <2>1, <2>2
<1>9. Is(upto)
  BY <1>8
<1>10. upto[0] = 0 /\ \A i \in 1..m : upto[i] = upto[i - 1] + lens[i]
  <2> HIDE DEF upto
  <2>1. \A i \in 1..m : i \in 0..m /\ i # 0
    BY <1>4
  <2> QED BY <1>4, <1>9, <2>1
<1> DEFINE T == {i \in Nat : i <= m => upto[i] = g[i]}
<1>11. upto[m] = len
  <2> HIDE DEF upto, g
  <2>1. 0 \in T
    BY <1>7, <1>10
  <2>2. ASSUME NEW i \in 1..m, i - 1 \in T
        PROVE  i \in T
    <3>1. i \in Nat /\ i - 1 <= m
      BY <1>4
    <3> QED BY <1>6, <1>10, <2>2, <3>1
  <2> HIDE DEF T
  <2>3. 0..m \subseteq T
    BY <1>4, <2>1, <2>2, Reaches
  <2>4. m \in T /\ m <= m
    BY <1>4, <2>3
  <2> QED BY <1>7, <2>4 DEF T
<1>12. ASSUME NEW i \in 1..m
       PROVE  Reached((offset + (i - 1) * ChunkMax) % Page, lens[i]) = lens[i]
  <2> DEFINE x == offset + (i - 1) * ChunkMax
  <2>1. x \in Int
    BY <1>1
  <2> HIDE DEF x
  <2>2. x % Page \in 0..(Page - 1)
    BY <1>1, <2>1
  <2>3. Reached(x % Page, lens[i]) = lens[i]
    BY <1>5, <2>2, AllReached
  <2> QED BY <2>3 DEF x
<1>13. /\ upto[Len(lens)] = len /\ Len(lens) = ChunksNeeded(len)
       /\ \A i \in DOMAIN lens : Reached((offset + (i - 1) * ChunkMax) % Page, lens[i]) = lens[i]
  <2> HIDE DEF upto
  <2> QED BY <1>2, <1>4, <1>11, <1>12
<1> QED BY <1>13, Zenon DEF lens, upto, Is
-----------------------------------------------------------------------------
(* The schedule is what the transfers in it rest on: whatever the numbers of
   heads, the pages, the descriptors and the buffers are, the frame list visits
   each head at its interval, each interrupt endpoint is hung on a head that is
   visited often enough, and the descriptors of a buffer reach all of it
   (usb_hc_init, ehci_intr_urb_init, ehci_bulk_urb_init). *)
THEOREM SchedulesAlwaysRight == Spec => []ScheduleRight
<1>1. ScheduleRight
  BY PeriodsAlwaysKept, ChunksAlwaysCover DEF ScheduleRight
<1> QED BY <1>1, PTL
=============================================================================
