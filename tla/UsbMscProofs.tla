---------------------------- MODULE UsbMscProofs -----------------------------
(***************************************************************************)
(* What holds of bulk-only mass storage for any number of disks, commands  *)
(* and failures.                                                           *)
(***************************************************************************)
EXTENDS UsbMsc, TLAPS

Stages == {"lun", "ready", "sense", "inquiry", "capacity", "run", "dead"}
Working == Stages \ {"lun", "dead"}
Ops == {"test", "sense", "inquiry", "capacity", "read", "write"}
PCs == {"idle", "cbw", "sent", "data", "moved", "csw", "check", "failed"}
Commands == [disk : Disks \cup {"none"}, op : Ops \cup {"none"}, number : Nat]

TypeOK ==
  /\ stage \in [Disks -> Stages] /\ pc \in [Disks -> PCs]
  /\ command \in [Disks -> Commands] /\ current \in [Disks -> Commands]
  /\ buf \in [kind : {"zero", "cbw", "data", "csw"}, of : Commands]
  /\ way \in [Disks -> {"none", "in", "out"}]
  /\ result \in [Disks -> {"none", "ok", "error"}] /\ capacity \in [Disks -> BOOLEAN]
  /\ phase \in [Disks -> {"cmd", "data", "status"}]
  /\ alone \in [Disks -> BOOLEAN] /\ fails \in Nat

\* A disk is not asked for anything before the number of its units.
AfterLun(d) ==
  /\ stage[d] = "lun" => pc[d] = "idle" /\ result[d] = "none"
  /\ Inside(d) => stage[d] \in Working /\ command[d].op \in Ops

\* How far a command has come that nobody else has disturbed: what the disk, the
\* thread and g_msc_buf know of it.
Known(d) == current[d] = command[d]
Undisturbed(d) ==
  /\ \A f \in Disks \ {d} : ~Inside(f)
  /\ pc[d] \in {"cbw", "sent"} => buf = [kind |-> "cbw", of |-> command[d]]
  /\ pc[d] = "sent" => Known(d) /\ phase[d] = IF DataOf(command[d].op) = "none" THEN "status" ELSE "data"
  /\ pc[d] = "data" => Known(d) /\ phase[d] = "data" /\ way[d] = DataOf(command[d].op)
  /\ pc[d] = "moved" =>
       /\ Known(d) /\ phase[d] = "status"
       /\ command[d].op = "capacity" => buf = [kind |-> "data", of |-> command[d]]
  /\ pc[d] = "csw" => Known(d) /\ phase[d] = "status" /\ (command[d].op = "capacity" => capacity[d])
  /\ pc[d] = "check" => Known(d) /\ phase[d] = "cmd" /\ (command[d].op = "capacity" => capacity[d])

\* OwnCommand, for one disk
Own(d) ==
  ~Inside(d) /\ result[d] = "ok" /\ alone[d] =>
    /\ current[d] = command[d] /\ phase[d] = "cmd"
    /\ command[d].op = "capacity" => capacity[d]

Orderly(d) == AfterLun(d) /\ (Inside(d) /\ alone[d] => Undisturbed(d)) /\ Own(d)
MscInv == \A d \in Disks : Orderly(d)
-----------------------------------------------------------------------------
(* Types                                                                   *)

LEMMA DataOfType == \A op : DataOf(op) \in {"none", "in", "out"}
BY Zenon DEF DataOf

LEMMA DataOfOps ==
  /\ DataOf("capacity") = "in"
  /\ \A op \in Shared : DataOf(op) = "in"
<1>1. "capacity" # "write" /\ "sense" # "write" /\ "inquiry" # "write"
  OBVIOUS
<1>2. DataOf("capacity") = "in" /\ DataOf("sense") = "in" /\ DataOf("inquiry") = "in"
  BY <1>1, Zenon DEF DataOf
<1> QED BY <1>2 DEF Shared

LEMMA OpsOfStage == \A s \in Stages : OpsAt(s) \subseteq Ops /\ (OpsAt(s) # {} => s \in Working)
<1> SUFFICES ASSUME NEW s \in Stages PROVE OpsAt(s) \subseteq Ops /\ (OpsAt(s) # {} => s \in Working)
  OBVIOUS
<1>1. CASE s = "ready"
  BY <1>1 DEF OpsAt, Ops, Working, Stages
<1>2. CASE s \in {"sense", "inquiry", "capacity"}
  BY <1>2 DEF OpsAt, Ops, Working, Stages
<1>3. CASE s = "run"
  BY <1>3 DEF OpsAt, Ops, Working, Stages
<1>4. CASE s \in {"lun", "dead"}
  BY <1>4 DEF OpsAt, Ops, Working, Stages
<1> QED BY <1>1, <1>2, <1>3, <1>4 DEF Stages

LEMMA NextStagesType ==
  ASSUME NEW d \in Disks, stage[d] \in Working, NEW ok \in BOOLEAN
  PROVE  NextStages(d, ok) \subseteq Stages \ {"lun"}
<1>1. CASE stage[d] = "ready"
  BY <1>1 DEF NextStages, Stages, Working
<1>2. CASE stage[d] = "run"
  BY <1>2 DEF NextStages, Stages, Working
<1>3. CASE stage[d] \notin {"ready", "run"} /\ ~ok
  BY <1>3 DEF NextStages, Stages, Working
<1>4. CASE stage[d] = "sense" /\ ok
  BY <1>4 DEF NextStages, Stages, Working
<1>5. CASE stage[d] = "inquiry" /\ ok
  BY <1>5 DEF NextStages, Stages, Working
<1>6. CASE stage[d] = "capacity" /\ ok
  BY <1>6 DEF NextStages, Stages, Working
<1> QED BY <1>1, <1>2, <1>3, <1>4, <1>5, <1>6 DEF Stages, Working

LEMMA TypeInit == Init => TypeOK
<1>1. NoCommand \in Commands
  BY DEF NoCommand, Commands
<1> QED BY <1>1 DEF Init, TypeOK, Stages, PCs

LEMMA TypeSends ==
  ASSUME TypeOK, NEW d \in Disks, NEW kept, Sends(d, kept)
  PROVE  /\ phase' \in [Disks -> {"cmd", "data", "status"}] /\ current' = current
         /\ buf' \in [kind : {"zero", "cbw", "data", "csw"}, of : Commands]
<1>1. NoCommand \in Commands
  BY DEF NoCommand, Commands
<1> QED BY <1>1 DEF Sends, TypeOK

LEMMA TypeReturns ==
  ASSUME TypeOK, NEW d \in Disks, AfterLun(d), Inside(d), NEW ok \in BOOLEAN, Returns(d, ok)
  PROVE  /\ pc' \in [Disks -> PCs] /\ result' \in [Disks -> {"none", "ok", "error"}]
         /\ stage' \in [Disks -> Stages] /\ stage'[d] # "lun"
         /\ way' \in [Disks -> {"none", "in", "out"}]
<1>1. NextStages(d, ok) \subseteq Stages \ {"lun"}
  BY NextStagesType DEF AfterLun
<1>2. PICK s \in NextStages(d, ok) : stage' = [stage EXCEPT ![d] = s]
  BY DEF Returns
<1>3. stage' \in [Disks -> Stages] /\ stage'[d] # "lun"
  BY <1>1, <1>2 DEF TypeOK
<1>4. pc' \in [Disks -> PCs] /\ result' \in [Disks -> {"none", "ok", "error"}] /\ way' \in [Disks -> {"none", "in", "out"}]
  BY DEF Returns, TypeOK, PCs
<1> QED BY <1>3, <1>4

LEMMA TypeStep ==
  ASSUME TypeOK, MscInv, [Next]_vars
  PROVE  TypeOK'
<1> USE MscAssumption
<1>1. NoCommand \in Commands
  BY DEF NoCommand, Commands
<1>2. ASSUME NEW d \in Disks, MaxLun(d)
      PROVE  TypeOK'
  <2>1. stage' \in [Disks -> Stages] /\ fails' \in Nat
    BY <1>2 DEF MaxLun, TypeOK, Stages
  <2>2. buf' \in [kind : {"zero", "cbw", "data", "csw"}, of : Commands] /\ alone' \in [Disks -> BOOLEAN]
    BY <1>1, <1>2 DEF MaxLun, Uses, TypeOK
  <2> QED BY <1>2, <2>1, <2>2 DEF MaxLun, TypeOK, diskVars
<1>3. ASSUME NEW d \in Disks, Begin(d)
      PROVE  TypeOK'
  <2>1. PICK op \in OpsAt(stage[d]) :
          LET new == [disk |-> d, op |-> op, number |-> command[d].number + 1]
          IN  command' = [command EXCEPT ![d] = new] /\ buf' = [kind |-> "cbw", of |-> new]
    BY <1>3 DEF Begin
  <2>2. op \in Ops
    BY OpsOfStage DEF TypeOK
  <2>3. command[d].number \in Nat
    BY DEF TypeOK, Commands
  <2>4. [disk |-> d, op |-> op, number |-> command[d].number + 1] \in Commands
    BY <2>2, <2>3 DEF Commands
  <2>5. command' \in [Disks -> Commands] /\ buf' \in [kind : {"zero", "cbw", "data", "csw"}, of : Commands]
    BY <2>1, <2>4 DEF TypeOK
  <2>6. alone' \in [Disks -> BOOLEAN] /\ pc' \in [Disks -> PCs]
    BY <1>3 DEF Begin, Uses, TypeOK, PCs
  <2> QED BY <1>3, <2>5, <2>6 DEF Begin, TypeOK, diskVars
<1>4. ASSUME NEW d \in Disks, Cbw(d)
      PROVE  TypeOK'
  <2>1. pc' \in [Disks -> PCs] /\ fails' \in Nat
    BY <1>4 DEF Cbw, Arrives, Refused, TypeOK, PCs
  <2>2. current' \in [Disks -> Commands] /\ phase' \in [Disks -> {"cmd", "data", "status"}]
    BY <1>4 DEF Cbw, TypeOK
  <2> QED BY <1>4, <2>1, <2>2 DEF Cbw, TypeOK
<1>5. ASSUME NEW d \in Disks, Sent(d)
      PROVE  TypeOK'
  <2>1. PICK w \in {"none", "in", "out"} :
          /\ way' = [way EXCEPT ![d] = w]
          /\ IF w = "none" THEN AskStatus(d) ELSE pc' = [pc EXCEPT ![d] = "data"] /\ UNCHANGED buf
    <3>1. CASE buf.kind = "cbw"
      BY <1>5, <3>1, DataOfType DEF Sent
    <3>2. CASE buf.kind = "data"
      BY <1>5, <3>2 DEF Sent
    <3>3. CASE buf.kind \notin {"cbw", "data"}
      BY <1>5, <3>3 DEF Sent
    <3> QED BY <3>1, <3>2, <3>3
  <2>2. /\ way' \in [Disks -> {"none", "in", "out"}] /\ pc' \in [Disks -> PCs]
        /\ buf' \in [kind : {"zero", "cbw", "data", "csw"}, of : Commands]
    BY <1>1, <2>1 DEF AskStatus, TypeOK, PCs
  <2> QED BY <1>5, <2>2 DEF Sent, TypeOK, diskVars
<1>6. ASSUME NEW d \in Disks, Data(d)
      PROVE  TypeOK'
  <2>1. pc' \in [Disks -> PCs] /\ fails' \in Nat
    BY <1>6 DEF Data, Arrives, Refused, TypeOK, PCs
  <2>2. /\ phase' \in [Disks -> {"cmd", "data", "status"}] /\ current' = current
        /\ buf' \in [kind : {"zero", "cbw", "data", "csw"}, of : Commands]
    <3>1. CASE Sends(d, command[d].op \in Shared)
      BY <3>1, TypeSends
    <3>2. CASE ~Sends(d, command[d].op \in Shared)
      BY <1>6, <3>2 DEF Data, diskVars, TypeOK
    <3> QED BY <3>1, <3>2
  <2> QED BY <1>6, <2>1, <2>2 DEF Data, TypeOK
<1>7. ASSUME NEW d \in Disks, Moved(d)
      PROVE  TypeOK'
  <2>1. capacity' \in [Disks -> BOOLEAN]
    BY <1>7 DEF Moved, TypeOK
  <2>2. pc' \in [Disks -> PCs] /\ buf' \in [kind : {"zero", "cbw", "data", "csw"}, of : Commands]
    BY <1>1, <1>7 DEF Moved, AskStatus, TypeOK, PCs
  <2> QED BY <1>7, <2>1, <2>2 DEF Moved, TypeOK, diskVars
<1>8. ASSUME NEW d \in Disks, Csw(d)
      PROVE  TypeOK'
  <2>1. pc' \in [Disks -> PCs] /\ fails' \in Nat
    <3>1. CASE Arrives(d, "check")
      BY <3>1 DEF Arrives, TypeOK, PCs
    <3>2. CASE Refused(d, CanSend(d))
      BY <3>2 DEF Refused, TypeOK, PCs
    <3> QED BY <1>8, <3>1, <3>2 DEF Csw
  <2>2. /\ phase' \in [Disks -> {"cmd", "data", "status"}] /\ current' = current
        /\ buf' \in [kind : {"zero", "cbw", "data", "csw"}, of : Commands]
    <3>1. CASE Sends(d, TRUE)
      BY <3>1, TypeSends
    <3>2. CASE ~Sends(d, TRUE)
      BY <1>8, <3>2 DEF Csw, diskVars, TypeOK
    <3> QED BY <3>1, <3>2
  <2> QED BY <1>8, <2>1, <2>2 DEF Csw, TypeOK
<1>9. ASSUME NEW d \in Disks, Check(d) \/ Failed(d)
      PROVE  TypeOK'
  <2>1. Inside(d) /\ AfterLun(d)
    BY <1>9 DEF Check, Failed, Inside, MscInv, Orderly
  <2>2. PICK ok \in BOOLEAN : Returns(d, ok)
    BY <1>9 DEF Check, Failed, GoodStatus
  <2>3. fails' \in Nat
    <3>1. CASE UNCHANGED fails
      BY <3>1 DEF TypeOK
    <3>2. CASE fails' = fails + 1
      BY <3>2 DEF TypeOK
    <3> QED BY <1>9, <3>1, <3>2 DEF Check, Failed
  <2>4. /\ pc' \in [Disks -> PCs] /\ result' \in [Disks -> {"none", "ok", "error"}]
        /\ stage' \in [Disks -> Stages] /\ way' \in [Disks -> {"none", "in", "out"}]
    BY <2>1, <2>2, TypeReturns
  <2> QED BY <2>2, <2>3, <2>4 DEF Returns, TypeOK, diskVars
<1>10. CASE UNCHANGED vars
  BY <1>10 DEF vars, TypeOK
<1> QED BY <1>2, <1>3, <1>4, <1>5, <1>6, <1>7, <1>8, <1>9, <1>10 DEF Next, Goes
-----------------------------------------------------------------------------
(* Commands                                                                *)

LEMMA OrderlyInit == Init => MscInv
BY DEF Init, MscInv, Orderly, AfterLun, Own, Inside

\* What the thread of disk d does inside a command leaves the other disks alone.
OthersStay(d) ==
  /\ UNCHANGED alone
  /\ \A f \in Disks \ {d} :
       /\ stage'[f] = stage[f] /\ pc'[f] = pc[f] /\ command'[f] = command[f] /\ result'[f] = result[f]
       /\ capacity'[f] = capacity[f] /\ phase'[f] = phase[f] /\ current'[f] = current[f]

\* It is enough to look at disk d then: nobody is undisturbed beside it.
LEMMA OneGoes ==
  ASSUME TypeOK, MscInv, NEW d \in Disks, Inside(d), OthersStay(d),
         AfterLun(d)', Own(d)', Inside(d)' /\ alone[d] /\ Undisturbed(d) => Undisturbed(d)'
  PROVE  MscInv'
<1>1. Orderly(d)'
  BY DEF MscInv, Orderly, OthersStay
<1>2. ASSUME NEW f \in Disks, f # d
      PROVE  Orderly(f)'
  <2>1. AfterLun(f)'
    BY <1>2 DEF MscInv, Orderly, AfterLun, OthersStay, Inside
  <2>2. Own(f)'
    BY <1>2 DEF MscInv, Orderly, Own, OthersStay, Inside
  <2>3. ~(Inside(f) /\ alone[f])
    BY <1>2 DEF MscInv, Orderly, Undisturbed
  <2>4. ~(Inside(f)' /\ alone'[f])
    BY <1>2, <2>3 DEF OthersStay, Inside
  <2> QED BY <2>1, <2>2, <2>4 DEF Orderly
<1> QED BY <1>1, <1>2 DEF MscInv

\* A thread that begins a command, or asks for the number of units, disturbs
\* all the others.
LEMMA OneBegins ==
  ASSUME TypeOK, MscInv, NEW d \in Disks, Uses(d), Orderly(d)',
         \A f \in Disks \ {d} :
           /\ stage'[f] = stage[f] /\ pc'[f] = pc[f] /\ command'[f] = command[f] /\ result'[f] = result[f]
           /\ capacity'[f] = capacity[f] /\ phase'[f] = phase[f] /\ current'[f] = current[f]
  PROVE  MscInv'
<1>1. ASSUME NEW f \in Disks, f # d
      PROVE  Orderly(f)'
  <2>1. alone'[f] = (alone[f] /\ ~Inside(f))
    BY <1>1 DEF Uses
  <2>2. ~(Inside(f)' /\ alone'[f])
    BY <1>1, <2>1 DEF Inside
  <2>3. AfterLun(f)'
    <3>1. AfterLun(f)
      BY DEF MscInv, Orderly
    <3>2. stage'[f] = stage[f] /\ pc'[f] = pc[f] /\ command'[f] = command[f] /\ result'[f] = result[f]
      BY <1>1
    <3> QED BY <3>1, <3>2 DEF AfterLun, Inside
  <2>4. Own(f)'
    <3>1. Own(f)
      BY DEF MscInv, Orderly
    <3>2. /\ pc'[f] = pc[f] /\ command'[f] = command[f] /\ result'[f] = result[f]
          /\ capacity'[f] = capacity[f] /\ phase'[f] = phase[f] /\ current'[f] = current[f]
      BY <1>1
    <3>3. alone'[f] => alone[f]
      BY <2>1
    <3> QED BY <3>1, <3>2, <3>3 DEF Own, Inside
  <2> QED BY <2>2, <2>3, <2>4 DEF Orderly
<1> QED BY <1>1 DEF MscInv

LEMMA OrderlyBegin ==
  ASSUME TypeOK, MscInv, NEW d \in Disks, MaxLun(d) \/ Begin(d)
  PROVE  MscInv'
<1>0. AfterLun(d) /\ Own(d)
  BY DEF MscInv, Orderly
<1>1. CASE MaxLun(d)
  <2>1. /\ stage'[d] \in {"ready", "dead"} /\ UNCHANGED <<pc, command, result, capacity, phase, current>> /\ Uses(d)
        /\ \A f \in Disks \ {d} : stage'[f] = stage[f]
    BY <1>1 DEF MaxLun, diskVars, TypeOK
  <2>2. ~Inside(d) /\ result[d] = "none"
    BY <1>0, <1>1 DEF MaxLun, AfterLun, Inside
  <2>3. Orderly(d)'
    BY <2>1, <2>2 DEF Orderly, AfterLun, Own, Inside
  <2> QED BY <2>1, <2>3, OneBegins
<1>2. CASE Begin(d)
  <2>1. PICK op \in OpsAt(stage[d]) :
          LET new == [disk |-> d, op |-> op, number |-> command[d].number + 1]
          IN  command' = [command EXCEPT ![d] = new] /\ buf' = [kind |-> "cbw", of |-> new]
    BY <1>2 DEF Begin
  <2>2. op \in Ops /\ stage[d] \in Working
    BY OpsOfStage DEF TypeOK
  <2> DEFINE new == [disk |-> d, op |-> op, number |-> command[d].number + 1]
  <2>3. command' = [command EXCEPT ![d] = new] /\ buf' = [kind |-> "cbw", of |-> new] /\ new.op = op
    BY <2>1
  <2> HIDE DEF new
  <2>4. /\ pc'[d] = "cbw" /\ command'[d] = new
        /\ \A f \in Disks \ {d} : pc'[f] = pc[f] /\ command'[f] = command[f]
        /\ UNCHANGED <<stage, result, capacity, phase, current>> /\ Uses(d)
    BY <1>2, <2>3 DEF Begin, diskVars, TypeOK
  <2>5. alone'[d] => \A f \in Disks \ {d} : ~Inside(f)
    BY <2>4 DEF Uses
  <2>6. alone'[d] => Undisturbed(d)'
    BY <2>3, <2>4, <2>5 DEF Undisturbed, Inside
  <2>7. AfterLun(d)'
    BY <2>2, <2>3, <2>4 DEF AfterLun, Working, Stages
  <2>8. Own(d)'
    BY <2>4 DEF Own, Inside
  <2> QED BY <2>4, <2>6, <2>7, <2>8, OneBegins DEF Orderly
<1> QED BY <1>1, <1>2

\* Inside a command, while it goes on: stage, command and result stay.
Continues(d) ==
  /\ UNCHANGED <<stage, command, result, alone>> /\ pc'[d] # "idle"
  /\ \A f \in Disks \ {d} :
       pc'[f] = pc[f] /\ capacity'[f] = capacity[f] /\ phase'[f] = phase[f] /\ current'[f] = current[f]

LEMMA OneContinues ==
  ASSUME TypeOK, MscInv, NEW d \in Disks, Inside(d), Continues(d),
         alone[d] /\ Undisturbed(d) => Undisturbed(d)'
  PROVE  MscInv'
<1>1. AfterLun(d)
  BY DEF MscInv, Orderly
<1>2. AfterLun(d)' /\ Own(d)'
  BY <1>1 DEF AfterLun, Own, Continues, Inside, Working, Stages
<1>3. OthersStay(d)
  BY DEF Continues, OthersStay
<1> QED BY <1>2, <1>3, OneGoes

LEMMA OrderlyCbw ==
  ASSUME TypeOK, MscInv, NEW d \in Disks, Cbw(d)
  PROVE  MscInv'
<1>1. pc[d] = "cbw" /\ Inside(d)
  BY DEF Cbw, Inside
<1>2. /\ UNCHANGED <<stage, command, result, alone, capacity, buf, way>>
      /\ pc'[d] \in {"sent", "failed"} /\ \A f \in Disks \ {d} : pc'[f] = pc[f]
  BY DEF Cbw, Arrives, Refused, TypeOK
<1>3. /\ \A f \in Disks \ {d} : phase'[f] = phase[f] /\ current'[f] = current[f]
      /\ pc'[d] = "sent" => /\ current'[d] = buf.of
                            /\ phase'[d] = IF DataOf(buf.of.op) = "none" THEN "status" ELSE "data"
  BY DEF Cbw, Refused, TypeOK
<1>4. Continues(d)
  BY <1>2, <1>3 DEF Continues
<1>5. ASSUME Undisturbed(d)
      PROVE  Undisturbed(d)'
  <2>1. buf = [kind |-> "cbw", of |-> command[d]]
    BY <1>1, <1>5 DEF Undisturbed
  <2>2. buf.of = command[d]
    BY <2>1
  <2> QED BY <1>2, <1>3, <1>5, <2>1, <2>2 DEF Undisturbed, Known, Inside
<1> QED BY <1>1, <1>4, <1>5, OneContinues

LEMMA OrderlySent ==
  ASSUME TypeOK, MscInv, NEW d \in Disks, Sent(d)
  PROVE  MscInv'
<1>1. pc[d] = "sent" /\ Inside(d)
  BY DEF Sent, Inside
<1>2. /\ UNCHANGED <<stage, command, result, alone, capacity, phase, current>>
      /\ pc'[d] \in {"csw", "data"} /\ \A f \in Disks \ {d} : pc'[f] = pc[f]
  BY DEF Sent, AskStatus, diskVars, TypeOK
<1>3. Continues(d)
  BY <1>2 DEF Continues
<1>4. ASSUME Undisturbed(d)
      PROVE  Undisturbed(d)'
  <2> DEFINE w == DataOf(command[d].op)
  <2>1. buf = [kind |-> "cbw", of |-> command[d]]
    BY <1>1, <1>4 DEF Undisturbed
  <2>2. buf.kind = "cbw" /\ buf.of = command[d]
    BY <2>1
  <2>3. way'[d] = w /\ pc'[d] = IF w = "none" THEN "csw" ELSE "data"
    BY <2>2 DEF Sent, AskStatus, TypeOK
  <2>4. command[d].op = "capacity" => w # "none"
    BY DataOfOps
  <2>5. Known(d) /\ phase[d] = IF w = "none" THEN "status" ELSE "data"
    BY <1>1, <1>4 DEF Undisturbed
  <2> QED BY <1>2, <1>4, <2>3, <2>4, <2>5 DEF Undisturbed, Known, Inside
<1> QED BY <1>1, <1>3, <1>4, OneContinues

LEMMA OrderlyData ==
  ASSUME TypeOK, MscInv, NEW d \in Disks, Data(d)
  PROVE  MscInv'
<1>1. pc[d] = "data" /\ Inside(d)
  BY DEF Data, Inside
<1>2. /\ UNCHANGED <<stage, command, result, alone, capacity, way>>
      /\ pc'[d] \in {"moved", "failed"} /\ \A f \in Disks \ {d} : pc'[f] = pc[f]
  BY DEF Data, Arrives, Refused, TypeOK
<1>3. \A f \in Disks \ {d} : phase'[f] = phase[f] /\ current'[f] = current[f]
  BY DEF Data, Sends, diskVars, TypeOK
<1>4. Continues(d)
  BY <1>2, <1>3 DEF Continues
<1>5. ASSUME Undisturbed(d)
      PROVE  Undisturbed(d)'
  <2>1. Known(d) /\ phase[d] = "data" /\ way[d] = DataOf(command[d].op)
    BY <1>1, <1>5 DEF Undisturbed
  <2>2. ASSUME pc'[d] = "moved"
        PROVE  /\ current'[d] = current[d] /\ phase'[d] = "status"
               /\ command[d].op = "capacity" => buf' = [kind |-> "data", of |-> command[d]]
    <3>1. CASE way[d] = "in"
      <4>1. Sends(d, command[d].op \in Shared)
        BY <2>2, <3>1 DEF Data, Refused, TypeOK
      <4>2. command[d].op = "capacity" => command[d].op \in Shared
        BY DEF Shared
      <4> QED BY <2>1, <4>1, <4>2 DEF Sends, TypeOK, Known
    <3>2. CASE way[d] # "in"
      <4>1. command[d].op # "capacity"
        BY <2>1, <3>2, DataOfOps
      <4>2. phase' = [phase EXCEPT ![d] = "status"] /\ UNCHANGED current
        BY <2>2, <3>2 DEF Data, Refused, TypeOK
      <4> QED BY <4>1, <4>2 DEF TypeOK
    <3> QED BY <3>1, <3>2
  <2> QED BY <1>2, <1>5, <2>1, <2>2 DEF Undisturbed, Known, Inside
<1> QED BY <1>1, <1>4, <1>5, OneContinues

LEMMA OrderlyMoved ==
  ASSUME TypeOK, MscInv, NEW d \in Disks, Moved(d)
  PROVE  MscInv'
<1>1. pc[d] = "moved" /\ Inside(d)
  BY DEF Moved, Inside
<1>2. /\ UNCHANGED <<stage, command, result, alone, phase, current>>
      /\ pc'[d] = "csw" /\ \A f \in Disks \ {d} : pc'[f] = pc[f] /\ capacity'[f] = capacity[f]
      /\ command[d].op = "capacity" => capacity'[d] = (buf = [kind |-> "data", of |-> command[d]])
  BY DEF Moved, AskStatus, diskVars, TypeOK
<1>3. Continues(d)
  BY <1>2 DEF Continues
<1>4. Undisturbed(d) => Undisturbed(d)'
  BY <1>1, <1>2 DEF Undisturbed, Known, Inside
<1> QED BY <1>1, <1>3, <1>4, OneContinues

LEMMA OrderlyCsw ==
  ASSUME TypeOK, MscInv, NEW d \in Disks, Csw(d)
  PROVE  MscInv'
<1>1. pc[d] = "csw" /\ Inside(d)
  BY DEF Csw, Inside
<1>2. /\ UNCHANGED <<stage, command, result, alone, capacity, way>>
      /\ pc'[d] \in {"check", "failed"} /\ \A f \in Disks \ {d} : pc'[f] = pc[f]
  BY DEF Csw, Arrives, Refused, TypeOK
<1>3. \A f \in Disks \ {d} : phase'[f] = phase[f] /\ current'[f] = current[f]
  BY DEF Csw, Sends, diskVars, TypeOK
<1>4. pc'[d] = "check" => Sends(d, TRUE)
  BY DEF Csw, Refused, TypeOK
<1>5. pc'[d] = "check" /\ phase[d] = "status" => phase'[d] = "cmd" /\ current'[d] = current[d]
  BY <1>4 DEF Sends, TypeOK
<1>6. Continues(d)
  BY <1>2, <1>3 DEF Continues
<1>7. Undisturbed(d) => Undisturbed(d)'
  BY <1>1, <1>2, <1>5 DEF Undisturbed, Known, Inside
<1> QED BY <1>1, <1>6, <1>7, OneContinues

LEMMA OrderlyEnd ==
  ASSUME TypeOK, MscInv, NEW d \in Disks, Check(d) \/ Failed(d)
  PROVE  MscInv'
<1>1. pc[d] \in {"check", "failed"} /\ Inside(d) /\ AfterLun(d)
  BY DEF Check, Failed, Inside, MscInv, Orderly
<1>2. PICK ok \in BOOLEAN : Returns(d, ok) /\ (ok => pc[d] = "check")
  BY DEF Check, Failed, GoodStatus
<1>3. stage'[d] # "lun"
  BY <1>1, <1>2, TypeReturns
<1>4. /\ UNCHANGED <<command, alone, capacity, phase, current>>
      /\ pc'[d] = "idle" /\ result'[d] = (IF ok THEN "ok" ELSE "error")
      /\ \A f \in Disks \ {d} : pc'[f] = pc[f] /\ result'[f] = result[f] /\ stage'[f] = stage[f]
  BY <1>2 DEF Returns, diskVars, TypeOK
<1>5. OthersStay(d)
  BY <1>4 DEF OthersStay
<1>6. AfterLun(d)'
  BY <1>3, <1>4 DEF AfterLun, Inside
<1>7. Own(d)'
  <2>1. alone[d] /\ ok => Undisturbed(d) /\ pc[d] = "check"
    BY <1>1, <1>2 DEF MscInv, Orderly
  <2> QED BY <1>4, <2>1 DEF Own, Undisturbed, Known
<1>8. ~Inside(d)'
  BY <1>4 DEF Inside
<1> QED BY <1>1, <1>5, <1>6, <1>7, <1>8, OneGoes

LEMMA OrderlyStep ==
  ASSUME TypeOK, MscInv, [Next]_vars
  PROVE  MscInv'
<1>1. CASE UNCHANGED vars
  BY <1>1 DEF vars, MscInv, Orderly, AfterLun, Undisturbed, Own, Known, Inside
<1>2. ASSUME NEW d \in Disks, Cbw(d) \/ Sent(d) \/ Data(d)
      PROVE  MscInv'
  BY <1>2, OrderlyCbw, OrderlySent, OrderlyData
<1>3. ASSUME NEW d \in Disks, Moved(d) \/ Csw(d) \/ Check(d) \/ Failed(d)
      PROVE  MscInv'
  BY <1>3, OrderlyMoved, OrderlyCsw, OrderlyEnd
<1> QED BY <1>1, <1>2, <1>3, OrderlyBegin DEF Next, Goes

LEMMA MscAlways == Spec => [](TypeOK /\ MscInv)
<1>1. Init => TypeOK /\ MscInv
  BY TypeInit, OrderlyInit
<1>2. TypeOK /\ MscInv /\ [Next]_vars => (TypeOK /\ MscInv)'
  BY TypeStep, OrderlyStep
<1> QED BY <1>1, <1>2, PTL DEF Spec

\* The variables of the driver and of the disks are what they are meant to be.
THEOREM TypeCorrect == Spec => []TypeOK
BY MscAlways, PTL

\* A command that has succeeded is the one that its disk has completed, and
\* leaves the disk ready for the next, and the capacity is the disk's own,
\* whatever was lost or refused before, unless another disk's thread has used
\* g_msc_buf meanwhile.
THEOREM CommandsAreOwn == Spec => []OwnCommand
<1>1. MscInv => OwnCommand
  BY DEF MscInv, Orderly, Own, OwnCommand
<1> QED BY <1>1, MscAlways, PTL
=============================================================================
