------------------------------- MODULE UsbMsc --------------------------------
(***************************************************************************)
(* Bulk-only mass storage (src/cherryusb/usbh_msc.c): a thread per disk    *)
(* gets the disk ready and reads and writes it, each command a CBW, data   *)
(* and a CSW.                                                              *)
(*                                                                         *)
(* All disks share g_msc_buf, for CBW, CSW and the answers to a disk's     *)
(* first commands; the controller reads and writes it while the thread     *)
(* waits for the transfer.  A step of a thread ends when it waits.         *)
(*                                                                         *)
(* At most MaxFails times a transfer is lost on its way to the disk or on  *)
(* its way back, or a command has a bad status.  A disk that is in the     *)
(* middle of a command takes no other one; to a request for data it sends  *)
(* what it has to send next.                                               *)
(***************************************************************************)
EXTENDS Integers, FiniteSets

CONSTANTS
  Disks,               \* the disks, each with its thread
  MaxCommands,         \* bound: the commands to each disk
  MaxFails             \* bound: what goes wrong

ASSUME MscAssumption == MaxCommands \in [Disks -> Nat] /\ MaxFails \in Nat

VARIABLES
  stage,               \* how far usbh_msc_connect has come
  pc,                  \* where a thread is in usbh_bulk_cbw_csw_xfer
  command,             \* its command: the disk, what it is and its number
  way,                 \* the data phase it has read from the CBW
  result,              \* what its last command has returned
  capacity,            \* blocknum and blocksize are the disk's own answer
  buf,                 \* g_msc_buf: what it holds, and of which command
  phase, current,      \* a disk: what it does next, and its last command
  alone,               \* nobody else has used g_msc_buf during the command
  fails                \* counter

threadVars == <<stage, pc, command, way, result, capacity>>
diskVars == <<phase, current>>
vars == <<stage, pc, command, way, result, capacity, buf, phase, current, alone, fails>>

NoCommand == [disk |-> "none", op |-> "none", number |-> 0]

\* the data phase of a command
DataOf(op) ==
  CASE op = "write" -> "out"
    [] op \in {"sense", "inquiry", "capacity", "read"} -> "in"
    [] OTHER -> "none"

\* the commands whose data goes to g_msc_buf
Shared == {"sense", "inquiry", "capacity"}

Inside(d) == pc[d] # "idle"
-----------------------------------------------------------------------------
(* A disk and the way to it                                                *)

\* A transfer of disk d succeeds, or its answer is lost; then the disk has done
\* its part.
Arrives(d, ok) ==
  \/ pc' = [pc EXCEPT ![d] = ok] /\ UNCHANGED fails
  \/ fails < MaxFails /\ fails' = fails + 1 /\ pc' = [pc EXCEPT ![d] = "failed"]

\* mutant: a disk that is busy is waited for without a timeout
RefusedForEver(d, able) == ~able /\ UNCHANGED <<pc, fails>>

\* The transfer fails at a disk that is not able to take part, or is lost.
Refused(d, able) ==
  /\ \/ ~able /\ UNCHANGED fails
     \/ able /\ fails < MaxFails /\ fails' = fails + 1
  /\ pc' = [pc EXCEPT ![d] = "failed"]

\* What a disk sends when it is asked for data: data of its command, then its
\* status.  CanSend tells whether there is anything.
CanSend(d) == phase[d] = "status" \/ (phase[d] = "data" /\ DataOf(current[d].op) = "in")

Sends(d, kept) ==
  /\ \/ /\ phase[d] = "data"
        /\ phase' = [phase EXCEPT ![d] = "status"]
        /\ buf' = IF kept THEN [kind |-> "data", of |-> current[d]] ELSE buf
     \/ /\ phase[d] = "status"
        /\ phase' = [phase EXCEPT ![d] = "cmd"]
        /\ buf' = IF kept THEN [kind |-> "csw", of |-> NoCommand] ELSE buf
  /\ UNCHANGED current
-----------------------------------------------------------------------------
(* A command: usbh_bulk_cbw_csw_xfer                                       *)

Uses(d) == alone' = [e \in Disks |-> IF e = d THEN \A f \in Disks \ {d} : ~Inside(f)
                                     ELSE alone[e] /\ ~Inside(e)]

\* usbh_msc_get_maxlun: the answer goes to the first byte of g_msc_buf
MaxLun(d) ==
  /\ stage[d] = "lun"
  /\ \/ stage' = [stage EXCEPT ![d] = "ready"] /\ UNCHANGED fails
     \/ stage' = [stage EXCEPT ![d] = "dead"] /\ fails < MaxFails /\ fails' = fails + 1
  /\ buf' = [kind |-> "data", of |-> NoCommand]
  /\ Uses(d)
  /\ UNCHANGED <<pc, command, way, result, capacity, diskVars>>

\* The commands of usbh_msc_connect come one after the other; then the file
\* system reads and writes.
OpsAt(s) ==
  CASE s = "ready" -> {"test"}
    [] s \in {"sense", "inquiry", "capacity"} -> {s}
    [] s = "run" -> {"read", "write"}
    [] OTHER -> {}

\* usbh_msc_scsi_...: the CBW is built, and submitted
Begin(d) ==
  /\ ~Inside(d) /\ command[d].number < MaxCommands[d]
  /\ \E op \in OpsAt(stage[d]) :
       LET new == [disk |-> d, op |-> op, number |-> command[d].number + 1]
       IN  /\ command' = [command EXCEPT ![d] = new]
           /\ buf' = [kind |-> "cbw", of |-> new]
  /\ pc' = [pc EXCEPT ![d] = "cbw"]
  /\ Uses(d)
  /\ UNCHANGED <<stage, way, result, capacity, diskVars, fails>>

\* The disk reads the CBW from g_msc_buf as it is now, and stalls if it is none.
Cbw(d) ==
  LET able == phase[d] = "cmd" /\ buf.kind = "cbw"
  IN  /\ pc[d] = "cbw"
      /\ \/ /\ able
            /\ current' = [current EXCEPT ![d] = buf.of]
            /\ phase' = [phase EXCEPT ![d] = IF DataOf(buf.of.op) = "none" THEN "status" ELSE "data"]
            /\ Arrives(d, "sent")
         \/ Refused(d, able) /\ UNCHANGED <<phase, current>>
      /\ UNCHANGED <<stage, command, way, result, capacity, buf, alone>>

\* the CSW is asked for
AskStatus(d) ==
  pc' = [pc EXCEPT ![d] = "csw"] /\ buf' = [kind |-> "zero", of |-> NoCommand]

\* The thread goes on with what g_msc_buf says now of the data.
Sent(d) ==
  /\ pc[d] = "sent"
  /\ \E w \in CASE buf.kind = "cbw" -> {DataOf(buf.of.op)}
                [] buf.kind = "data" -> {"none", "in"}
                [] OTHER -> {"none"} :
       /\ way' = [way EXCEPT ![d] = w]
       /\ IF w = "none" THEN AskStatus(d)
          ELSE pc' = [pc EXCEPT ![d] = "data"] /\ UNCHANGED buf
  /\ UNCHANGED <<stage, command, result, capacity, diskVars, alone, fails>>

\* the data phase, from or to the buffer of the command
Data(d) ==
  LET able == IF way[d] = "in" THEN CanSend(d)
              ELSE phase[d] = "data" /\ DataOf(current[d].op) = "out"
  IN  /\ pc[d] = "data"
      /\ \/ /\ able
            /\ IF way[d] = "in" THEN Sends(d, command[d].op \in Shared)
               ELSE phase' = [phase EXCEPT ![d] = "status"] /\ UNCHANGED <<current, buf>>
            /\ Arrives(d, "moved")
         \/ Refused(d, able) /\ UNCHANGED <<diskVars, buf>>
      /\ UNCHANGED <<stage, command, way, result, capacity, alone>>

\* the capacity is taken from g_msc_buf
Moved(d) ==
  /\ pc[d] = "moved"
  /\ capacity' = IF command[d].op # "capacity" THEN capacity
                 ELSE [capacity EXCEPT ![d] = buf = [kind |-> "data", of |-> command[d]]]
  /\ AskStatus(d)
  /\ UNCHANGED <<stage, command, way, result, diskVars, alone, fails>>

Csw(d) ==
  /\ pc[d] = "csw"
  /\ \/ CanSend(d) /\ Sends(d, TRUE) /\ Arrives(d, "check")
     \/ Refused(d, CanSend(d)) /\ UNCHANGED <<diskVars, buf>>
  /\ UNCHANGED <<stage, command, way, result, capacity, alone>>

\* usbh_msc_connect: what follows a command.  The disk ends there when the block
\* size is 0, which it may be when the answer was not the disk's own.
NextStages(d, ok) ==
  CASE stage[d] = "ready"    -> IF ok THEN {"inquiry"} ELSE {"sense"}
    [] stage[d] = "sense"    -> IF ok THEN {"inquiry"} ELSE {"dead"}
    [] stage[d] = "inquiry"  -> IF ok THEN {"capacity"} ELSE {"dead"}
    [] stage[d] = "capacity" -> IF ~ok THEN {"dead"} ELSE {"run"} \cup (IF capacity[d] THEN {} ELSE {"dead"})
    [] stage[d] = "run"      -> {"run"}

Returns(d, ok) ==
  /\ pc' = [pc EXCEPT ![d] = "idle"]
  /\ result' = [result EXCEPT ![d] = IF ok THEN "ok" ELSE "error"]
  /\ \E s \in NextStages(d, ok) : stage' = [stage EXCEPT ![d] = s]
  /\ way' = [way EXCEPT ![d] = "none"]
  /\ UNCHANGED <<command, capacity, buf, diskVars, alone>>

\* the signature and the status of the CSW, which may be bad
GoodStatus == buf.kind = "csw"

Check(d) ==
  /\ pc[d] = "check"
  /\ \/ Returns(d, GoodStatus) /\ UNCHANGED fails
     \/ GoodStatus /\ fails < MaxFails /\ fails' = fails + 1 /\ Returns(d, FALSE)

\* mutant: a transfer that fails is not told from one of no bytes
FailedUnseen(d) == pc[d] = "failed" /\ Returns(d, TRUE) /\ UNCHANGED fails

Failed(d) == pc[d] = "failed" /\ Returns(d, FALSE) /\ UNCHANGED fails
-----------------------------------------------------------------------------
Init ==
  /\ stage = [d \in Disks |-> "lun"] /\ pc = [d \in Disks |-> "idle"]
  /\ command = [d \in Disks |-> NoCommand] /\ way = [d \in Disks |-> "none"]
  /\ result = [d \in Disks |-> "none"]
  /\ buf = [kind |-> "zero", of |-> NoCommand] /\ capacity = [d \in Disks |-> FALSE]
  /\ phase = [d \in Disks |-> "cmd"] /\ current = [d \in Disks |-> NoCommand]
  /\ alone = [d \in Disks |-> TRUE] /\ fails = 0

Goes(d) == Cbw(d) \/ Sent(d) \/ Data(d) \/ Moved(d) \/ Csw(d) \/ Check(d) \/ Failed(d)

Next == \E d \in Disks : MaxLun(d) \/ Begin(d) \/ Goes(d)

\* A transfer ends, at the latest with its timeout, and then its thread goes on.
Spec == Init /\ [][Next]_vars /\ \A d \in Disks : WF_vars(Goes(d))
-----------------------------------------------------------------------------
(* Properties.                                                             *)

\* A command that has succeeded is the one that the disk has completed, and
\* leaves the disk ready for the next; the capacity is the disk's own: whatever
\* has failed before, unless another disk's thread has used g_msc_buf meanwhile.
OwnCommand ==
  \A d \in Disks :
    ~Inside(d) /\ result[d] = "ok" /\ alone[d] =>
      /\ current[d] = command[d] /\ phase[d] = "cmd"
      /\ command[d].op = "capacity" => capacity[d]

\* Every command returns, also when a disk is stuck in the middle of another one
\* or two threads spoil each other's.
CommandsReturn == \A d \in Disks : Inside(d) ~> ~Inside(d)
=============================================================================
