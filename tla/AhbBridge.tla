----------------------------- MODULE AhbBridge ------------------------------
(***************************************************************************)
(* The user logic of the FPGA (src/fpga/ulogic/ulogic.v): the bridge from  *)
(* the AHB to the slower bus clock, with the SRAM, the system registers,   *)
(* the SD controller's registers and the PSRAM behind it.                  *)
(*                                                                         *)
(* A step is an edge of the AHB clock, and every Ratio-th one is an edge   *)
(* of the bus clock too; registers take what their inputs were before the  *)
(* edge.  ahb_start alone has no clock: edges of htrans and of ahb_ack set *)
(* and clear it, right after the clock edge that makes them.               *)
(*                                                                         *)
(* The master is external.  It has a transfer on the address lines (want)  *)
(* and one in its data phase (access, while busy).  The SD controller and  *)
(* the SRAM block are external, too: a word of memory each.                *)
(***************************************************************************)
EXTENDS Tpsram

CONSTANTS
  Ratio,        \* edges of the AHB clock in one period of the bus clock
  Idle,         \* no transfer
  Programs      \* the sets of places that a master uses

ASSUME BridgeAssumption == Ratio \in Nat \ {0}

VARIABLES
  phase,        \* edges of the AHB clock since the last one of the bus clock
  places,       \* what the master uses
  want, busy,   \* the master
  overlap,      \* a transfer was put on the lines while another was under way
  shadow,       \* what has been written last
  access,       \* haddr, hsize, ahb_rd and ahb_wr, and hwdata
  hreadyout, ahb_start, ahb_ack, ahb_ack_d,
  mem, mem_rdata,               \* the SRAM and the SD controller's register
  sram_ready,
  sys_reg, sys_rdata,           \* sys_reg3 and sys_reg4
  pstate, cmd_req, pram_ready, pram_rdata

masterVars == <<places, want, busy, overlap, shadow, access>>
slaveVars == <<mem, mem_rdata, sram_ready, sys_reg, sys_rdata>>
pramVars == <<pstate, cmd_req, pram_ready, pram_rdata>>
busVars == <<ahb_ack, ahb_ack_d, slaveVars, pramVars, psVars>>
vars == <<phase, masterVars, hreadyout, ahb_start, busVars>>
-----------------------------------------------------------------------------
(* The transfers: bytes, halves and words of the memories, and words of    *)
(* the registers and of an address where nothing is.                       *)

\* Where an access may be made: a region, an address in it, and a size.
AllPlaces ==
  {p \in {"sram", "pram"} \X Lanes \X (0..2) : p[2] % 2^p[3] = 0}
    \cup {"sys"} \X {3, 4, 6, 7} \X {2} \cup {"sd", "none"} \X {0} \X {2}

\* What is written: a word of a memory is cleared and a part of one set, a bound.
Values(p) == IF p[1] \in {"sram", "pram"} THEN {IF p[3] = 2 THEN 0 ELSE 1} ELSE {0, 1}

Transfer(o, p, v) == [op |-> o, at |-> p[1], addr |-> p[2], size |-> p[3], v |-> v]

Transfers ==
  UNION {{Transfer("read", p, 0)} \cup {Transfer("write", p, v) : v \in Values(p)} : p \in places}

\* ahb_wb
LanesOf(t) == CASE t.size = 2 -> Lanes
                [] t.size = 1 -> {t.addr, t.addr + 1}
                [] OTHER      -> {t.addr}

\* hwdata: the master drives the lanes that it writes.
Hwdata == [l \in Lanes |-> IF l \in LanesOf(access) THEN Word(access.v)[l] ELSE Junk[l]]

Stored(word) == [l \in Lanes |-> IF l \in LanesOf(access) THEN Hwdata[l] ELSE word[l]]

\* The chip selects
Cs(region) == access.at = region

\* What the master takes to be one and the same cell: a register is written at
\* one index and read at another.
Cell(t) == IF t.at # "sys" THEN t.at
           ELSE IF t.addr \in {3, 6} THEN "reg3" ELSE "reg4"
Readable(t) == t.at # "none" /\ (t.at = "sys" => t.addr \in {6, 7})
Writable(t) == t.at # "none" /\ (t.at = "sys" => t.addr \in {3, 4})
-----------------------------------------------------------------------------
(* The AHB side                                                            *)

Init ==
  /\ TpsramInit
  /\ phase = 0 /\ places \in Programs
  /\ want = Idle /\ busy = FALSE /\ overlap = FALSE
  /\ access = [op |-> "read", at |-> "none", addr |-> 0, size |-> 2, v |-> 0]
  /\ shadow = [c \in {"sram", "pram", "sd", "reg3", "reg4"} |-> Word(0)]
  /\ hreadyout = TRUE /\ ahb_start = FALSE /\ ahb_ack = FALSE /\ ahb_ack_d = FALSE
  /\ mem = [c \in {"sram", "sd"} |-> Word(0)] /\ mem_rdata = mem /\ sram_ready = FALSE
  /\ sys_reg = [c \in {"reg3", "reg4"} |-> Word(0)] /\ sys_rdata = Junk
  /\ pstate = "IDLE" /\ cmd_req = "none" /\ pram_ready = FALSE /\ pram_rdata = Junk

AhbReady == \/ sram_ready \/ pram_ready
            \/ ahb_ack_d /\ (Cs("sys") \/ Cs("sd"))

Hrdata == CASE Cs("pram") -> pram_rdata
            [] Cs("sys")  -> sys_rdata
            [] Cs("none") -> Junk
            [] OTHER      -> mem_rdata[access.at]

Captured == hreadyout /\ want # Idle
Ends == hreadyout /\ busy

\* A transfer stays on the lines until it is taken over.  The one that is put
\* there while another is under way is the same again: a bound.
Master ==
  /\ access' = IF Captured THEN want ELSE access
  /\ busy' = (Captured \/ (busy /\ ~Ends))
  /\ want' \in IF want # Idle /\ ~Captured THEN {want}
               ELSE IF busy' THEN {Idle, access'} ELSE {Idle} \cup Transfers
  /\ overlap' = (overlap \/ (busy' /\ want' # Idle))
  /\ shadow' = IF Ends /\ access.op = "write" /\ Writable(access)
               THEN [shadow EXCEPT ![Cell(access)] = Stored(@)] ELSE shadow
  /\ UNCHANGED places

Ready == hreadyout' = (~Captured /\ (AhbReady \/ hreadyout))

HtransRises == want = Idle /\ want' # Idle
AckRises == ~ahb_ack /\ ahb_ack'

\* hreadyout may be seen before or after its edge.
Start == \/ AckRises /\ ahb_start' = FALSE
         \/ /\ ~AckRises /\ HtransRises
            /\ \E seen \in {hreadyout, hreadyout'} :
                 ahb_start' = (~ahb_ack' /\ (seen \/ ahb_start))
         \/ ~AckRises /\ ~HtransRises /\ ahb_start' = ahb_start
-----------------------------------------------------------------------------
(* The bus clock side                                                      *)

Handshake == ahb_ack' = ahb_start /\ ahb_ack_d' = ahb_ack

\* The SRAM and the SD controller
Memories ==
  /\ sram_ready' = (Cs("sram") /\ ahb_ack)
  /\ IF ahb_ack /\ (Cs("sram") \/ Cs("sd"))
     THEN IF access.op = "write"
          THEN mem' = [mem EXCEPT ![access.at] = Stored(@)] /\ UNCHANGED mem_rdata
          ELSE mem_rdata' = [mem_rdata EXCEPT ![access.at] = mem[access.at]] /\ UNCHANGED mem
     ELSE UNCHANGED <<mem, mem_rdata>>

\* The system registers; the test registers are not modelled.
Registers ==
  /\ sys_rdata' = CASE access.addr = 6 -> sys_reg["reg3"]
                    [] access.addr = 7 -> sys_reg["reg4"]
                    [] OTHER           -> Junk
  /\ sys_reg' = IF ahb_ack /\ Cs("sys") /\ access.op = "write"
                THEN [c \in DOMAIN sys_reg |->
                        IF access.addr = (IF c = "reg3" THEN 3 ELSE 4) THEN Hwdata ELSE sys_reg[c]]
                ELSE sys_reg

\* The requests to the PSRAM controller
PsIdle ==
  /\ pstate = "IDLE" /\ pram_ready' = FALSE
  /\ IF ahb_ack /\ Cs("pram") THEN pstate' = "WAITACK" /\ cmd_req' = access.op
     ELSE UNCHANGED <<pstate, cmd_req>>
  /\ UNCHANGED pram_rdata

\* mutant: a request is withdrawn after one period
PsWaitAckOnce ==
  /\ pstate = "WAITACK" /\ cmd_req' = "none"
  /\ IF ~cmd_ack THEN UNCHANGED <<pstate, pram_ready>>
     ELSE /\ pram_ready' = (cmd_req = "write" \/ pram_ready)
          /\ pstate' = IF cmd_req = "read" THEN "WAITDATA0" ELSE "IDLE"
  /\ UNCHANGED pram_rdata

PsWaitAck ==
  /\ pstate = "WAITACK"
  /\ IF ~cmd_ack THEN UNCHANGED <<pstate, cmd_req, pram_ready>>
     ELSE /\ cmd_req' = "none"
          /\ pram_ready' = (cmd_req = "write" \/ pram_ready)
          /\ pstate' = IF cmd_req = "read" THEN "WAITDATA0" ELSE "IDLE"
  /\ UNCHANGED pram_rdata

\* A byte or a half is answered in every lane.
Replicated(word, size) == [l \in Lanes |-> word[l % 2^size]]

\* cmd_dout has taken the last nibble half a period before.
PsWaitData0 ==
  /\ pstate = "WAITDATA0"
  /\ IF data_valid
     THEN pram_rdata' = Replicated(Dout(rdata'), access.size) /\ pstate' = "WAITDATA1"
     ELSE UNCHANGED <<pram_rdata, pstate>>
  /\ UNCHANGED <<cmd_req, pram_ready>>

PsWaitData1 ==
  /\ pstate = "WAITDATA1"
  /\ IF data_valid THEN pram_ready' = TRUE /\ pstate' = "IDLE"
     ELSE UNCHANGED <<pram_ready, pstate>>
  /\ UNCHANGED <<cmd_req, pram_rdata>>

Psram == PsIdle \/ PsWaitAck \/ PsWaitData0 \/ PsWaitData1
-----------------------------------------------------------------------------
\* An edge of both clocks, and one of the AHB clock alone.
BusEdge ==
  /\ phase = 0 /\ phase' = 1 % Ratio
  /\ Handshake /\ Memories /\ Registers
  /\ Tpsram(cmd_req, access.addr, access.size, Hwdata) /\ Psram
  /\ Master /\ Ready /\ Start

AhbEdge ==
  /\ phase # 0 /\ phase' = (phase + 1) % Ratio
  /\ UNCHANGED busVars
  /\ Master /\ Ready /\ Start

Next == BusEdge \/ AhbEdge

Spec == Init /\ [][Next]_vars /\ WF_vars(Next)
-----------------------------------------------------------------------------
(* ReadsRight: a read answers, in the lanes it asked for, what has been    *)
(* written there last, whatever the sizes of the accesses in between: the  *)
(* posted write to the PSRAM is on its way while the next access is taken  *)
(* over, and bytes go through the lanes, the nibbles and the shift         *)
(* register (ulogic.v:116-163, 303-325; tpsram.v:105-189).                 *)
ReadsRight ==
  [][(Ends /\ access.op = "read" /\ Readable(access)) =>
       \A l \in LanesOf(access) : Hrdata[l] = shadow[Cell(access)][l]]_vars

(* AccessesEnd: an access of a region that is there ends, though ahb_start  *)
(* is set and cleared without a clock (ulogic.v:99-112) and the PSRAM may   *)
(* be starting or writing still; unless the master has put a transfer on    *)
(* the lines while another was under way.                                   *)
AccessesEnd ==
  (busy /\ ~overlap /\ access.at # "none") ~> (~busy \/ overlap)
=============================================================================
