------------------------------- MODULE Tpsram -------------------------------
(***************************************************************************)
(* The PSRAM controller (src/fpga/ulogic/tpsram.v): one step per edge of   *)
(* its clock.  A request is taken over in P_IDLE; eight nibbles of command *)
(* and address follow, and then the nibbles of the data, two for a byte.   *)
(*                                                                         *)
(* A byte of a word is <<l, v>>: the lane that it belongs to and a value.  *)
(* The chip and the board are external: what the chip answers arrives when *)
(* the controller expects it, and the chip takes a byte after its second   *)
(* nibble.  It has four bytes.                                             *)
(***************************************************************************)
EXTENDS Integers, Sequences

VARIABLES
  p_state, p_next,      \* the state of the controller, and the one after CADDR
  por_cnt, rw_cnt, p_wcnt,
  cmd_ack, data_valid,
  wdata, rdata,         \* the bytes to send, and the last four received
  chip, chip_at         \* what the chip holds, and the byte it is at

psVars == <<p_state, p_next, por_cnt, rw_cnt, p_wcnt, cmd_ack, data_valid, wdata, rdata,
            chip, chip_at>>

Lanes == 0..3
Word(v) == [l \in Lanes |-> <<l, v>>]
Junk == [l \in Lanes |-> <<l, -1>>]
Noise == <<Junk[0], Junk[1], Junk[2], Junk[3]>>

TpsramInit ==
  /\ p_state = "POR" /\ p_next = "IDLE" /\ por_cnt = 8 /\ rw_cnt = 0 /\ p_wcnt = 0
  /\ cmd_ack = FALSE /\ data_valid = FALSE
  /\ wdata = <<>> /\ rdata = Noise
  /\ chip = Word(0) /\ chip_at = 0

\* mutant: the bytes are sent as if the address were a multiple of four
ToSendAligned(din, addr, size) == SubSeq(<<din[0], din[1], din[2], din[3]>>, 1, 2^size)

\* The bytes that a write of a size at an address sends, from the lanes of din.
ToSend(din, addr, size) ==
  SubSeq(<<din[addr], IF addr < 2 THEN din[1] ELSE din[3], din[2], din[3]>>, 1, 2^size)

PowerOn ==
  /\ p_state = "POR"
  /\ por_cnt' = por_cnt - 1
  /\ p_state' = IF por_cnt = 0 THEN "IDLE" ELSE "POR"
  /\ UNCHANGED <<p_next, rw_cnt, p_wcnt, cmd_ack, data_valid, wdata, rdata, chip, chip_at>>

\* A request: req is "read", "write" or "none".
TakeRequest(req, addr, size, din) ==
  /\ p_state = "IDLE"
  /\ rw_cnt' = 0
  /\ IF req = "none"
     THEN UNCHANGED <<p_state, p_next, cmd_ack, p_wcnt, wdata, chip_at>>
     ELSE /\ cmd_ack' = TRUE /\ p_state' = "CADDR" /\ chip_at' = addr
          /\ p_next' = IF req = "read" THEN "READ_WAIT" ELSE "WRITE"
          /\ IF req = "read" THEN UNCHANGED <<p_wcnt, wdata>>
             ELSE /\ wdata' = ToSend(din, addr, size)
                  /\ p_wcnt' = CASE size = 2 -> 7 [] size = 1 -> 3 [] OTHER -> 1
  /\ UNCHANGED <<por_cnt, data_valid, rdata, chip>>

SendAddress ==
  /\ p_state = "CADDR"
  /\ cmd_ack' = FALSE /\ rw_cnt' = rw_cnt + 1
  /\ p_state' = IF rw_cnt = 7 THEN p_next ELSE p_state
  /\ UNCHANGED <<p_next, por_cnt, p_wcnt, data_valid, wdata, rdata, chip, chip_at>>

WaitForData ==
  /\ p_state = "READ_WAIT"
  /\ rw_cnt' = rw_cnt + 1
  /\ p_state' = IF rw_cnt = 15 THEN "READ_DATA" ELSE p_state
  /\ UNCHANGED <<p_next, por_cnt, p_wcnt, cmd_ack, data_valid, wdata, rdata, chip, chip_at>>

\* The second nibble of a byte has been sampled at every other step.
ReadData ==
  /\ p_state = "READ_DATA"
  /\ IF rw_cnt % 2 = 1
     THEN rdata' = Append(Tail(rdata), chip[chip_at]) /\ chip_at' = (chip_at + 1) % 4
     ELSE UNCHANGED <<rdata, chip_at>>
  /\ rw_cnt' = (rw_cnt + 1) % 32
  /\ data_valid' = (rw_cnt % 8 = 6)
  /\ p_state' = IF rw_cnt = 31 THEN "FINISH" ELSE p_state
  /\ UNCHANGED <<p_next, por_cnt, p_wcnt, cmd_ack, wdata, chip>>

\* A nibble is sent; with the second one the chip has the byte.
WriteData ==
  /\ p_state = "WRITE"
  /\ IF p_wcnt % 2 = 0
     THEN chip' = [chip EXCEPT ![chip_at] = Head(wdata)] /\ chip_at' = (chip_at + 1) % 4
          /\ wdata' = Tail(wdata)
     ELSE UNCHANGED <<chip, chip_at, wdata>>
  /\ p_wcnt' = (p_wcnt - 1) % 8
  /\ p_state' = IF p_wcnt = 0 THEN "FINISH" ELSE p_state
  /\ UNCHANGED <<p_next, por_cnt, rw_cnt, cmd_ack, data_valid, rdata>>

\* One more nibble, of whatever the pins show, and no byte is in its place.
FinishAccess ==
  /\ p_state = "FINISH"
  /\ data_valid' = FALSE /\ p_state' = "IDLE" /\ rdata' = Noise
  /\ UNCHANGED <<p_next, por_cnt, rw_cnt, p_wcnt, cmd_ack, wdata, chip, chip_at>>

\* An edge of the clock, with what the request lines say.
Tpsram(req, addr, size, din) ==
  \/ PowerOn \/ TakeRequest(req, addr, size, din) \/ SendAddress
  \/ WaitForData \/ ReadData \/ WriteData \/ FinishAccess

\* cmd_dout: the byte received first is in the lowest lane.
Dout(received) == [l \in Lanes |-> received[l + 1]]
=============================================================================
