------------------------------ MODULE MCUsbMsc ------------------------------
(***************************************************************************)
(* A small instance of UsbMsc: two disks.                                  *)
(***************************************************************************)
EXTENDS UsbMsc

CONSTANTS Left, Right

BothDisks == {Left, Right}
UnevenCommands == [d \in BothDisks |-> IF d = Left THEN 5 ELSE 2]
=============================================================================
