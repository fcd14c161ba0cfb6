----------------------------- MODULE MCEhciHcd ------------------------------
(***************************************************************************)
(* A small instance of EhciHcd: a control transfer, a bulk transfer and    *)
(* the interrupt transfer of a hub share two queue heads.                  *)
(***************************************************************************)
EXTENDS EhciHcd

CONSTANTS Enum, Msc, Hub

NeedOf == [u \in {Enum, Msc, Hub} |-> IF u = Hub THEN 1 ELSE 2]
TwoQhs == 1..2
ThreeQtds == 1..3
Blockers == {Enum, Msc}
HubOnly == {Hub}
EnumOnly == {Enum}
=============================================================================
