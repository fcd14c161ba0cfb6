------------------------------ MODULE MCUsbHub ------------------------------
(***************************************************************************)
(* A small instance of UsbHub: an external hub with two ports.             *)
(***************************************************************************)
EXTENDS UsbHub

TwoPorts == 1..2
TwoThreads == 1..2

\* Configurations and remains of up to three descriptors: two interfaces, one
\* alternate setting too many, one of another kind that is short.
Interface(number, alt) ==
  [type |-> "interface", length |-> 9, number |-> number, alt |-> alt, endpoints |-> 1]
Endpoint == [type |-> "endpoint", length |-> 7]
Other == [type |-> "other", length |-> 3]
Descriptors == {Interface(0, 0), Interface(1, 0), Interface(0, 1), Endpoint, Other}
SomeHeaders ==
  {[length |-> 9, type |-> "config"], [length |-> 18, type |-> "config"], [length |-> 9, type |-> "device"]}
SomeTails == BoundedSeq(Descriptors, 3)
SomeConfigs ==
  {c \in SomeTails :
     /\ c # <<>> /\ c[1] = Interface(0, 0)
     /\ \A j, k \in DOMAIN c : j < k /\ c[j].type = "interface" => c[j] # c[k]}
=============================================================================
