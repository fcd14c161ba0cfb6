------------------------------- MODULE UsbHub --------------------------------
(***************************************************************************)
(* Hubs and enumeration (src/cherryusb/usbh_hub.c, usbh_core.c): the hub   *)
(* thread turns reports of the root hub and of one external hub into       *)
(* connected and released ports, a thread for each new device gives it an  *)
(* address and loads its class driver, and devices come and go meanwhile.  *)
(*                                                                         *)
(* The hub thread is more urgent than the enumeration threads, so what it  *)
(* does between two waits is one step.  A step of an enumeration thread    *)
(* ends with a transfer: what the thread does with the answer belongs to   *)
(* its next step, and the hub thread may come between.                     *)
(*                                                                         *)
(* A transfer to a device that is there is answered, but for at most       *)
(* MaxFails of them.  Devices come and go at most MaxChanges times.  When  *)
(* the external hub goes, so do the devices behind it.                     *)
(*                                                                         *)
(* The model stops where a thread works on what is not its own:            *)
(*   parent    the thread reads child->parent, which is NULL               *)
(*   freed     the thread fills in a class instance that has been freed    *)
(*   replaced  the thread goes on with a port that has a newer device      *)
(***************************************************************************)
EXTENDS UsbDescriptors, FiniteSets

CONSTANTS
  RootPort, ExtPorts,   \* the port of the root hub; those of an external hub
  Threads,              \* bound: the enumeration threads at a time
  MaxAddr,              \* USB_DEV_ADDR_MAX; the first address is 2
  Disks,                \* CONFIG_USBHOST_MAX_MSC_CLASS
  MaxChanges, MaxFails  \* bounds

ASSUME HubAssumption ==
  /\ {RootPort} \cup ExtPorts \subseteq Nat /\ RootPort \notin ExtPorts /\ IsFiniteSet(ExtPorts)
  /\ Threads \subseteq Nat \ {0} /\ MaxAddr \in Nat /\ MaxAddr >= 2
  /\ Disks \in Nat /\ MaxChanges \in Nat /\ MaxFails \in Nat

VARIABLES
  plugged,              \* what is at a port: "none", "hub" or "disk"
  change,               \* the ports whose connection change bit is set
  enabled,              \* the ports that are enabled
  connected,            \* hport->connected
  addr,                 \* hport->dev_addr, 0 if there is none
  driver,               \* the class driver of a port's interface, or "none"
  instance,             \* the ports whose interface has a class instance
  orphans,              \* the ports whose parent is NULL
  hubs, disks,          \* how many class instances are allocated
  used, next,           \* devgen: the allocated addresses, the hint
  listening,            \* hub->connected of the external hub
  intin,                \* the external hub's interrupt URB is submitted
  bits,                 \* hub->int_buffer[0] of the root and the external hub
  sem, current,         \* hub_sem and current_hub
  pc, hub, todo,        \* the hub thread: where it is, its hub and its ports
  enum,                 \* the enumeration threads: place, port, address
  owner,                \* the latest thread of a port
  changes, fails,       \* counters
  lost,                 \* why a change may never be handled
  fault                 \* "none", or why the model has stopped

busVars == <<plugged, change, enabled>>
devgen == <<used, next>>
hportVars == <<connected, addr, driver, instance, orphans>>
portVars == <<hportVars, hubs, disks, devgen>>
extVars == <<listening, intin>>
reportVars == <<bits, sem, current>>
threadVars == <<pc, hub, todo>>
enumVars == <<enum, owner>>
noteVars == <<changes, fails, lost, fault>>
vars == <<plugged, change, enabled, connected, addr, driver, instance, orphans, hubs, disks,
          used, next, listening, intin, bits, sem, current, pc, hub, todo, enum, owner,
          changes, fails, lost, fault>>

Ports == {RootPort} \cup ExtPorts
Addrs == 2..MaxAddr
NoThread == 0
Running == fault = "none"

\* a hub answers until it goes or its port is reset for another
HubThere == plugged[RootPort] = "hub" /\ RootPort \in enabled
NotRunning == [pc |-> "none", port |-> RootPort, addr |-> 0]
-----------------------------------------------------------------------------
(* The reports of the hubs                                                 *)

\* usbh_hub_thread_wakeup: one variable remembers the hub.  A report that the
\* thread has not looked at yet is lost if another hub's follows it.
Wakeup(h, ports) ==
  /\ bits' = [bits EXCEPT ![h] = @ \cup ports]
  /\ sem' = sem + 1
  /\ current' = h
  /\ lost' = lost \cup IF (sem > 0 \/ pc = "woken") /\ current # h THEN {"overwritten"} ELSE {}

\* A device comes or goes.  The controller interrupts when the change bit of the
\* root port has not been set before.
Replug(p) ==
  \E d \in {"none", "disk", "hub"} :
    /\ Running /\ changes < MaxChanges
    /\ d # plugged[p] /\ (d = "none" \/ plugged[p] = "none")
    /\ p \in ExtPorts => plugged[RootPort] = "hub" /\ d # "hub"
    /\ changes' = changes + 1
    /\ plugged' = [q \in Ports |-> IF q = p THEN d
                                   ELSE IF p = RootPort THEN "none" ELSE plugged[q]]
    /\ change' = (IF p = RootPort THEN {} ELSE change) \cup {p}
    /\ enabled' = (IF p = RootPort THEN {} ELSE enabled \ {p})
    /\ IF p = RootPort /\ p \notin change THEN Wakeup("root", {p})
       ELSE UNCHANGED <<reportVars, lost>>
    /\ UNCHANGED <<portVars, extVars, threadVars, enumVars, fails, fault>>

\* hub_int_complete_callback: the external hub reports its ports with a change;
\* one that is gone ends the transfer with an error.
HubReports ==
  /\ Running /\ intin
  /\ intin' = FALSE
  /\ IF HubThere THEN change \cap ExtPorts # {} /\ Wakeup("ext", change \cap ExtPorts)
     ELSE UNCHANGED <<reportVars, lost>>
  /\ UNCHANGED <<busVars, portVars, listening, threadVars, enumVars, changes, fails, fault>>
-----------------------------------------------------------------------------
(* Device addresses                                                        *)

Successor(a) == IF a >= MaxAddr THEN 2 ELSE a + 1

\* usbh_allocate_devaddr fails when the hint itself is taken: the loop compares
\* the address with the first one at the end of its first turn.
HintTaken == next \in used

\* mutant: the hint goes back, but the address stays with whoever has it
FreeHintOnly(S) ==
  /\ used' = used \ {next}
  /\ next' = Min(S \cup {next})

\* __usbh_free_devaddr for the addresses of S: the last one is never free again
Free(S) ==
  LET freed == S \ {MaxAddr}
  IN  /\ used' = used \ freed
      /\ next' = Min(freed \cup {next})
-----------------------------------------------------------------------------
(* Ports                                                                   *)

\* usbh_free_devaddr: a port without an address has none to free.
FreeDevaddr(ports) == Free({addr[q] : q \in ports} \ {0})

\* usbh_hub_class_free clears the hub, with the parents of its ports.
HubClassFree == hubs' = 0 /\ orphans' = ExtPorts /\ listening' = FALSE

\* usbh_msc_class_free
MscClassFree(n) == disks' = disks - n

\* mutant: the ports of a hub that goes are left as they are
GoneWithoutChildren(p) == {p} \cap connected

\* the ports that are released with p: an external hub takes its own along
Gone(p) ==
  IF p \notin connected THEN {}
  ELSE {p} \cup (IF p \in instance /\ driver[p] = "hub" THEN ExtPorts \cap connected ELSE {})

\* usbh_msc_disconnect: each disk that goes gives back its class instance
DisksFreed(gone) == Cardinality({q \in gone \cap instance : driver[q] = "disk"})

\* usbh_hubport_release, with the disconnect of the class; then, if there is a
\* new device, the port's new beginning
Release(p, new) ==
  LET gone == Gone(p)
      withHub == p \in gone \cap instance /\ driver[p] = "hub"
      wiped == gone \cup {q \in Ports : (q = p /\ new) \/ (q \in ExtPorts /\ withHub)}
  IN  /\ connected' = (connected \ gone) \cup (IF new THEN {p} ELSE {})
      /\ addr' = [q \in Ports |-> IF q \in wiped THEN 0 ELSE addr[q]]
      /\ driver' = [q \in Ports |-> IF q \in wiped THEN "none" ELSE driver[q]]
      /\ instance' = instance \ wiped
      /\ FreeDevaddr(gone)
      /\ MscClassFree(DisksFreed(gone))
      /\ IF withHub THEN HubClassFree /\ intin' = FALSE
         ELSE UNCHANGED <<hubs, orphans, listening, intin>>

\* A control transfer: the device answers, or the transfer fails.
Reached(p) ==
  plugged[p] # "none" /\ p \in enabled /\ (p \in ExtPorts => HubThere)

Answered(p) == p \in connected /\ Reached(p) /\ UNCHANGED fails
Unanswered(p) ==
  \/ ~(p \in connected /\ Reached(p)) /\ UNCHANGED fails
  \/ p \in connected /\ Reached(p) /\ fails < MaxFails /\ fails' = fails + 1

\* A request to the hub that is being looked after: the root hub is no device.
HubAnswers == (hub = "root" \/ HubThere) /\ UNCHANGED fails
HubSilent ==
  /\ hub = "ext"
  /\ \/ ~HubThere /\ UNCHANGED fails
     \/ HubThere /\ fails < MaxFails /\ fails' = fails + 1
-----------------------------------------------------------------------------
(* The hub thread: usbh_hub_thread and usbh_hub_events                     *)

HubAt(where) == Running /\ pc = where
HubGoes(where) == pc' = where
NextTodo == todo' = todo \ {Min(todo)} /\ HubGoes("next")

Take ==
  /\ HubAt("idle") /\ sem > 0
  /\ sem' = sem - 1 /\ HubGoes("woken")
  /\ UNCHANGED <<busVars, portVars, extVars, bits, current, hub, todo, enumVars, noteVars>>

\* usbh_hub_events does nothing for a hub that is not connected.
Ignored == current = "ext" /\ ~listening

Look ==
  /\ HubAt("woken")
  /\ IF Ignored THEN HubGoes("idle") /\ UNCHANGED <<hub, todo>>
     ELSE hub' = current /\ todo' = bits[current] /\ HubGoes("zero")
  /\ UNCHANGED <<busVars, portVars, extVars, reportVars, enumVars, noteVars>>

Zero ==
  /\ HubAt("zero")
  /\ bits' = [bits EXCEPT ![hub] = {}] /\ HubGoes("next")
  /\ UNCHANGED <<busVars, portVars, extVars, sem, current, hub, todo, enumVars, noteVars>>

\* mutant: the interrupt transfer is not started again
ListenNever == UNCHANGED intin

\* usbh_submit_urb(&hub->intin_urb)
Listen == intin' = (intin \/ (hub = "ext" /\ listening /\ RootPort \in connected))

\* The locals of usbh_hub_events are gone.
LastPort ==
  /\ HubAt("next") /\ todo = {}
  /\ Listen /\ HubGoes("idle") /\ hub' = "root"
  /\ UNCHANGED <<busVars, portVars, listening, reportVars, todo, enumVars, noteVars>>

\* GET_STATUS of a port: usbh_roothub_control reads the register of the root port,
\* an external hub answers the same.
PortStatus(p) ==
  [connection |-> plugged[p] # "none", change |-> p \in change, enable |-> p \in enabled]

\* the status of the next port; one without a change is done with
Status ==
  /\ HubAt("next") /\ todo # {}
  /\ \/ HubAnswers /\ PortStatus(Min(todo)).change /\ HubGoes("clear") /\ UNCHANGED todo
     \/ HubAnswers /\ ~PortStatus(Min(todo)).change /\ NextTodo
     \/ HubSilent /\ NextTodo
  /\ UNCHANGED <<busVars, portVars, extVars, reportVars, hub, enumVars, changes, lost, fault>>

\* CLEAR_FEATURE: usbh_roothub_control, and the same request to an external hub.
ChangeCleared(p) == change \ {p}

\* usbh_hub_clear_feature, of either hub
ClearFeature(p) == HubAnswers /\ change' = ChangeCleared(p)

\* The change is cleared, as often as it takes.
Clear ==
  /\ HubAt("clear")
  /\ \/ ClearFeature(Min(todo)) /\ HubGoes("debounce")
     \/ HubSilent /\ UNCHANGED <<change, pc>>
  /\ UNCHANGED <<plugged, enabled, portVars, extVars, reportVars, hub, todo, enumVars,
                 changes, lost, fault>>

\* A stable port: its device is reset, or it is released.
Debounced ==
  LET p == Min(todo)
  IN  /\ HubAt("debounce") /\ ClearFeature(p)
      /\ IF PortStatus(p).connection THEN HubGoes("reset") /\ UNCHANGED <<portVars, extVars, todo>>
         ELSE Release(p, FALSE) /\ NextTodo
      /\ UNCHANGED <<plugged, enabled, reportVars, hub, enumVars, changes, lost, fault>>

\* A port that is not stable, or not to be read, ends the loop over the ports.
DebounceFails ==
  /\ HubAt("debounce")
  /\ \/ hub = "ext" /\ ~HubThere /\ UNCHANGED <<fails, lost>>
     \/ fails < MaxFails /\ fails' = fails + 1 /\ lost' = lost \cup {"bounce"}
  /\ todo' = {} /\ HubGoes("next")
  /\ UNCHANGED <<busVars, portVars, extVars, reportVars, hub, enumVars, changes, fault>>

\* usbh_reset_port reads the port's register and writes it back, with whatever
\* change bits are set, which clears them.
WrittenBack(p) == change \ ({p} \cap {RootPort})

\* usbh_hub_set_feature, of either hub, with the reset of a port
SetReset(p) == HubAnswers /\ change' = WrittenBack(p) /\ enabled' = enabled \ {p}

Reset ==
  LET p == Min(todo)
  IN  /\ HubAt("reset")
      /\ \/ /\ SetReset(p)
            /\ HubGoes("resetEnd") /\ UNCHANGED todo
         \/ HubSilent /\ NextTodo /\ UNCHANGED <<change, enabled>>
      /\ UNCHANGED <<plugged, portVars, extVars, reportVars, hub, enumVars, changes, lost, fault>>

\* The port is enabled if a device is there.
ResetEnd ==
  LET p == Min(todo)
  IN  /\ HubAt("resetEnd")
      /\ change' = WrittenBack(p)
      /\ enabled' = enabled \cup {q \in {p} : plugged[p] # "none"}
      /\ HubGoes("enable")
      /\ UNCHANGED <<plugged, portVars, extVars, reportVars, hub, todo, enumVars, noteVars>>

\* A port that is enabled has a new device, whoever was there before.
Enable ==
  LET p == Min(todo)
      new == PortStatus(p).enable
      spare == {t \in Threads : enum[t] = NotRunning}
      t == Min(spare)
  IN  /\ HubAt("enable")
      /\ \/ /\ HubAnswers /\ (new => spare # {})
            /\ Release(p, new)
            /\ IF ~new THEN UNCHANGED enumVars
               ELSE /\ enum' = [enum EXCEPT ![t] = [pc |-> "first", port |-> p, addr |-> 0]]
                    /\ owner' = [owner EXCEPT ![p] = t]
         \/ HubSilent /\ UNCHANGED <<portVars, extVars, enumVars>>
      /\ NextTodo
      /\ UNCHANGED <<busVars, reportVars, hub, changes, lost, fault>>
-----------------------------------------------------------------------------
(* An enumeration thread: usbh_enumerate                                   *)

EnumAt(t, where) == Running /\ enum[t].pc = where
EnumGoes(t, where) == enum' = [enum EXCEPT ![t].pc = where]
EnumEnds(t) ==
  /\ enum' = [enum EXCEPT ![t] = NotRunning]
  /\ owner' = [p \in Ports |-> IF owner[p] = t THEN NoThread ELSE owner[p]]
Break(why) ==
  /\ fault' = why
  /\ UNCHANGED <<busVars, portVars, extVars, reportVars, threadVars, enumVars, changes, fails, lost>>

Mine(t) == owner[enum[t].port] = t

\* a thread goes on with a port that the hub thread has given to another one
Replaced(t) == Running /\ enum[t] # NotRunning /\ ~Mine(t) /\ Break("replaced")

Transfer(t, ok) ==
  LET p == enum[t].port
  IN  \/ Answered(p) /\ EnumGoes(t, ok)
      \/ Unanswered(p) /\ EnumGoes(t, "fail")

\* the first bytes of the device descriptor, at address 0
First(t) ==
  LET p == enum[t].port
  IN  /\ EnumAt(t, "first") /\ Mine(t)
      /\ IF p \in orphans THEN Break("parent")
         ELSE /\ addr' = [addr EXCEPT ![p] = 0]
              /\ Transfer(t, "address")
              /\ UNCHANGED <<busVars, connected, driver, instance, orphans, hubs, disks, used,
                             next, extVars, reportVars, threadVars, owner, changes, lost, fault>>

\* SET_ADDRESS.  Without an address the thread ends as if all were well.
Address(t) ==
  /\ EnumAt(t, "address") /\ Mine(t)
  /\ next' = Successor(next)
  /\ IF HintTaken THEN EnumEnds(t) /\ UNCHANGED <<used, fails>>
     ELSE /\ used' = used \cup {next}
          /\ \/ /\ Answered(enum[t].port)
                /\ enum' = [enum EXCEPT ![t].pc = "config", ![t].addr = next]
             \/ Unanswered(enum[t].port) /\ EnumGoes(t, "fail")
          /\ UNCHANGED owner
  /\ UNCHANGED <<busVars, connected, addr, driver, instance, orphans, hubs, disks,
                 extVars, reportVars, threadVars, changes, lost, fault>>

\* What a hub or a disk says of its class.
Identity(d) ==
  [length |-> DeviceSize, type |-> "device", vendor |-> 1, product |-> 1,
   class |-> IF d = "hub" THEN "hub" ELSE "storage",
   subclass |-> IF d = "hub" THEN "none" ELSE "scsi",
   protocol |-> IF d = "hub" THEN "none" ELSE "bulkonly"]

\* The descriptors and SET_CONFIGURATION, at the new address.  Descriptors that
\* are refused end the thread like a transfer that fails.
Config(t) ==
  LET p == enum[t].port
  IN  /\ EnumAt(t, "config") /\ Mine(t)
      /\ addr' = [addr EXCEPT ![p] = enum[t].addr]
      /\ \/ /\ Answered(p) /\ EnumGoes(t, "connect")
            /\ driver' = [driver EXCEPT ![p] = ClassDriver(DeviceKept(Identity(plugged[p]), DeviceSize))]
         \/ Unanswered(p) /\ EnumGoes(t, "fail") /\ UNCHANGED driver
      /\ UNCHANGED <<busVars, connected, instance, orphans, hubs, disks, used, next,
                     extVars, reportVars, threadVars, owner, changes, lost, fault>>

\* usbh_hub_class_alloc, usbh_msc_class_alloc: all class instances are in use
NoHubLeft(p) == driver[p] = "hub" /\ hubs = 1
NoDiskLeft(p) == driver[p] = "disk" /\ disks = Disks

\* the connect function of the class, up to its last transfer; a port that has
\* been released has no interfaces left
Connect(t) ==
  LET p == enum[t].port
      isHub == driver[p] = "hub"
  IN  /\ EnumAt(t, "connect") /\ Mine(t)
      /\ IF driver[p] = "none"
         THEN EnumEnds(t) /\ UNCHANGED <<instance, orphans, hubs, disks, fails>>
         ELSE IF NoHubLeft(p) \/ NoDiskLeft(p)
         THEN EnumGoes(t, "fail") /\ UNCHANGED <<owner, instance, orphans, hubs, disks, fails>>
         ELSE /\ instance' = instance \cup {p}
              /\ hubs' = hubs + (IF isHub THEN 1 ELSE 0)
              /\ disks' = disks + (IF isHub THEN 0 ELSE 1)
              /\ orphans' = IF isHub THEN {} ELSE orphans
              /\ Transfer(t, "finish")
              /\ UNCHANGED owner
      /\ UNCHANGED <<busVars, connected, addr, driver, used, next, extVars, reportVars,
                     threadVars, changes, lost, fault>>

\* usbh_hub_connect listens to the hub; usbh_msc_connect goes on to usbh_msc_run.
Finish(t) ==
  LET p == enum[t].port
  IN  /\ EnumAt(t, "finish") /\ Mine(t)
      /\ IF p \notin instance THEN Break("freed")
         ELSE /\ IF driver[p] = "hub"
                 THEN listening' = TRUE /\ intin' = (p \in connected) /\ EnumEnds(t)
                 ELSE EnumGoes(t, "run") /\ UNCHANGED <<extVars, owner>>
              /\ UNCHANGED <<busVars, portVars, reportVars, threadVars, noteVars>>

\* usbh_msc_run mounts and lists; usbh_msc_stop frees what it uses.
Run(t) ==
  /\ EnumAt(t, "run") /\ Mine(t)
  /\ IF enum[t].port \notin instance THEN Break("freed")
     ELSE /\ EnumEnds(t)
          /\ UNCHANGED <<busVars, portVars, extVars, reportVars, threadVars, noteVars>>

\* a failure: the port is released, if nobody has done that
Fail(t) ==
  /\ EnumAt(t, "fail") /\ Mine(t)
  /\ Release(enum[t].port, FALSE)
  /\ EnumEnds(t)
  /\ UNCHANGED <<busVars, reportVars, threadVars, noteVars>>
-----------------------------------------------------------------------------
\* usbh_initialize: address 1 is for the root hub.
DevgenInit == used = {} /\ next = 2

Init ==
  /\ \E root \in {"none", "disk", "hub"} : \E behind \in SUBSET ExtPorts :
       /\ root # "hub" => behind = {}
       /\ plugged = [p \in Ports |-> IF p = RootPort THEN root
                                     ELSE IF p \in behind THEN "disk" ELSE "none"]
       /\ change = behind \cup (IF root = "none" THEN {} ELSE {RootPort})
       /\ bits = [h \in {"root", "ext"} |-> IF h = "root" THEN change \cap {RootPort} ELSE {}]
       /\ sem = IF root = "none" THEN 0 ELSE 1
  /\ current = "root" /\ enabled = {} /\ connected = {} /\ instance = {} /\ orphans = ExtPorts
  /\ addr = [p \in Ports |-> 0] /\ driver = [p \in Ports |-> "none"]
  /\ hubs = 0 /\ disks = 0 /\ DevgenInit
  /\ listening = FALSE /\ intin = FALSE
  /\ pc = "idle" /\ hub = "root" /\ todo = {}
  /\ enum = [t \in Threads |-> NotRunning] /\ owner = [p \in Ports |-> NoThread]
  /\ changes = 0 /\ fails = 0 /\ lost = {} /\ fault = "none"

HubThread ==
  \/ Take \/ Look \/ Zero \/ LastPort \/ Status \/ Clear
  \/ Debounced \/ DebounceFails \/ Reset \/ ResetEnd \/ Enable

EnumThread(t) ==
  \/ First(t) \/ Address(t) \/ Config(t) \/ Connect(t) \/ Finish(t) \/ Run(t) \/ Fail(t)
  \/ Replaced(t)

SomeThread == HubThread \/ \E t \in Threads : EnumThread(t)

Next ==
  \/ SomeThread
  \/ HubReports
  \/ \E p \in Ports : Replug(p)

Spec == Init /\ [][Next]_vars

\* The processor runs a thread that can run; a hub that is there reports its changes.
FairSpec == Spec /\ WF_vars(SomeThread) /\ WF_vars(HubReports)
-----------------------------------------------------------------------------
(* Properties.                                                             *)

\* No two ports share an address, and the address of a port is not free for the
\* next device, whatever fails and whoever is released on the way; so with the
\* address that a thread has just given to its device (usbh_allocate_devaddr,
\* usbh_hubport_release).
AddressesDistinct ==
  LET given == {t \in Threads : enum[t].pc = "config" /\ Mine(t)}
      holders == {<<p, addr[p]>> : p \in {q \in connected : addr[q] # 0}}
                   \cup {<<enum[t].port, enum[t].addr>> : t \in given}
  IN  \A x, y \in holders : x[2] \in used /\ (x[1] # y[1] => x[2] # y[2])

\* Every class instance belongs to a port, every connected external hub has its
\* instance, and a released port has none: none leaks, none is freed twice, when
\* a hub, its devices and their enumeration threads go in any order.
InstancesAgree ==
  Running =>
    /\ disks = Cardinality({p \in instance : driver[p] = "disk"})
    /\ hubs = Cardinality({p \in instance : driver[p] = "hub"})
    /\ instance \subseteq connected
    /\ listening => \E p \in instance : driver[p] = "hub"

\* An external hub that is connected is listened to, or its report waits for the
\* hub thread or is being handled, unless the hub has gone: a report of the root
\* hub takes the place of its report only when it goes (hub_int_complete_callback,
\* usbh_hub_events).
HubListens ==
  listening /\ HubThere /\ pc # "enable" /\ Running =>
    \/ intin
    \/ current = "ext" /\ (sem > 0 \/ pc = "woken")
    \/ hub = "ext" /\ pc \notin {"idle", "woken"}

\* The port of a device that has gone is released, but for a report that is
\* lost, a port that did not become stable, or a change that the hub thread tries
\* for ever to clear at a hub that has gone.
PortsReleased ==
  \A p \in Ports :
    p \in connected /\ plugged[p] = "none" ~>
      \/ p \notin connected \/ plugged[p] # "none" \/ lost # {} \/ ~Running
      \/ pc = "clear" /\ ~HubThere

\* What a port with a class driver rests on: all that the device has sent of its
\* configuration is kept where it belongs, or the device is refused; but for the
\* two kinds of device that ConfigsKept names (parse_config_descriptor).
ConfigParsed == (\E p \in Ports : driver[p] # "none") => ConfigsKept
=============================================================================
