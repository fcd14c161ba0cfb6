---------------------------- MODULE UsbHubProofs -----------------------------
(***************************************************************************)
(* What holds of hubs and enumeration for any number of ports, threads,    *)
(* addresses, class instances, changes and failures.                       *)
(***************************************************************************)
EXTENDS UsbHub, FiniteSetTheorems, WellFoundedInduction, TLAPS

PCs == {"idle", "woken", "zero", "next", "clear", "debounce", "reset", "resetEnd", "enable"}
WithPort == {"clear", "debounce", "reset", "resetEnd", "enable"}
Places == {"none", "first", "address", "config", "connect", "finish", "run", "fail"}
HubNames == {"root", "ext"}
PortsOf(h) == IF h = "root" THEN {RootPort} ELSE ExtPorts

TypeOK ==
  /\ plugged \in [Ports -> {"none", "hub", "disk"}] /\ change \subseteq Ports /\ enabled \subseteq Ports
  /\ connected \subseteq Ports /\ addr \in [Ports -> Addrs \cup {0}]
  /\ driver \in [Ports -> {"none", "hub", "disk"}] /\ instance \subseteq Ports /\ orphans \subseteq Ports
  /\ hubs \in Int /\ disks \in Int /\ used \subseteq Addrs /\ next \in Addrs
  /\ listening \in BOOLEAN /\ intin \in BOOLEAN
  /\ bits \in [HubNames -> SUBSET Ports] /\ \A h \in HubNames : bits[h] \subseteq PortsOf(h)
  /\ sem \in Nat /\ current \in HubNames
  /\ pc \in PCs /\ hub \in HubNames /\ todo \subseteq PortsOf(hub) /\ (pc \in WithPort => todo # {})
  /\ enum \in [Threads -> [pc : Places, port : Ports, addr : Addrs \cup {0}]]
  /\ owner \in [Ports -> Threads \cup {NoThread}]

\* The latest thread of a port is at work on that port.
OwnerRuns ==
  \A p \in Ports : owner[p] # NoThread => enum[owner[p]].pc # "none" /\ enum[owner[p]].port = p

\* What a port has not got yet while its thread is on the way to it.
Begun ==
  \A p \in Ports : owner[p] # NoThread =>
    /\ enum[owner[p]].pc \in {"first", "address", "config"} => addr[p] = 0
    /\ enum[owner[p]].pc \in {"first", "address", "config", "connect"} => p \notin instance

\* A driver is for a port that is connected, and a hub is at the root port only.
Drivers ==
  \A p \in Ports :
    /\ driver[p] # "none" => p \in connected
    /\ driver[p] = "hub" \/ plugged[p] = "hub" => p = RootPort
    /\ p \in instance => driver[p] # "none"

\* Address a is that of port p, or is being given to it.
Holds(p, a) ==
  \/ p \in connected /\ a = addr[p] /\ a # 0
  \/ owner[p] # NoThread /\ enum[owner[p]].pc = "config" /\ a = enum[owner[p]].addr

HoldersApart ==
  \A p \in Ports, a \in Addrs \cup {0} :
    Holds(p, a) => a \in used /\ \A q \in Ports : Holds(q, a) => p = q

\* the ports of a kind that have a class instance
Having(kind) == {p \in instance : driver[p] = kind}

Counted == disks = Cardinality(Having("disk")) /\ hubs = Cardinality(Having("hub"))
Listened == listening => RootPort \in Having("hub")

Core == OwnerRuns /\ Begun /\ Drivers /\ HoldersApart /\ Counted /\ Listened
-----------------------------------------------------------------------------
(* Helpers                                                                 *)

LEMMA NatMin ==
  ASSUME NEW T, T \subseteq Nat, T # {}
  PROVE  Min(T) \in T /\ \A y \in T : Min(T) <= y
<1> DEFINE R == {ss \in Nat \X Nat : ss[1] < ss[2]}
<1>1. IsWellFoundedOn(R, Nat)
  BY NatLessThanWellFounded DEF OpToRel
<1>2. PICK x \in T : \A y \in T : ~ (<<y, x>> \in R)
  BY <1>1, WFMin
<1>3. \A y \in T : ~(y < x)
  BY <1>2
<1>4. \A y \in T : x <= y
  BY <1>3
<1> QED BY <1>4 DEF Min

LEMMA PortFacts ==
  /\ Ports \subseteq Nat /\ RootPort \in Ports /\ RootPort \notin ExtPorts /\ ExtPorts \subseteq Ports
  /\ IsFiniteSet(Ports) /\ NoThread \notin Threads /\ Threads \subseteq Nat
  /\ Addrs \subseteq Nat /\ 0 \notin Addrs /\ 2 \in Addrs
<1>1. IsFiniteSet(ExtPorts \cup {RootPort})
  BY HubAssumption, FS_AddElement
<1>2. Ports = ExtPorts \cup {RootPort}
  BY DEF Ports
<1> QED BY <1>1, <1>2, HubAssumption DEF Ports, NoThread, Addrs

\* the port that the hub thread is at
LEMMA AtPort ==
  ASSUME TypeOK, todo # {}
  PROVE  Min(todo) \in todo /\ Min(todo) \in Ports /\ Min(todo) \in PortsOf(hub)
<1>1. todo \subseteq Ports
  BY PortFacts DEF TypeOK, PortsOf
<1> QED BY <1>1, NatMin, PortFacts DEF TypeOK

\* A hub's class driver is the hub's, and a disk's the disk's.
LEMMA DriverFits ==
  ASSUME NEW d \in {"hub", "disk"}
  PROVE  ClassDriver(DeviceKept(Identity(d), DeviceSize)) = d
<1> DEFINE device == Identity(d)
<1>1. DeviceKept(device, DeviceSize) = device
  BY DEF DeviceKept, Identity, DeviceSize
<1>2. DOMAIN ClassTable = {1, 2} /\ DOMAIN MatchLevels = {1, 2, 3, 4, 5}
  BY DEF ClassTable, MatchLevels
<1>3. /\ MatchLevels[1] = {"vendor", "product", "class", "subclass", "protocol"}
      /\ MatchLevels[2] = {"class", "subclass", "protocol"} /\ MatchLevels[3] = {"vendor", "product", "class"}
      /\ MatchLevels[4] = {"class", "subclass"} /\ MatchLevels[5] = {"class"}
  BY DEF MatchLevels
<1>4. /\ ClassTable[1].flags = {"class"} /\ ClassTable[1]["class"] = "hub" /\ ClassTable[1].driver = "hub"
      /\ ClassTable[2].flags = {"class", "subclass", "protocol"}
      /\ ClassTable[2]["class"] = "storage" /\ ClassTable[2]["subclass"] = "scsi"
      /\ ClassTable[2]["protocol"] = "bulkonly" /\ ClassTable[2].driver = "disk"
  BY DEF ClassTable
<1>5. /\ device["class"] = IF d = "hub" THEN "hub" ELSE "storage"
      /\ device["subclass"] = IF d = "hub" THEN "none" ELSE "scsi"
      /\ device["protocol"] = IF d = "hub" THEN "none" ELSE "bulkonly"
  BY DEF Identity
<1> HIDE DEF device
<1>6. Matches(ClassTable[1], device) <=> d = "hub"
  <2>1. MatchLevels[5] \subseteq ClassTable[1].flags
    BY <1>3, <1>4
  <2>2. /\ ~(MatchLevels[1] \subseteq ClassTable[1].flags) /\ ~(MatchLevels[2] \subseteq ClassTable[1].flags)
        /\ ~(MatchLevels[3] \subseteq ClassTable[1].flags) /\ ~(MatchLevels[4] \subseteq ClassTable[1].flags)
    BY <1>3, <1>4
  <2>3. \A m \in 1..(5 - 1) : ~(MatchLevels[m] \subseteq ClassTable[1].flags)
    BY <2>2
  <2>4. (\A field \in MatchLevels[5] : ClassTable[1][field] = device[field]) <=> d = "hub"
    BY <1>3, <1>4, <1>5
  <2> QED BY <1>2, <2>1, <2>2, <2>3, <2>4 DEF Matches
<1>7. Matches(ClassTable[2], device) <=> d = "disk"
  <2>1. MatchLevels[2] \subseteq ClassTable[2].flags
    BY <1>3, <1>4
  <2>2. ~(MatchLevels[1] \subseteq ClassTable[2].flags)
    BY <1>3, <1>4
  <2>3. \A m \in 1..(2 - 1) : ~(MatchLevels[m] \subseteq ClassTable[2].flags)
    BY <2>2
  <2>4. (\A field \in MatchLevels[2] : ClassTable[2][field] = device[field]) <=> d = "disk"
    BY <1>3, <1>4, <1>5
  <2>5. \A n \in {3, 4, 5} : 2 \in 1..(n - 1)
    OBVIOUS
  <2> QED BY <1>2, <2>1, <2>2, <2>3, <2>4, <2>5 DEF Matches
<1> DEFINE found == {n \in DOMAIN ClassTable : Matches(ClassTable[n], device)}
<1>8. found = IF d = "hub" THEN {1} ELSE {2}
  BY <1>2, <1>6, <1>7
<1>9. found # {} /\ Min(found) \in found
  BY <1>8, NatMin
<1>10. ClassDriver(device) = ClassTable[Min(found)].driver
  BY <1>9 DEF ClassDriver
<1> QED BY <1>1, <1>4, <1>8, <1>9, <1>10 DEF device
-----------------------------------------------------------------------------
(* Types                                                                   *)

WithHub(p) == p \in connected /\ p \in instance /\ driver[p] = "hub"
Wiped(p, new) == Gone(p) \cup {q \in Ports : (q = p /\ new) \/ (q \in ExtPorts /\ WithHub(p))}
Freed(p) == ({addr[q] : q \in Gone(p)} \ {0}) \ {MaxAddr}

\* What a release does, member by member.
LEMMA ReleaseDoes ==
  ASSUME TypeOK, NEW p \in Ports, NEW new \in BOOLEAN, Release(p, new)
  PROVE  /\ Gone(p) \subseteq connected /\ Gone(p) \subseteq Ports /\ Wiped(p, new) \subseteq Ports
         /\ connected' = (connected \ Gone(p)) \cup (IF new THEN {p} ELSE {})
         /\ \A q \in Ports : /\ addr'[q] = IF q \in Wiped(p, new) THEN 0 ELSE addr[q]
                             /\ driver'[q] = IF q \in Wiped(p, new) THEN "none" ELSE driver[q]
         /\ instance' = instance \ Wiped(p, new)
         /\ used' = used \ Freed(p)
         /\ disks' = disks - DisksFreed(Gone(p))
         /\ WithHub(p) => hubs' = 0 /\ orphans' = ExtPorts /\ listening' = FALSE /\ intin' = FALSE
         /\ ~WithHub(p) => UNCHANGED <<hubs, orphans, listening, intin>>
<1>1. Gone(p) \subseteq connected /\ Gone(p) \subseteq Ports /\ (p \in Gone(p) <=> p \in connected)
  BY DEF Gone, TypeOK
<1>2. Wiped(p, new) = Gone(p) \cup {q \in Ports : (q = p /\ new) \/ (q \in ExtPorts /\ p \in Gone(p) \cap instance /\ driver[p] = "hub")}
  BY <1>1 DEF Wiped, WithHub
<1> HIDE DEF Wiped
<1>3. /\ connected' = (connected \ Gone(p)) \cup (IF new THEN {p} ELSE {})
      /\ addr' = [q \in Ports |-> IF q \in Wiped(p, new) THEN 0 ELSE addr[q]]
      /\ driver' = [q \in Ports |-> IF q \in Wiped(p, new) THEN "none" ELSE driver[q]]
      /\ instance' = instance \ Wiped(p, new)
      /\ FreeDevaddr(Gone(p)) /\ MscClassFree(DisksFreed(Gone(p)))
  BY <1>2 DEF Release
<1>4. used' = used \ Freed(p) /\ disks' = disks - DisksFreed(Gone(p))
  BY <1>3 DEF FreeDevaddr, Free, MscClassFree, Freed
<1>5. /\ WithHub(p) => hubs' = 0 /\ orphans' = ExtPorts /\ listening' = FALSE /\ intin' = FALSE
      /\ ~WithHub(p) => UNCHANGED <<hubs, orphans, listening, intin>>
  BY <1>1 DEF Release, HubClassFree, WithHub
<1> QED BY <1>1, <1>2, <1>3, <1>4, <1>5

LEMMA ReleaseTypes ==
  ASSUME TypeOK, NEW p \in Ports, NEW new \in BOOLEAN, Release(p, new)
  PROVE  /\ connected' \subseteq Ports /\ addr' \in [Ports -> Addrs \cup {0}]
         /\ driver' \in [Ports -> {"none", "hub", "disk"}] /\ instance' \subseteq Ports /\ orphans' \subseteq Ports
         /\ hubs' \in Int /\ disks' \in Int /\ used' \subseteq Addrs /\ next' \in Addrs
         /\ listening' \in BOOLEAN /\ intin' \in BOOLEAN
<1>1. addr' \in [Ports -> Addrs \cup {0}] /\ driver' \in [Ports -> {"none", "hub", "disk"}]
  BY DEF Release, TypeOK
<1>2. DisksFreed(Gone(p)) \in Nat
  <2>1. IsFiniteSet({q \in Gone(p) \cap instance : driver[q] = "disk"})
    BY PortFacts, FS_Subset DEF TypeOK
  <2> QED BY <2>1, FS_CardinalityType DEF DisksFreed
<1>3. next' \in Addrs
  <2> DEFINE freed == ({addr[q] : q \in Gone(p)} \ {0}) \ {MaxAddr}
  <2>1. freed \subseteq Addrs
    BY DEF Gone, TypeOK
  <2>2. next' = Min(freed \cup {next})
    BY DEF Release, FreeDevaddr, Free
  <2> HIDE DEF freed
  <2>3. freed \cup {next} \subseteq Addrs /\ freed \cup {next} \subseteq Nat /\ freed \cup {next} # {}
    BY <2>1, PortFacts DEF TypeOK
  <2> QED BY <2>2, <2>3, NatMin
<1>4. orphans' \subseteq Ports /\ hubs' \in Int /\ listening' \in BOOLEAN /\ intin' \in BOOLEAN
  <2>1. CASE WithHub(p)
    <3>1. hubs' = 0 /\ orphans' = ExtPorts /\ listening' = FALSE /\ intin' = FALSE
      BY <2>1, ReleaseDoes
    <3>2. ExtPorts \subseteq Ports
      BY DEF Ports
    <3>3. orphans' \subseteq Ports
      BY <3>1, <3>2
    <3>4. hubs' \in Int
      BY <3>1
    <3>5. listening' \in BOOLEAN /\ intin' \in BOOLEAN
      BY <3>1
    <3> QED BY <3>3, <3>4, <3>5
  <2>2. CASE ~WithHub(p)
    <3>1. UNCHANGED <<hubs, orphans, listening, intin>>
      BY <2>2, ReleaseDoes
    <3> QED BY <3>1 DEF TypeOK
  <2> QED BY <2>1, <2>2
<1>5. disks' \in Int
  <2>1. disks' = disks - DisksFreed(Gone(p))
    BY ReleaseDoes
  <2> QED BY <1>2, <2>1 DEF TypeOK
<1>6. connected' \subseteq Ports /\ instance' \subseteq Ports /\ used' \subseteq Addrs
  <2>1. connected \subseteq Ports /\ instance \subseteq Ports /\ used \subseteq Addrs
    BY DEF TypeOK
  <2>2. connected' = (connected \ Gone(p)) \cup (IF new THEN {p} ELSE {})
    BY ReleaseDoes
  <2>3. instance' = instance \ Wiped(p, new) /\ used' = used \ Freed(p)
    BY ReleaseDoes
  <2>4. connected' \subseteq Ports
    BY <2>1, <2>2
  <2> QED BY <2>1, <2>3, <2>4
<1> QED BY <1>1, <1>3, <1>4, <1>5, <1>6

LEMMA TypeInit == Init => TypeOK
<1> SUFFICES ASSUME Init PROVE TypeOK
  OBVIOUS
<1>1. PICK root \in {"none", "disk", "hub"}, behind \in SUBSET ExtPorts :
        /\ plugged = [p \in Ports |-> IF p = RootPort THEN root ELSE IF p \in behind THEN "disk" ELSE "none"]
        /\ change = behind \cup (IF root = "none" THEN {} ELSE {RootPort})
        /\ bits = [h \in {"root", "ext"} |-> IF h = "root" THEN change \cap {RootPort} ELSE {}]
        /\ sem = IF root = "none" THEN 0 ELSE 1
  BY DEF Init
<1>2. plugged \in [Ports -> {"none", "hub", "disk"}] /\ change \subseteq Ports /\ sem \in Nat
  BY <1>1, PortFacts
<1>3. bits \in [HubNames -> SUBSET Ports] /\ \A h \in HubNames : bits[h] \subseteq PortsOf(h)
  BY <1>1, PortFacts DEF HubNames, PortsOf
<1>4. enum \in [Threads -> [pc : Places, port : Ports, addr : Addrs \cup {0}]]
  BY PortFacts DEF Init, NotRunning, Places
<1>5. used \subseteq Addrs /\ next \in Addrs
  <2>1. used = {} /\ next = 2
    BY DEF Init, DevgenInit
  <2>2. 2 \in Addrs
    BY HubAssumption DEF Addrs
  <2>3. used \subseteq Addrs
    BY <2>1
  <2>4. next \in Addrs
    BY <2>1, <2>2
  <2> QED BY <2>3, <2>4
<1>6. /\ enabled \subseteq Ports /\ connected \subseteq Ports /\ instance \subseteq Ports
      /\ addr \in [Ports -> Addrs \cup {0}] /\ driver \in [Ports -> {"none", "hub", "disk"}]
      /\ hubs \in Int /\ disks \in Int /\ owner \in [Ports -> Threads \cup {NoThread}]
  BY DEF Init
<1>7. orphans \subseteq Ports
  BY DEF Init, Ports
<1>8. /\ current \in HubNames /\ pc \in PCs /\ hub \in HubNames /\ todo = {} /\ pc \notin WithPort
      /\ listening \in BOOLEAN /\ intin \in BOOLEAN
  BY DEF Init, PCs, WithPort, HubNames
<1> QED BY <1>2, <1>3, <1>4, <1>5, <1>6, <1>7, <1>8 DEF TypeOK

LEMMA TypeWakeup ==
  ASSUME TypeOK, NEW h \in HubNames, NEW ports, ports \subseteq PortsOf(h), Wakeup(h, ports)
  PROVE  /\ bits' \in [HubNames -> SUBSET Ports] /\ \A g \in HubNames : bits'[g] \subseteq PortsOf(g)
         /\ sem' \in Nat /\ current' \in HubNames
<1>1. ports \subseteq Ports
  BY PortFacts DEF PortsOf
<1>2. bits' = [bits EXCEPT ![h] = bits[h] \cup ports]
  BY DEF Wakeup
<1>3. bits' \in [HubNames -> SUBSET Ports] /\ \A g \in HubNames : bits'[g] \subseteq PortsOf(g)
  BY <1>1, <1>2 DEF TypeOK
<1>4. sem' \in Nat /\ current' \in HubNames
  BY DEF Wakeup, TypeOK
<1> QED BY <1>3, <1>4

LEMMA TypeHubThread ==
  ASSUME TypeOK, HubThread
  PROVE  TypeOK'
<1> USE DEF Running, HubAt, HubGoes
<1>1. CASE Take
  BY <1>1 DEF Take, TypeOK, PCs, WithPort, busVars, portVars, hportVars, devgen, extVars, enumVars
<1>2. CASE Look
  <2>1. bits[current] \subseteq PortsOf(current) /\ current \in HubNames
    BY DEF TypeOK
  <2> QED BY <1>2, <2>1 DEF Look, TypeOK, PCs, WithPort, busVars, portVars, hportVars, devgen, extVars, reportVars, enumVars
<1>3. CASE Zero
  <2>1. bits' \in [HubNames -> SUBSET Ports] /\ \A h \in HubNames : bits'[h] \subseteq PortsOf(h)
    BY <1>3 DEF Zero, TypeOK
  <2> QED BY <1>3, <2>1 DEF Zero, TypeOK, PCs, WithPort, busVars, portVars, hportVars, devgen, extVars, enumVars
<1>4. CASE LastPort
  BY <1>4 DEF LastPort, Listen, TypeOK, PCs, WithPort, HubNames, busVars, portVars, hportVars, devgen, reportVars, enumVars
<1>5. CASE Status
  BY <1>5 DEF Status, NextTodo, TypeOK, PCs, WithPort, busVars, portVars, hportVars, devgen, extVars, reportVars, enumVars
<1>6. CASE Clear
  BY <1>6 DEF Clear, ClearFeature, ChangeCleared, TypeOK, PCs, WithPort, portVars, hportVars, devgen, extVars, reportVars, enumVars
<1>7. CASE Debounced
  <2> DEFINE p == Min(todo)
  <2>1. p \in Ports
    BY <1>7, AtPort DEF Debounced, TypeOK, WithPort
  <2>2. change' \subseteq Ports
    BY <1>7 DEF Debounced, ClearFeature, ChangeCleared, TypeOK
  <2>3. UNCHANGED <<plugged, enabled, bits, sem, current, hub, enum, owner>>
    BY <1>7 DEF Debounced, reportVars, enumVars
  <2>4. CASE PortStatus(p).connection
    BY <1>7, <2>2, <2>3, <2>4 DEF Debounced, TypeOK, PCs, WithPort, portVars, hportVars, devgen, extVars
  <2>5. CASE ~PortStatus(p).connection
    <3>1. Release(p, FALSE) /\ NextTodo
      BY <1>7, <2>5 DEF Debounced
    <3>2. /\ connected' \subseteq Ports /\ addr' \in [Ports -> Addrs \cup {0}]
          /\ driver' \in [Ports -> {"none", "hub", "disk"}] /\ instance' \subseteq Ports /\ orphans' \subseteq Ports
          /\ hubs' \in Int /\ disks' \in Int /\ used' \subseteq Addrs /\ next' \in Addrs
          /\ listening' \in BOOLEAN /\ intin' \in BOOLEAN
      BY <2>1, <3>1, ReleaseTypes
    <3>3. todo' \subseteq PortsOf(hub) /\ pc' = "next"
      BY <3>1 DEF NextTodo, TypeOK
    <3> QED BY <2>2, <2>3, <3>2, <3>3 DEF TypeOK, PCs, WithPort
  <2> QED BY <2>4, <2>5
<1>8. CASE DebounceFails
  BY <1>8 DEF DebounceFails, TypeOK, PCs, WithPort, busVars, portVars, hportVars, devgen, extVars, reportVars, enumVars
<1>9. CASE Reset
  BY <1>9 DEF Reset, SetReset, NextTodo, WrittenBack, TypeOK, PCs, WithPort, portVars, hportVars, devgen, extVars, reportVars, enumVars
<1>10. CASE ResetEnd
  <2>1. Min(todo) \in Ports
    BY <1>10, AtPort DEF ResetEnd, TypeOK, WithPort
  <2> QED BY <1>10, <2>1 DEF ResetEnd, WrittenBack, TypeOK, PCs, WithPort, portVars, hportVars, devgen, extVars, reportVars, enumVars
<1>11. CASE Enable
  <2> DEFINE p == Min(todo)
             new == PortStatus(p).enable
             spare == {t \in Threads : enum[t] = NotRunning}
  <2>1. p \in Ports
    BY <1>11, AtPort DEF Enable, TypeOK, WithPort
  <2>2. UNCHANGED <<plugged, change, enabled, bits, sem, current, hub>> /\ todo' \subseteq PortsOf(hub) /\ pc' = "next"
    BY <1>11 DEF Enable, NextTodo, TypeOK, busVars, reportVars
  <2>3. CASE UNCHANGED <<portVars, extVars, enumVars>>
    BY <2>2, <2>3 DEF TypeOK, PCs, WithPort, portVars, hportVars, devgen, extVars, enumVars
  <2>4. CASE ~UNCHANGED <<portVars, extVars, enumVars>>
    <3>1. Release(p, new) /\ new \in BOOLEAN
      BY <1>11, <2>4 DEF Enable, PortStatus
    <3>2. /\ connected' \subseteq Ports /\ addr' \in [Ports -> Addrs \cup {0}]
          /\ driver' \in [Ports -> {"none", "hub", "disk"}] /\ instance' \subseteq Ports /\ orphans' \subseteq Ports
          /\ hubs' \in Int /\ disks' \in Int /\ used' \subseteq Addrs /\ next' \in Addrs
          /\ listening' \in BOOLEAN /\ intin' \in BOOLEAN
      BY <2>1, <3>1, ReleaseTypes
    <3>3. enum' \in [Threads -> [pc : Places, port : Ports, addr : Addrs \cup {0}]] /\ owner' \in [Ports -> Threads \cup {NoThread}]
      <4>1. CASE ~new
        BY <1>11, <2>4, <4>1 DEF Enable, TypeOK, enumVars
      <4>2. CASE new
        <5>1. /\ spare # {}
              /\ enum' = [enum EXCEPT ![Min(spare)] = [pc |-> "first", port |-> p, addr |-> 0]]
              /\ owner' = [owner EXCEPT ![p] = Min(spare)]
          BY <1>11, <2>4, <4>2 DEF Enable
        <5>2. Min(spare) \in Threads
          BY <5>1, NatMin, PortFacts
        <5>3. [pc |-> "first", port |-> p, addr |-> 0] \in [pc : Places, port : Ports, addr : Addrs \cup {0}]
          BY <2>1 DEF Places
        <5> HIDE DEF spare
        <5> QED BY <2>1, <5>1, <5>2, <5>3 DEF TypeOK
      <4> QED BY <4>1, <4>2
    <3> QED BY <2>2, <3>2, <3>3 DEF TypeOK, PCs, WithPort
  <2> QED BY <2>3, <2>4
<1> QED BY <1>1, <1>2, <1>3, <1>4, <1>5, <1>6, <1>7, <1>8, <1>9, <1>10, <1>11 DEF HubThread

EnumTypes == [pc : Places, port : Ports, addr : Addrs \cup {0}]

LEMMA TypeEnum ==
  ASSUME TypeOK, NEW t \in Threads
  PROVE  /\ enum[t] \in EnumTypes /\ enum[t].port \in Ports /\ enum[t].addr \in Addrs \cup {0}
         /\ \A where \in Places : EnumGoes(t, where) => enum' \in [Threads -> EnumTypes]
         /\ EnumEnds(t) => enum' \in [Threads -> EnumTypes] /\ owner' \in [Ports -> Threads \cup {NoThread}]
<1>1. enum[t] \in EnumTypes /\ enum \in [Threads -> EnumTypes]
  BY DEF TypeOK, EnumTypes
<1>2. enum[t].port \in Ports /\ enum[t].addr \in Addrs \cup {0}
  BY <1>1 DEF EnumTypes
<1>3. ASSUME NEW where \in Places, EnumGoes(t, where)
      PROVE  enum' \in [Threads -> EnumTypes]
  <2>1. enum' = [enum EXCEPT ![t].pc = where]
    BY <1>3 DEF EnumGoes
  <2>2. [enum[t] EXCEPT !.pc = where] \in EnumTypes
    BY <1>1 DEF EnumTypes
  <2> QED BY <1>1, <2>1, <2>2
<1>4. ASSUME EnumEnds(t)
      PROVE  enum' \in [Threads -> EnumTypes] /\ owner' \in [Ports -> Threads \cup {NoThread}]
  <2>1. NotRunning \in EnumTypes
    BY PortFacts DEF NotRunning, EnumTypes, Places
  <2> QED BY <1>1, <1>4, <2>1 DEF EnumEnds, TypeOK
<1> QED BY <1>1, <1>2, <1>3, <1>4

LEMMA TypeEnumThread ==
  ASSUME TypeOK, NEW t \in Threads, EnumThread(t)
  PROVE  TypeOK'
<1> DEFINE p == enum[t].port
<1>0. p \in Ports /\ enum[t].addr \in Addrs \cup {0}
  BY TypeEnum
<1> USE DEF busVars, portVars, hportVars, devgen, extVars, reportVars, threadVars, enumVars, noteVars
<1> HIDE DEF p
<1>1. ASSUME NEW why, Break(why)
      PROVE  TypeOK'
  BY <1>1 DEF Break, TypeOK
<1>2. CASE First(t)
  <2>1. CASE p \in orphans
    BY <1>1, <1>2, <2>1 DEF First, p
  <2>2. CASE p \notin orphans
    <3>1. /\ addr' = [addr EXCEPT ![p] = 0] /\ Transfer(t, "address")
          /\ UNCHANGED <<busVars, connected, driver, instance, orphans, hubs, disks, used,
                         next, extVars, reportVars, threadVars, owner>>
      BY <1>2, <2>2 DEF First, p
    <3>2. enum' \in [Threads -> EnumTypes]
      <4>1. EnumGoes(t, "address") \/ EnumGoes(t, "fail")
        BY <3>1 DEF Transfer
      <4> QED BY <4>1, TypeEnum DEF Places
    <3>3. addr' \in [Ports -> Addrs \cup {0}]
      BY <3>1 DEF TypeOK
    <3> QED BY <3>1, <3>2, <3>3 DEF TypeOK, EnumTypes
  <2> QED BY <2>1, <2>2
<1>3. CASE Address(t)
  <2>1. next' \in Addrs
    BY <1>3, HubAssumption DEF Address, Successor, TypeOK, Addrs
  <2>2. UNCHANGED <<busVars, connected, addr, driver, instance, orphans, hubs, disks, extVars, reportVars, threadVars>>
    BY <1>3 DEF Address
  <2>3. CASE HintTaken
    <3>1. EnumEnds(t) /\ UNCHANGED used
      BY <1>3, <2>3 DEF Address
    <3>2. enum' \in [Threads -> EnumTypes] /\ owner' \in [Ports -> Threads \cup {NoThread}]
      BY <3>1, TypeEnum
    <3> QED BY <2>1, <2>2, <3>1, <3>2 DEF TypeOK, EnumTypes
  <2>4. CASE ~HintTaken
    <3>1. /\ used' = used \cup {next} /\ UNCHANGED owner
          /\ enum' = [enum EXCEPT ![t].pc = "config", ![t].addr = next] \/ EnumGoes(t, "fail")
      BY <1>3, <2>4 DEF Address
    <3>2. enum' \in [Threads -> EnumTypes]
      <4>1. CASE EnumGoes(t, "fail")
        BY <4>1, TypeEnum DEF Places
      <4>2. CASE enum' = [enum EXCEPT ![t].pc = "config", ![t].addr = next]
        <5>1. enum[t] \in EnumTypes
          BY TypeEnum
        <5>2. [enum[t] EXCEPT !.pc = "config", !.addr = next] \in EnumTypes
          BY <5>1 DEF EnumTypes, TypeOK, Places
        <5> QED BY <4>2, <5>2 DEF TypeOK, EnumTypes
      <4> QED BY <3>1, <4>1, <4>2
    <3>3. used' \subseteq Addrs
      BY <3>1 DEF TypeOK
    <3> QED BY <2>1, <2>2, <3>1, <3>2, <3>3 DEF TypeOK, EnumTypes
  <2> QED BY <2>3, <2>4
<1>4. CASE Config(t)
  <2>1. /\ addr' = [addr EXCEPT ![p] = enum[t].addr]
        /\ UNCHANGED <<busVars, connected, instance, orphans, hubs, disks, used, next,
                       extVars, reportVars, threadVars, owner>>
    BY <1>4 DEF Config, p
  <2>2. EnumGoes(t, "connect") \/ EnumGoes(t, "fail")
    BY <1>4 DEF Config
  <2>3. enum' \in [Threads -> EnumTypes]
    BY <2>2, TypeEnum DEF Places
  <2>4. driver' \in [Ports -> {"none", "hub", "disk"}]
    <3>1. CASE UNCHANGED driver
      BY <3>1 DEF TypeOK
    <3>2. CASE ~UNCHANGED driver
      <4>1. Answered(p) /\ driver' = [driver EXCEPT ![p] = ClassDriver(DeviceKept(Identity(plugged[p]), DeviceSize))]
        BY <1>4, <3>2 DEF Config, p
      <4>2. plugged[p] \in {"hub", "disk"}
        BY <1>0, <4>1 DEF Answered, Reached, TypeOK
      <4>3. ClassDriver(DeviceKept(Identity(plugged[p]), DeviceSize)) = plugged[p]
        BY <4>2, DriverFits
      <4> QED BY <1>0, <4>1, <4>2, <4>3 DEF TypeOK
    <3> QED BY <3>1, <3>2
  <2>5. addr' \in [Ports -> Addrs \cup {0}]
    BY <1>0, <2>1 DEF TypeOK
  <2> QED BY <2>1, <2>3, <2>4, <2>5 DEF TypeOK, EnumTypes
<1>5. CASE Connect(t)
  <2>1. UNCHANGED <<busVars, connected, addr, driver, used, next, extVars, reportVars, threadVars>>
    BY <1>5 DEF Connect
  <2>2. instance' \subseteq Ports /\ orphans' \subseteq Ports /\ hubs' \in Int /\ disks' \in Int
    BY <1>0, <1>5 DEF Connect, TypeOK, p
  <2>3. EnumEnds(t) \/ (UNCHANGED owner /\ (EnumGoes(t, "fail") \/ EnumGoes(t, "finish")))
    BY <1>5 DEF Connect, Transfer
  <2>4. enum' \in [Threads -> EnumTypes] /\ owner' \in [Ports -> Threads \cup {NoThread}]
    BY <2>3, TypeEnum DEF Places, TypeOK
  <2> QED BY <2>1, <2>2, <2>4 DEF TypeOK, EnumTypes
<1>6. CASE Finish(t)
  <2>1. CASE p \notin instance
    BY <1>1, <1>6, <2>1 DEF Finish, p
  <2>2. CASE p \in instance
    <3>1. UNCHANGED <<busVars, portVars, reportVars, threadVars>>
      BY <1>6, <2>2 DEF Finish, p
    <3>2. IF driver[p] = "hub"
          THEN listening' = TRUE /\ intin' = (p \in connected) /\ EnumEnds(t)
          ELSE EnumGoes(t, "run") /\ UNCHANGED <<extVars, owner>>
      BY <1>6, <2>2 DEF Finish, p
    <3>3. listening' \in BOOLEAN
      BY <3>2 DEF TypeOK
    <3>4. intin' \in BOOLEAN
      <4>1. CASE driver[p] = "hub" /\ p \in connected
        BY <3>2, <4>1
      <4>2. CASE driver[p] = "hub" /\ p \notin connected
        BY <3>2, <4>2
      <4>3. CASE driver[p] # "hub"
        BY <3>2, <4>3 DEF TypeOK
      <4> QED BY <4>1, <4>2, <4>3
    <3>5. EnumEnds(t) \/ (EnumGoes(t, "run") /\ UNCHANGED owner)
      BY <3>2
    <3>6. enum' \in [Threads -> EnumTypes] /\ owner' \in [Ports -> Threads \cup {NoThread}]
      BY <3>5, TypeEnum DEF Places, TypeOK
    <3> QED BY <3>1, <3>3, <3>4, <3>6 DEF TypeOK, EnumTypes
  <2> QED BY <2>1, <2>2
<1>7. CASE Run(t)
  <2>1. CASE p \notin instance
    BY <1>1, <1>7, <2>1 DEF Run, p
  <2>2. CASE p \in instance
    <3>1. EnumEnds(t) /\ UNCHANGED <<busVars, portVars, extVars, reportVars, threadVars>>
      BY <1>7, <2>2 DEF Run, p
    <3>2. enum' \in [Threads -> EnumTypes] /\ owner' \in [Ports -> Threads \cup {NoThread}]
      BY <3>1, TypeEnum
    <3> QED BY <3>1, <3>2 DEF TypeOK, EnumTypes
  <2> QED BY <2>1, <2>2
<1>8. CASE Fail(t)
  <2>1. Release(p, FALSE) /\ EnumEnds(t) /\ UNCHANGED <<busVars, reportVars, threadVars>>
    BY <1>8 DEF Fail, p
  <2>2. /\ connected' \subseteq Ports /\ addr' \in [Ports -> Addrs \cup {0}]
        /\ driver' \in [Ports -> {"none", "hub", "disk"}] /\ instance' \subseteq Ports /\ orphans' \subseteq Ports
        /\ hubs' \in Int /\ disks' \in Int /\ used' \subseteq Addrs /\ next' \in Addrs
        /\ listening' \in BOOLEAN /\ intin' \in BOOLEAN
    BY <1>0, <2>1, ReleaseTypes
  <2>3. enum' \in [Threads -> EnumTypes] /\ owner' \in [Ports -> Threads \cup {NoThread}]
    BY <2>1, TypeEnum
  <2> QED BY <2>1, <2>2, <2>3 DEF TypeOK, EnumTypes
<1>9. CASE Replaced(t)
  BY <1>1, <1>9 DEF Replaced
<1> QED BY <1>2, <1>3, <1>4, <1>5, <1>6, <1>7, <1>8, <1>9 DEF EnumThread

LEMMA TypeStep ==
  ASSUME TypeOK, [Next]_vars
  PROVE  TypeOK'
<1> USE DEF busVars, portVars, hportVars, devgen, extVars, reportVars, threadVars, enumVars, noteVars
<1>1. CASE HubReports
  <2>1. UNCHANGED <<busVars, portVars, listening, threadVars, enumVars>> /\ intin' = FALSE
    BY <1>1 DEF HubReports
  <2>2. CASE HubThere
    <3>1. Wakeup("ext", change \cap ExtPorts)
      BY <1>1, <2>2 DEF HubReports
    <3>2. "ext" \in HubNames /\ change \cap ExtPorts \subseteq PortsOf("ext")
      BY DEF HubNames, PortsOf
    <3>3. /\ bits' \in [HubNames -> SUBSET Ports] /\ \A g \in HubNames : bits'[g] \subseteq PortsOf(g)
          /\ sem' \in Nat /\ current' \in HubNames
      BY <3>1, <3>2, TypeWakeup
    <3> QED BY <2>1, <3>3 DEF TypeOK
  <2>3. CASE ~HubThere
    <3>1. UNCHANGED reportVars
      BY <1>1, <2>3 DEF HubReports
    <3> QED BY <2>1, <3>1 DEF TypeOK
  <2> QED BY <2>2, <2>3
<1>2. ASSUME NEW p \in Ports, Replug(p)
      PROVE  TypeOK'
  <2>1. PICK d \in {"none", "disk", "hub"} :
          /\ plugged' = [q \in Ports |-> IF q = p THEN d ELSE IF p = RootPort THEN "none" ELSE plugged[q]]
          /\ change' = (IF p = RootPort THEN {} ELSE change) \cup {p}
          /\ enabled' = (IF p = RootPort THEN {} ELSE enabled \ {p})
          /\ UNCHANGED <<portVars, extVars, threadVars, enumVars>>
          /\ IF p = RootPort /\ p \notin change THEN Wakeup("root", {p}) ELSE UNCHANGED <<reportVars, lost>>
    BY <1>2 DEF Replug
  <2>2. plugged' \in [Ports -> {"none", "hub", "disk"}] /\ change' \subseteq Ports /\ enabled' \subseteq Ports
    BY <2>1 DEF TypeOK
  <2>3. /\ bits' \in [HubNames -> SUBSET Ports] /\ \A g \in HubNames : bits'[g] \subseteq PortsOf(g)
        /\ sem' \in Nat /\ current' \in HubNames
    <3>1. CASE p = RootPort /\ p \notin change
      <4>1. Wakeup("root", {p}) /\ {p} \subseteq PortsOf("root") /\ "root" \in HubNames
        BY <2>1, <3>1 DEF PortsOf, HubNames
      <4> QED BY <4>1, TypeWakeup
    <3>2. CASE ~(p = RootPort /\ p \notin change)
      <4>1. UNCHANGED <<reportVars, lost>>
        BY <2>1, <3>2
      <4> QED BY <4>1 DEF TypeOK
    <3> QED BY <3>1, <3>2
  <2> QED BY <2>1, <2>2, <2>3 DEF TypeOK
<1>3. CASE UNCHANGED vars
  BY <1>3 DEF vars, TypeOK
<1> QED BY <1>1, <1>2, <1>3, TypeHubThread, TypeEnumThread DEF Next, SomeThread
-----------------------------------------------------------------------------
(* The threads, the addresses and the class instances                      *)

LEMMA HavingFacts ==
  ASSUME TypeOK, Drivers
  PROVE  /\ IsFiniteSet(Having("disk")) /\ IsFiniteSet(Having("hub")) /\ instance \subseteq connected
         /\ Having("hub") \subseteq {RootPort}
<1>1. IsFiniteSet(Ports)
  BY PortFacts
<1>2. Having("disk") \subseteq Ports /\ Having("hub") \subseteq Ports
  BY DEF Having, TypeOK
<1>3. instance \subseteq connected
  BY DEF Drivers, TypeOK
<1>4. Having("hub") \subseteq {RootPort}
  BY <1>2 DEF Having, Drivers
<1>5. IsFiniteSet(Having("disk")) /\ IsFiniteSet(Having("hub"))
  BY <1>1, <1>2, FS_Subset
<1> QED BY <1>3, <1>4, <1>5

LEMMA CoreInit == Init => Core
<1> SUFFICES ASSUME Init PROVE Core
  OBVIOUS
<1>1. /\ \A p \in Ports : owner[p] = NoThread /\ driver[p] = "none"
      /\ connected = {} /\ instance = {} /\ hubs = 0 /\ disks = 0 /\ listening = FALSE
  BY DEF Init
<1>2. \A p \in Ports : plugged[p] = "hub" => p = RootPort
  BY DEF Init
<1>3. OwnerRuns /\ Begun /\ Drivers /\ Listened
  BY <1>1, <1>2 DEF OwnerRuns, Begun, Drivers, Listened
<1>4. HoldersApart
  BY <1>1 DEF HoldersApart, Holds
<1>5. Having("disk") = {} /\ Having("hub") = {}
  BY <1>1 DEF Having
<1>6. Counted
  BY <1>1, <1>5, FS_EmptySet DEF Counted
<1> QED BY <1>3, <1>4, <1>6 DEF Core

\* a step that leaves the ports' devices, the addresses and the threads alone
LEMMA QuietKeeps ==
  ASSUME TypeOK, Core, UNCHANGED <<connected, addr, driver, instance, hubs, disks, used, listening, enum, owner>>,
         \A p \in Ports : plugged'[p] = "hub" => p = RootPort
  PROVE  Core'
<1>1. OwnerRuns' /\ Begun' /\ Drivers'
  BY DEF Core, OwnerRuns, Begun, Drivers
<1>2. \A p, a : Holds(p, a)' <=> Holds(p, a)
  BY DEF Holds
<1>3. HoldersApart'
  BY <1>2 DEF Core, HoldersApart
<1>4. Having("disk")' = Having("disk") /\ Having("hub")' = Having("hub")
  BY DEF Having
<1>5. Counted' /\ Listened'
  BY <1>4 DEF Core, Counted, Listened
<1> QED BY <1>1, <1>3, <1>5 DEF Core

\* Port q keeps its thread where it is, or it has just been given one.
SameThread(q) == owner'[q] = owner[q] /\ enum'[owner[q]] = enum[owner[q]]
NewThread(q) == enum'[owner'[q]] = [pc |-> "first", port |-> q, addr |-> 0]

LEMMA ReleaseKeeps ==
  ASSUME TypeOK, Core, NEW p \in Ports, NEW new \in BOOLEAN, Release(p, new), UNCHANGED plugged,
         \A q \in Ports : owner'[q] # NoThread => SameThread(q) \/ (q = p /\ new /\ NewThread(q))
  PROVE  Core'
<1>1. /\ Gone(p) \subseteq connected /\ Gone(p) \subseteq Ports /\ Wiped(p, new) \subseteq Ports
      /\ connected' = (connected \ Gone(p)) \cup (IF new THEN {p} ELSE {})
      /\ \A q \in Ports : /\ addr'[q] = IF q \in Wiped(p, new) THEN 0 ELSE addr[q]
                          /\ driver'[q] = IF q \in Wiped(p, new) THEN "none" ELSE driver[q]
      /\ instance' = instance \ Wiped(p, new)
      /\ used' = used \ Freed(p)
      /\ disks' = disks - DisksFreed(Gone(p))
  BY ReleaseDoes, ZenonT(30)
<1>2. /\ WithHub(p) => hubs' = 0 /\ listening' = FALSE
      /\ ~WithHub(p) => hubs' = hubs /\ listening' = listening
  BY ReleaseDoes
<1>3. Gone(p) \subseteq Wiped(p, new) /\ (new => p \in Wiped(p, new))
  BY DEF Wiped
<1>4. \A q \in Ports : NewThread(q) => /\ enum'[owner'[q]].pc = "first" /\ enum'[owner'[q]].port = q
  BY DEF NewThread
<1>5. OwnerRuns'
  BY <1>4 DEF Core, OwnerRuns, SameThread
<1>6. Begun'
  <2>1. SUFFICES ASSUME NEW q \in Ports, owner'[q] # NoThread
                 PROVE  /\ enum'[owner'[q]].pc \in {"first", "address", "config"} => addr'[q] = 0
                        /\ enum'[owner'[q]].pc \in {"first", "address", "config", "connect"} => q \notin instance'
    BY DEF Begun
  <2>2. CASE SameThread(q)
    BY <1>1, <2>1, <2>2 DEF Core, Begun, SameThread
  <2>3. CASE q = p /\ new
    BY <1>1, <1>3, <2>3
  <2> QED BY <2>1, <2>2, <2>3
<1>7. \A q \in Ports : q \in connected' /\ q \notin Wiped(p, new) => q \in connected /\ q \notin Gone(p)
  BY <1>1, <1>3
<1>8. Drivers'
  <2>1. \A q \in Ports : driver'[q] # "none" => q \in connected' /\ driver'[q] = driver[q]
    BY <1>1, <1>3 DEF Core, Drivers
  <2>2. \A q \in Ports : q \in instance' => driver'[q] # "none"
    BY <1>1 DEF Core, Drivers
  <2> QED BY <2>1, <2>2 DEF Core, Drivers
<1>9. HoldersApart'
  <2>1. \A q \in Ports : Begun => (owner[q] # NoThread /\ enum[owner[q]].pc = "config" => addr[q] = 0)
    BY DEF Begun
  <2>2. ASSUME NEW q \in Ports, NEW a \in Addrs \cup {0}, Holds(q, a)'
        PROVE  Holds(q, a) /\ a \notin Freed(p)
    <3>1. CASE q \in connected' /\ a = addr'[q] /\ a # 0
      <4>1. q \notin Wiped(p, new) /\ a = addr[q] /\ q \in connected /\ q \notin Gone(p)
        BY <1>1, <1>7, <3>1
      <4>2. Holds(q, a)
        BY <3>1, <4>1 DEF Holds
      <4>3. \A r \in Gone(p) : addr[r] # a
        <5>1. SUFFICES ASSUME NEW r \in Gone(p), addr[r] = a
                       PROVE  FALSE
          OBVIOUS
        <5>2. Holds(r, a) /\ r \in Ports
          BY <1>1, <3>1, <5>1 DEF Holds
        <5>3. q = r
          BY <4>2, <5>2 DEF Core, HoldersApart
        <5> QED BY <4>1, <5>1, <5>3
      <4> QED BY <4>2, <4>3 DEF Freed
    <3>2. CASE owner'[q] # NoThread /\ enum'[owner'[q]].pc = "config" /\ a = enum'[owner'[q]].addr
      <4>1. SameThread(q)
        BY <1>4, <3>2
      <4>2. owner[q] # NoThread /\ enum[owner[q]].pc = "config" /\ a = enum[owner[q]].addr
        BY <3>2, <4>1 DEF SameThread
      <4>3. Holds(q, a) /\ addr[q] = 0
        BY <2>1, <4>2 DEF Holds, Core
      <4>4. ASSUME NEW r \in Gone(p), addr[r] = a, a # 0
            PROVE  FALSE
        <5>1. Holds(r, a) /\ r \in Ports
          BY <1>1, <4>4 DEF Holds
        <5>2. q = r
          BY <4>3, <5>1 DEF Core, HoldersApart
        <5> QED BY <4>3, <4>4, <5>2
      <4> QED BY <4>3, <4>4 DEF Freed
    <3> QED BY <2>2, <3>1, <3>2 DEF Holds
  <2> QED BY <1>1, <2>2 DEF Core, HoldersApart
<1>10. instance \cap Wiped(p, new) = instance \cap Gone(p)
  <2>1. instance \subseteq connected
    BY HavingFacts DEF Core
  <2>2. p \in connected => p \in Gone(p)
    BY DEF Gone
  <2>3. WithHub(p) => \A q \in ExtPorts : q \in connected => q \in Gone(p)
    BY DEF Gone, WithHub
  <2> QED BY <2>1, <2>2, <2>3 DEF Wiped
<1>11. \A kind \in {"disk", "hub"} : Having(kind)' = Having(kind) \ Gone(p)
  BY <1>1, <1>10 DEF Having, TypeOK
<1>12. /\ ~WithHub(p) => RootPort \notin Having("hub") \cap Gone(p)
       /\ WithHub(p) => p = RootPort /\ p \in Gone(p)
  <2>1. p # RootPort => driver[p] # "hub"
    BY DEF Core, Drivers
  <2>2. p # RootPort => RootPort \notin Gone(p)
    BY <2>1 DEF Gone
  <2> QED BY <2>1, <2>2 DEF Gone, WithHub, Having
<1>13. Counted'
  <2>1. IsFiniteSet(Having("disk")) /\ Having("hub") \subseteq {RootPort}
    BY HavingFacts DEF Core
  <2>2. Cardinality(Having("disk") \ Gone(p)) = Cardinality(Having("disk")) - Cardinality(Having("disk") \cap Gone(p))
    BY <2>1, FS_Difference
  <2>3. {q \in Gone(p) \cap instance : driver[q] = "disk"} = Having("disk") \cap Gone(p)
    BY DEF Having
  <2>4. disks' = Cardinality(Having("disk")')
    BY <1>1, <1>11, <2>2, <2>3 DEF Core, Counted, DisksFreed
  <2>5. hubs' = Cardinality(Having("hub")')
    <3>1. CASE WithHub(p)
      <4>1. Having("hub")' = {}
        BY <1>11, <1>12, <2>1, <3>1
      <4> QED BY <1>2, <3>1, <4>1, FS_EmptySet
    <3>2. CASE ~WithHub(p)
      <4>1. Having("hub")' = Having("hub")
        BY <1>11, <1>12, <2>1, <3>2
      <4> QED BY <1>2, <3>2, <4>1 DEF Core, Counted
    <3> QED BY <3>1, <3>2
  <2> QED BY <2>4, <2>5 DEF Counted
<1>14. Listened'
  BY <1>2, <1>11, <1>12 DEF Core, Listened
<1> QED BY <1>5, <1>6, <1>8, <1>9, <1>13, <1>14 DEF Core

\* What a step of thread t changes of the threads: each other port keeps its own.
LEMMA ThreadSteps ==
  ASSUME TypeOK, OwnerRuns, NEW t \in Threads, Mine(t)
  PROVE  /\ enum[t].port \in Ports /\ owner[enum[t].port] # NoThread
         /\ \A q \in Ports : owner[q] = t <=> q = enum[t].port
         /\ \A where \in Places : EnumGoes(t, where) /\ UNCHANGED owner =>
              \A q \in Ports : owner[q] # NoThread =>
                /\ enum'[owner[q]].pc = IF q = enum[t].port THEN where ELSE enum[owner[q]].pc
                /\ enum'[owner[q]].port = enum[owner[q]].port /\ enum'[owner[q]].addr = enum[owner[q]].addr
         /\ EnumEnds(t) =>
              \A q \in Ports : /\ owner'[q] = IF q = enum[t].port THEN NoThread ELSE owner[q]
                               /\ owner'[q] # NoThread => SameThread(q)
<1>1. enum[t].port \in Ports /\ owner[enum[t].port] # NoThread
  BY TypeEnum, PortFacts DEF Mine
<1>2. \A q \in Ports : owner[q] = t <=> q = enum[t].port
  BY <1>1, PortFacts DEF Mine, OwnerRuns
<1>3. ASSUME NEW where \in Places, EnumGoes(t, where), NEW q \in Ports, owner[q] # NoThread
      PROVE  /\ enum'[owner[q]].pc = IF q = enum[t].port THEN where ELSE enum[owner[q]].pc
             /\ enum'[owner[q]].port = enum[owner[q]].port /\ enum'[owner[q]].addr = enum[owner[q]].addr
  <2>1. owner[q] \in Threads /\ enum[t] \in EnumTypes
    BY <1>3, TypeEnum DEF TypeOK
  <2>2. enum' = [enum EXCEPT ![t].pc = where] /\ enum \in [Threads -> EnumTypes]
    BY <1>3 DEF EnumGoes, TypeOK, EnumTypes
  <2>3. CASE q = enum[t].port
    <3>1. owner[q] = t
      BY <1>2, <2>3
    <3> QED BY <2>1, <2>2, <2>3, <3>1 DEF EnumTypes
  <2>4. CASE q # enum[t].port
    <3>1. owner[q] # t
      BY <1>2, <2>4
    <3> QED BY <2>1, <2>2, <2>4, <3>1
  <2> QED BY <2>3, <2>4
<1>4. ASSUME EnumEnds(t), NEW q \in Ports
      PROVE  /\ owner'[q] = IF q = enum[t].port THEN NoThread ELSE owner[q]
             /\ owner'[q] # NoThread => SameThread(q)
  <2>1. owner'[q] = IF q = enum[t].port THEN NoThread ELSE owner[q]
    BY <1>2, <1>4 DEF EnumEnds
  <2>2. ASSUME owner'[q] # NoThread
        PROVE  SameThread(q)
    <3>1. owner'[q] = owner[q] /\ owner[q] # t /\ owner[q] \in Threads
      BY <1>2, <2>1, <2>2 DEF TypeOK
    <3>2. enum'[owner[q]] = enum[owner[q]]
      BY <1>4, <3>1 DEF EnumEnds, TypeOK
    <3> QED BY <3>1, <3>2 DEF SameThread
  <2> QED BY <2>1, <2>2
<1> QED BY <1>1, <1>2, <1>3, <1>4

\* A thread ends, and no port's device, address or class instance changes.
LEMMA EndsKeeps ==
  ASSUME TypeOK, Core, NEW t \in Threads, Mine(t), EnumEnds(t),
         UNCHANGED <<plugged, connected, addr, driver, instance, hubs, disks, used>>, Listened'
  PROVE  Core'
<1>1. \A q \in Ports : owner'[q] # NoThread => SameThread(q)
  BY ThreadSteps DEF Core
<1>2. OwnerRuns'
  BY <1>1 DEF Core, OwnerRuns, SameThread
<1>3. Begun' /\ Drivers'
  BY <1>1 DEF Core, Begun, SameThread, Drivers
<1>4. \A q \in Ports, a \in Addrs \cup {0} : Holds(q, a)' => Holds(q, a)
  BY <1>1 DEF Holds, SameThread
<1>5. HoldersApart'
  BY <1>4 DEF Core, HoldersApart
<1>6. Having("disk")' = Having("disk") /\ Having("hub")' = Having("hub")
  BY DEF Having
<1>7. Counted'
  BY <1>6 DEF Core, Counted
<1> QED BY <1>2, <1>3, <1>5, <1>7 DEF Core

\* A thread goes on to where it holds no address that is not its port's.
LEMMA GoesKeeps ==
  ASSUME TypeOK, Core, NEW t \in Threads, Mine(t), NEW where \in {"address", "connect", "finish", "run", "fail"},
         EnumGoes(t, where), UNCHANGED <<plugged, connected, owner>>,
         where = "address" => addr'[enum[t].port] = 0,
         where \in {"address", "connect"} => enum[t].port \notin instance',
         \A q \in Ports \ {enum[t].port} : addr'[q] = addr[q] /\ (q \in instance' <=> q \in instance),
         \A a \in Addrs : addr'[enum[t].port] = a => addr[enum[t].port] = a \/ Holds(enum[t].port, a),
         used \subseteq used', Drivers', Counted', Listened'
  PROVE  Core'
<1> DEFINE p == enum[t].port
<1>1. p \in Ports /\ owner[p] # NoThread
  BY ThreadSteps DEF Core
<1>2. \A q \in Ports : owner[q] # NoThread =>
         /\ enum'[owner[q]].pc = IF q = p THEN where ELSE enum[owner[q]].pc
         /\ enum'[owner[q]].port = enum[owner[q]].port /\ enum'[owner[q]].addr = enum[owner[q]].addr
  BY ThreadSteps DEF Core, Places
<1> HIDE DEF p
<1>3. OwnerRuns'
  BY <1>2 DEF Core, OwnerRuns
<1>4. Begun'
  <2>1. SUFFICES ASSUME NEW q \in Ports, owner[q] # NoThread
                 PROVE  /\ enum'[owner[q]].pc \in {"first", "address", "config"} => addr'[q] = 0
                        /\ enum'[owner[q]].pc \in {"first", "address", "config", "connect"} => q \notin instance'
    BY DEF Begun
  <2>2. CASE q = p
    BY <1>2, <2>1, <2>2 DEF p
  <2>3. CASE q # p
    <3>1. addr'[q] = addr[q] /\ (q \in instance' <=> q \in instance)
      BY <2>3 DEF p
    <3> QED BY <1>2, <2>1, <2>3, <3>1 DEF Core, Begun
  <2> QED BY <2>2, <2>3
<1>5. ASSUME NEW q \in Ports, NEW a \in Addrs \cup {0}, Holds(q, a)'
      PROVE  Holds(q, a)
  <2>1. CASE q \in connected' /\ a = addr'[q] /\ a # 0 /\ q = p
    <3>1. addr[p] = a \/ Holds(p, a)
      BY <2>1 DEF p
    <3> QED BY <2>1, <3>1 DEF Holds
  <2>2. CASE q \in connected' /\ a = addr'[q] /\ a # 0 /\ q # p
    <3>1. addr'[q] = addr[q]
      BY <2>2 DEF p
    <3> QED BY <2>2, <3>1 DEF Holds
  <2>3. CASE owner'[q] # NoThread /\ enum'[owner'[q]].pc = "config" /\ a = enum'[owner'[q]].addr
    BY <1>2, <2>3 DEF Holds
  <2> QED BY <1>5, <2>1, <2>2, <2>3 DEF Holds
<1>6. HoldersApart'
  BY <1>5 DEF Core, HoldersApart
<1> QED BY <1>3, <1>4, <1>6 DEF Core

LEMMA CoreFirst ==
  ASSUME TypeOK, Core, NEW t \in Threads, First(t)
  PROVE  Core'
<1> USE DEF busVars, portVars, hportVars, devgen, extVars, reportVars, threadVars, enumVars
<1> DEFINE p == enum[t].port
<1>1. EnumAt(t, "first") /\ Mine(t)
  BY DEF First
<1>2. p \in Ports /\ owner[p] = t /\ owner[p] # NoThread
  BY <1>1, ThreadSteps DEF Core, Mine
<1>3. CASE p \in orphans
  <2>1. Break("parent")
    BY <1>3 DEF First
  <2> QED BY <2>1, QuietKeeps DEF Break, Core, Drivers
<1>4. CASE p \notin orphans
  <2>1. /\ addr' = [addr EXCEPT ![p] = 0] /\ Transfer(t, "address")
        /\ UNCHANGED <<plugged, connected, driver, instance, hubs, disks, used, listening, owner>>
    BY <1>4 DEF First
  <2>2. addr[p] = 0 /\ p \notin instance
    BY <1>1, <1>2 DEF Core, Begun, EnumAt
  <2>3. \A q \in Ports : addr'[q] = addr[q]
    BY <2>1, <2>2 DEF TypeOK
  <2>4. PICK where \in {"address", "fail"} : EnumGoes(t, where)
    BY <2>1 DEF Transfer
  <2>5. Having("disk")' = Having("disk") /\ Having("hub")' = Having("hub")
    BY <2>1 DEF Having
  <2>6. Drivers' /\ Counted' /\ Listened'
    BY <2>1, <2>5 DEF Core, Drivers, Counted, Listened
  <2> HIDE DEF p
  <2> QED BY <1>1, <1>2, <2>1, <2>2, <2>3, <2>4, <2>6, GoesKeeps DEF p
<1> QED BY <1>3, <1>4

LEMMA CoreAddress ==
  ASSUME TypeOK, Core, NEW t \in Threads, Address(t)
  PROVE  Core'
<1> USE DEF busVars, portVars, hportVars, devgen, extVars, reportVars, threadVars, enumVars
<1> DEFINE p == enum[t].port
<1>1. EnumAt(t, "address") /\ Mine(t) /\ UNCHANGED <<plugged, connected, addr, driver, instance, hubs, disks, listening>>
  BY DEF Address
<1>2. p \in Ports /\ owner[p] = t /\ owner[p] # NoThread
  BY <1>1, ThreadSteps DEF Core, Mine
<1>3. addr[p] = 0 /\ p \notin instance
  BY <1>1, <1>2 DEF Core, Begun, EnumAt
<1>4. Having("disk")' = Having("disk") /\ Having("hub")' = Having("hub")
  BY <1>1 DEF Having
<1>5. Drivers' /\ Counted' /\ Listened'
  BY <1>1, <1>4 DEF Core, Drivers, Counted, Listened
<1>6. CASE HintTaken
  <2>1. EnumEnds(t) /\ UNCHANGED used
    BY <1>6 DEF Address
  <2> QED BY <1>1, <1>5, <2>1, EndsKeeps
<1>7. CASE ~HintTaken /\ EnumGoes(t, "fail")
  <2>1. used' = used \cup {next} /\ UNCHANGED owner
    BY <1>7 DEF Address
  <2> QED BY <1>1, <1>3, <1>5, <1>7, <2>1, GoesKeeps
<1>8. CASE ~HintTaken /\ ~EnumGoes(t, "fail")
  <2>1. used' = used \cup {next} /\ next \notin used /\ UNCHANGED owner
        /\ enum' = [enum EXCEPT ![t].pc = "config", ![t].addr = next]
    BY <1>8 DEF Address, HintTaken
  <2>2. \A s \in Threads : enum[s] \in EnumTypes
    BY TypeEnum
  <2>3. enum'[t].pc = "config" /\ enum'[t].addr = next /\ enum'[t].port = p /\ \A s \in Threads \ {t} : enum'[s] = enum[s]
    BY <2>1, <2>2 DEF TypeOK, EnumTypes
  <2>4. \A q \in Ports : owner[q] # NoThread /\ q # p => owner[q] \in Threads \ {t}
    BY <1>1, ThreadSteps DEF TypeOK, Core
  <2> HIDE DEF p
  <2>5. OwnerRuns'
    <3>1. SUFFICES ASSUME NEW q \in Ports, owner[q] # NoThread
                   PROVE  enum'[owner[q]].pc # "none" /\ enum'[owner[q]].port = q
      BY <2>1 DEF OwnerRuns
    <3>2. CASE q = p
      BY <1>2, <2>3, <3>2
    <3>3. CASE q # p
      BY <2>3, <2>4, <3>1, <3>3 DEF Core, OwnerRuns
    <3> QED BY <3>2, <3>3
  <2>6. Begun'
    BY <1>1, <1>2, <1>3, <2>1, <2>3, <2>4, ZenonT(30) DEF Core, Begun
  <2>7. \A q \in Ports, a \in Addrs \cup {0} : Holds(q, a)' => Holds(q, a) \/ (q = p /\ a = next)
    BY <1>1, <1>2, <2>1, <2>3, <2>4, ZenonT(30) DEF Holds
  <2>8. \A q \in Ports, a \in Addrs \cup {0} : q = p /\ Holds(q, a)' => a = next
    <3>1. addr'[p] = 0 /\ owner'[p] = t
      BY <1>1, <1>2, <1>3, <2>1
    <3> QED BY <2>3, <3>1 DEF Holds
  <2>9. \A q \in Ports, a \in Addrs \cup {0} : Holds(q, a) => a # next
    BY <2>1 DEF Core, HoldersApart
  <2>10. HoldersApart'
    BY <2>1, <2>7, <2>8, <2>9 DEF Core, HoldersApart
  <2> QED BY <1>5, <2>5, <2>6, <2>10 DEF Core
<1> QED BY <1>6, <1>7, <1>8

LEMMA CoreConfig ==
  ASSUME TypeOK, Core, NEW t \in Threads, Config(t)
  PROVE  Core'
<1> USE DEF busVars, portVars, hportVars, devgen, extVars, reportVars, threadVars, enumVars
<1> DEFINE p == enum[t].port
<1>1. EnumAt(t, "config") /\ Mine(t)
  BY DEF Config
<1>2. p \in Ports /\ owner[p] = t /\ owner[p] # NoThread
  BY <1>1, ThreadSteps DEF Core, Mine
<1>3. /\ addr' = [addr EXCEPT ![p] = enum[t].addr]
      /\ UNCHANGED <<plugged, connected, instance, hubs, disks, used, listening, owner>>
  BY DEF Config
<1>4. p \notin instance
  BY <1>1, <1>2 DEF Core, Begun, EnumAt
<1>5. /\ \A q \in Ports \ {p} : addr'[q] = addr[q]
      /\ addr'[p] = enum[t].addr
  BY <1>2, <1>3 DEF TypeOK
<1>6. Holds(p, enum[t].addr)
  BY <1>1, <1>2 DEF Holds, EnumAt
<1>7. PICK where \in {"connect", "fail"} : EnumGoes(t, where)
  BY DEF Config
<1>8. \A q \in Ports : \/ driver'[q] = driver[q]
                       \/ q = p /\ p \in connected /\ plugged[p] # "none" /\ driver'[p] = plugged[p]
  <2>1. CASE UNCHANGED driver
    BY <2>1
  <2>2. CASE ~UNCHANGED driver
    <3>1. Answered(p) /\ driver' = [driver EXCEPT ![p] = ClassDriver(DeviceKept(Identity(plugged[p]), DeviceSize))]
      BY <2>2 DEF Config
    <3>2. p \in connected /\ plugged[p] \in {"hub", "disk"}
      BY <1>2, <3>1 DEF Answered, Reached, TypeOK
    <3>3. ClassDriver(DeviceKept(Identity(plugged[p]), DeviceSize)) = plugged[p]
      BY <3>2, DriverFits
    <3> HIDE DEF p
    <3> QED BY <1>2, <3>1, <3>2, <3>3 DEF TypeOK
  <2> QED BY <2>1, <2>2
<1> HIDE DEF p
<1>9. Drivers'
  BY <1>3, <1>4, <1>8 DEF Core, Drivers
<1>10. Having("disk")' = Having("disk") /\ Having("hub")' = Having("hub")
  BY <1>3, <1>4, <1>8 DEF Having, TypeOK
<1>11. Counted' /\ Listened'
  BY <1>3, <1>10 DEF Core, Counted, Listened
<1>12. \A a \in Addrs : addr'[p] = a => Holds(p, a)
  BY <1>5, <1>6
<1> QED BY <1>1, <1>3, <1>4, <1>5, <1>7, <1>9, <1>11, <1>12, GoesKeeps DEF p

LEMMA CoreConnect ==
  ASSUME TypeOK, Core, NEW t \in Threads, Connect(t)
  PROVE  Core'
<1> USE DEF busVars, portVars, hportVars, devgen, extVars, reportVars, threadVars, enumVars
<1> DEFINE p == enum[t].port
<1>1. EnumAt(t, "connect") /\ Mine(t) /\ UNCHANGED <<plugged, connected, addr, driver, used, listening>>
  BY DEF Connect
<1>2. p \in Ports /\ owner[p] = t /\ owner[p] # NoThread
  BY <1>1, ThreadSteps DEF Core, Mine
<1>3. p \notin instance
  BY <1>1, <1>2 DEF Core, Begun, EnumAt
<1>4. CASE driver[p] = "none"
  <2>1. EnumEnds(t) /\ UNCHANGED <<instance, hubs, disks>>
    BY <1>4 DEF Connect
  <2>2. Listened'
    BY <1>1, <2>1 DEF Core, Listened, Having
  <2> QED BY <1>1, <2>1, <2>2, EndsKeeps
<1>5. CASE driver[p] # "none" /\ (NoHubLeft(p) \/ NoDiskLeft(p))
  <2>1. EnumGoes(t, "fail") /\ UNCHANGED <<owner, instance, hubs, disks>>
    BY <1>5 DEF Connect
  <2>2. Having("disk")' = Having("disk") /\ Having("hub")' = Having("hub")
    BY <1>1, <2>1 DEF Having
  <2>3. Drivers' /\ Counted' /\ Listened'
    BY <1>1, <2>1, <2>2 DEF Core, Drivers, Counted, Listened
  <2> QED BY <1>1, <2>1, <2>3, GoesKeeps
<1>6. CASE driver[p] # "none" /\ ~(NoHubLeft(p) \/ NoDiskLeft(p))
  <2> DEFINE isHub == driver[p] = "hub"
  <2>1. /\ instance' = instance \cup {p}
        /\ hubs' = hubs + (IF isHub THEN 1 ELSE 0)
        /\ disks' = disks + (IF isHub THEN 0 ELSE 1)
        /\ Transfer(t, "finish") /\ UNCHANGED owner
    BY <1>6 DEF Connect
  <2>2. PICK where \in {"finish", "fail"} : EnumGoes(t, where)
    BY <2>1 DEF Transfer
  <2>3. driver[p] \in {"hub", "disk"}
    BY <1>2, <1>6 DEF TypeOK
  <2>4. /\ Having("hub")' = Having("hub") \cup (IF isHub THEN {p} ELSE {})
        /\ Having("disk")' = Having("disk") \cup (IF isHub THEN {} ELSE {p})
    BY <1>1, <2>1, <2>3 DEF Having
  <2>5. p \notin Having("hub") /\ p \notin Having("disk")
    BY <1>3 DEF Having
  <2>6. IsFiniteSet(Having("disk")) /\ IsFiniteSet(Having("hub"))
    BY HavingFacts DEF Core
  <2>7. Cardinality(Having("disk") \cup {p}) = Cardinality(Having("disk")) + 1
    BY <2>5, <2>6, FS_AddElement
  <2>8. Cardinality(Having("hub") \cup {p}) = Cardinality(Having("hub")) + 1
    BY <2>5, <2>6, FS_AddElement
  <2>9. Counted'
    <3>1. CASE isHub
      <4>1. Having("hub")' = Having("hub") \cup {p} /\ Having("disk")' = Having("disk")
        BY <2>4, <3>1
      <4>2. hubs' = hubs + 1 /\ disks' = disks
        BY <2>1, <3>1 DEF TypeOK
      <4> QED BY <2>8, <4>1, <4>2 DEF Core, Counted
    <3>2. CASE ~isHub
      <4>1. Having("disk")' = Having("disk") \cup {p} /\ Having("hub")' = Having("hub")
        BY <2>4, <3>2
      <4>2. disks' = disks + 1 /\ hubs' = hubs
        BY <2>1, <3>2 DEF TypeOK
      <4> QED BY <2>7, <4>1, <4>2 DEF Core, Counted
    <3> QED BY <3>1, <3>2
  <2> HIDE DEF p
  <2>10. Drivers' /\ Listened'
    BY <1>1, <1>6, <2>1, <2>4 DEF Core, Drivers, Listened
  <2>11. \A q \in Ports \ {p} : addr'[q] = addr[q] /\ (q \in instance' <=> q \in instance)
    BY <1>1, <2>1
  <2> QED BY <1>1, <2>1, <2>2, <2>9, <2>10, <2>11, GoesKeeps DEF p
<1> QED BY <1>4, <1>5, <1>6

LEMMA CoreFinish ==
  ASSUME TypeOK, Core, NEW t \in Threads, Finish(t)
  PROVE  Core'
<1> USE DEF busVars, portVars, hportVars, devgen, extVars, reportVars, threadVars, enumVars, noteVars
<1> DEFINE p == enum[t].port
<1>1. EnumAt(t, "finish") /\ Mine(t)
  BY DEF Finish
<1>2. p \in Ports
  BY <1>1, ThreadSteps DEF Core
<1>3. CASE p \notin instance
  <2>1. Break("freed")
    BY <1>3 DEF Finish
  <2> QED BY <2>1, QuietKeeps DEF Break, Core, Drivers
<1>4. CASE p \in instance
  <2>1. UNCHANGED <<plugged, connected, addr, driver, instance, hubs, disks, used>>
    BY <1>4 DEF Finish
  <2>2. Having("disk")' = Having("disk") /\ Having("hub")' = Having("hub")
    BY <2>1 DEF Having
  <2>3. Drivers' /\ Counted'
    BY <2>1, <2>2 DEF Core, Drivers, Counted
  <2>4. CASE driver[p] = "hub"
    <3>1. EnumEnds(t)
      BY <1>4, <2>4 DEF Finish
    <3>2. p = RootPort
      BY <1>2, <2>4 DEF Core, Drivers
    <3>3. Listened'
      BY <1>4, <2>2, <2>4, <3>2 DEF Listened, Having
    <3> QED BY <1>1, <2>1, <3>1, <3>3, EndsKeeps
  <2>5. CASE driver[p] # "hub"
    <3>1. EnumGoes(t, "run") /\ UNCHANGED <<listening, owner>>
      BY <1>4, <2>5 DEF Finish
    <3>2. Listened'
      BY <2>2, <3>1 DEF Core, Listened
    <3> QED BY <1>1, <2>1, <2>3, <3>1, <3>2, GoesKeeps
  <2> QED BY <2>4, <2>5
<1> QED BY <1>3, <1>4

LEMMA CoreRun ==
  ASSUME TypeOK, Core, NEW t \in Threads, Run(t)
  PROVE  Core'
<1> USE DEF busVars, portVars, hportVars, devgen, extVars, reportVars, threadVars, enumVars, noteVars
<1>1. CASE enum[t].port \notin instance
  <2>1. Break("freed")
    BY <1>1 DEF Run
  <2> QED BY <2>1, QuietKeeps DEF Break, Core, Drivers
<1>2. CASE enum[t].port \in instance
  <2>1. Mine(t) /\ EnumEnds(t) /\ UNCHANGED <<plugged, connected, addr, driver, instance, hubs, disks, used, listening>>
    BY <1>2 DEF Run
  <2>2. Listened'
    BY <2>1 DEF Core, Listened, Having
  <2> QED BY <2>1, <2>2, EndsKeeps
<1> QED BY <1>1, <1>2

LEMMA CoreFail ==
  ASSUME TypeOK, Core, NEW t \in Threads, Fail(t)
  PROVE  Core'
<1>1. Mine(t) /\ Release(enum[t].port, FALSE) /\ EnumEnds(t) /\ UNCHANGED plugged
  BY DEF Fail, busVars
<1>2. enum[t].port \in Ports /\ \A q \in Ports : owner'[q] # NoThread => SameThread(q)
  BY <1>1, ThreadSteps DEF Core
<1> QED BY <1>1, <1>2, ReleaseKeeps

LEMMA CoreEnumThread ==
  ASSUME TypeOK, Core, NEW t \in Threads, EnumThread(t)
  PROVE  Core'
<1>1. CASE Replaced(t)
  BY <1>1, QuietKeeps DEF Replaced, Break, Core, Drivers, busVars, portVars, hportVars, devgen, extVars, enumVars
<1> QED BY <1>1, CoreFirst, CoreAddress, CoreConfig, CoreConnect, CoreFinish, CoreRun, CoreFail DEF EnumThread

\* A port that is enabled gets a thread that has not been running.
LEMMA CoreEnable ==
  ASSUME TypeOK, Core, Enable
  PROVE  Core'
<1> DEFINE p == Min(todo)
           new == PortStatus(p).enable
           spare == {t \in Threads : enum[t] = NotRunning}
<1>1. p \in Ports /\ UNCHANGED plugged /\ new \in BOOLEAN
  BY AtPort DEF Enable, HubAt, TypeOK, WithPort, busVars, PortStatus
<1>2. CASE UNCHANGED <<portVars, extVars, enumVars>>
  BY <1>1, <1>2, QuietKeeps DEF Core, Drivers, portVars, hportVars, devgen, extVars, enumVars
<1>3. CASE ~UNCHANGED <<portVars, extVars, enumVars>>
  <2>1. Release(p, new)
    BY <1>3 DEF Enable
  <2>2. \A q \in Ports : owner'[q] # NoThread => SameThread(q) \/ (q = p /\ new /\ NewThread(q))
    <3>1. CASE ~new
      <4>1. UNCHANGED <<enum, owner>>
        BY <1>3, <3>1 DEF Enable, enumVars
      <4> QED BY <4>1 DEF SameThread
    <3>2. CASE new
      <4>1. /\ spare # {}
            /\ enum' = [enum EXCEPT ![Min(spare)] = [pc |-> "first", port |-> p, addr |-> 0]]
            /\ owner' = [owner EXCEPT ![p] = Min(spare)]
        BY <1>3, <3>2 DEF Enable
      <4>2. Min(spare) \in spare
        BY <4>1, NatMin, PortFacts
      <4>3. Min(spare) \in Threads /\ enum[Min(spare)].pc = "none"
        BY <4>2 DEF NotRunning
      <4> HIDE DEF spare, p, new
      <4>4. owner'[p] = Min(spare) /\ \A q \in Ports \ {p} : owner'[q] = owner[q]
        BY <1>1, <4>1 DEF TypeOK
      <4>5. enum'[Min(spare)] = [pc |-> "first", port |-> p, addr |-> 0]
        BY <4>1, <4>3 DEF TypeOK
      <4>6. ASSUME NEW q \in Ports \ {p}, owner'[q] # NoThread
            PROVE  SameThread(q)
        <5>1. owner'[q] = owner[q] /\ owner[q] \in Threads /\ enum[owner[q]].pc # "none"
          BY <4>4, <4>6 DEF TypeOK, Core, OwnerRuns
        <5>2. owner[q] # Min(spare)
          BY <4>3, <5>1
        <5>3. enum'[owner[q]] = enum[owner[q]]
          BY <4>1, <5>1, <5>2 DEF TypeOK
        <5> QED BY <5>1, <5>3 DEF SameThread
      <4>7. NewThread(p)
        BY <4>4, <4>5 DEF NewThread
      <4> QED BY <3>2, <4>6, <4>7
    <3> QED BY <3>1, <3>2
  <2> HIDE DEF p, new
  <2> QED BY <1>1, <2>1, <2>2, ReleaseKeeps
<1> QED BY <1>2, <1>3

LEMMA CoreHubThread ==
  ASSUME TypeOK, Core, HubThread
  PROVE  Core'
<1> USE DEF busVars, portVars, hportVars, devgen, extVars, reportVars, enumVars, noteVars
<1>1. \A p \in Ports : plugged[p] = "hub" => p = RootPort
  BY DEF Core, Drivers
<1>2. CASE Take \/ Look \/ Zero \/ LastPort
  BY <1>1, <1>2, QuietKeeps DEF Take, Look, Zero, LastPort
<1>3. CASE Status \/ Clear \/ DebounceFails
  BY <1>1, <1>3, QuietKeeps DEF Status, Clear, DebounceFails
<1>4. CASE Reset \/ ResetEnd
  BY <1>1, <1>4, QuietKeeps DEF Reset, ResetEnd
<1>5. CASE Debounced
  <2> DEFINE p == Min(todo)
  <2>1. p \in Ports /\ UNCHANGED <<plugged, enum, owner>>
    BY <1>5, AtPort DEF Debounced, HubAt, TypeOK, WithPort
  <2>2. CASE PortStatus(p).connection
    BY <1>1, <1>5, <2>1, <2>2, QuietKeeps DEF Debounced
  <2>3. CASE ~PortStatus(p).connection
    <3>1. Release(p, FALSE)
      BY <1>5, <2>3 DEF Debounced
    <3>2. \A q \in Ports : SameThread(q)
      BY <2>1 DEF SameThread
    <3> QED BY <2>1, <3>1, <3>2, ReleaseKeeps
  <2> QED BY <2>2, <2>3
<1> QED BY <1>2, <1>3, <1>4, <1>5, CoreEnable DEF HubThread

LEMMA CoreStep ==
  ASSUME TypeOK, Core, [Next]_vars
  PROVE  Core'
<1> USE DEF busVars, portVars, hportVars, devgen, extVars, enumVars
<1>1. \A p \in Ports : plugged[p] = "hub" => p = RootPort
  BY DEF Core, Drivers
<1>2. CASE HubReports
  BY <1>1, <1>2, QuietKeeps DEF HubReports
<1>3. ASSUME NEW p \in Ports, Replug(p)
      PROVE  Core'
  <2>1. PICK d \in {"none", "disk", "hub"} :
          /\ p \in ExtPorts => d # "hub"
          /\ plugged' = [q \in Ports |-> IF q = p THEN d ELSE IF p = RootPort THEN "none" ELSE plugged[q]]
          /\ UNCHANGED <<portVars, extVars, enumVars>>
    BY <1>3 DEF Replug
  <2>2. \A q \in Ports : plugged'[q] = "hub" => q = RootPort
    BY <1>1, <2>1 DEF Ports
  <2> QED BY <2>1, <2>2, QuietKeeps
<1>4. CASE UNCHANGED vars
  BY <1>1, <1>4, QuietKeeps DEF vars
<1> QED BY <1>2, <1>3, <1>4, CoreHubThread, CoreEnumThread DEF Next, SomeThread
-----------------------------------------------------------------------------
(* The external hub's reports                                              *)

\* A release stops listening, or the root port's hub stays as it is.
LEMMA ReleaseListens ==
  ASSUME TypeOK, NEW p \in Ports, NEW new \in BOOLEAN, Release(p, new), listening'
  PROVE  ~WithHub(p) /\ listening /\ intin' = intin
BY ReleaseDoes

LEMMA ListensHubThread ==
  ASSUME TypeOK, Core, HubListens, HubThread
  PROVE  HubListens'
<1> USE DEF busVars, portVars, hportVars, devgen, extVars, reportVars, threadVars, enumVars, noteVars
<1>1. SUFFICES ASSUME listening', HubThere', pc' # "enable", Running'
               PROVE  \/ intin'
                      \/ current' = "ext" /\ (sem' > 0 \/ pc' = "woken")
                      \/ hub' = "ext" /\ pc' \notin {"idle", "woken"}
  BY DEF HubListens
<1>2. CASE Take
  BY <1>1, <1>2 DEF Take, HubAt, HubGoes, HubListens, HubThere, Running
<1>3. CASE Look
  <2>1. listening /\ HubThere /\ pc = "woken" /\ Running /\ UNCHANGED <<intin, sem, current>>
    BY <1>1, <1>3 DEF Look, HubAt, HubThere, Running
  <2>2. CASE intin
    BY <2>1, <2>2
  <2>3. CASE ~intin
    <3>1. current = "ext" \/ (hub = "ext" /\ pc \notin {"idle", "woken"})
      BY <2>1, <2>3 DEF HubListens
    <3>2. current = "ext" /\ ~Ignored
      BY <2>1, <3>1 DEF Ignored
    <3>3. hub' = "ext" /\ pc' = "zero"
      BY <1>3, <3>2 DEF Look, HubGoes
    <3> QED BY <3>3
  <2> QED BY <2>2, <2>3
<1>4. CASE Zero
  BY <1>1, <1>4 DEF Zero, HubAt, HubGoes, HubListens, HubThere, Running
<1>5. CASE LastPort
  <2>1. /\ listening /\ HubThere /\ pc = "next" /\ Running /\ UNCHANGED <<sem, current>>
        /\ intin' = (intin \/ (hub = "ext" /\ listening /\ RootPort \in connected))
    BY <1>1, <1>5 DEF LastPort, Listen, HubAt, HubThere, Running
  <2>2. RootPort \in connected
    BY <2>1, HavingFacts DEF Core, Listened, Having
  <2>3. intin \/ (current = "ext" /\ sem > 0) \/ hub = "ext"
    BY <2>1 DEF HubListens
  <2>4. CASE intin \/ hub = "ext"
    BY <2>1, <2>2, <2>4
  <2>5. CASE current = "ext" /\ sem > 0
    BY <2>1, <2>5
  <2> QED BY <2>3, <2>4, <2>5
<1>6. CASE Status
  BY <1>1, <1>6 DEF Status, NextTodo, HubAt, HubGoes, HubListens, HubThere, Running
<1>7. CASE Clear
  BY <1>1, <1>7 DEF Clear, HubAt, HubGoes, HubListens, HubThere, Running
<1>8. CASE DebounceFails
  BY <1>1, <1>8 DEF DebounceFails, HubAt, HubGoes, HubListens, HubThere, Running
<1>9. CASE Reset
  <2>1. enabled' \subseteq enabled /\ plugged' = plugged
    BY <1>9 DEF Reset, SetReset
  <2>2. HubThere
    BY <1>1, <2>1 DEF HubThere
  <2> QED BY <1>1, <1>9, <2>2 DEF Reset, NextTodo, HubAt, HubGoes, HubListens, Running
<1>10. CASE ResetEnd
  BY <1>1, <1>10 DEF ResetEnd, HubGoes
<1>11. CASE Debounced
  <2> DEFINE p == Min(todo)
  <2>1. /\ p \in Ports /\ pc = "debounce" /\ Running /\ UNCHANGED <<plugged, enabled, sem, current, hub>>
        /\ pc' \in {"reset", "next"}
    BY <1>11, AtPort DEF Debounced, HubAt, HubGoes, NextTodo, TypeOK, WithPort
  <2>2. listening /\ intin' = intin
    <3>1. CASE PortStatus(p).connection
      BY <1>1, <1>11, <3>1 DEF Debounced
    <3>2. CASE ~PortStatus(p).connection
      <4>1. Release(p, FALSE)
        BY <1>11, <3>2 DEF Debounced
      <4> QED BY <1>1, <2>1, <4>1, ReleaseListens
    <3> QED BY <3>1, <3>2
  <2>3. HubThere
    BY <1>1, <2>1 DEF HubThere
  <2> HIDE DEF p
  <2> QED BY <2>1, <2>2, <2>3 DEF HubListens
<1>12. CASE Enable
  <2> DEFINE p == Min(todo)
             new == PortStatus(p).enable
  <2>1. p \in Ports /\ p \in PortsOf(hub) /\ pc' = "next" /\ hub' = hub /\ hub \in HubNames /\ new \in BOOLEAN
    BY <1>12, AtPort DEF Enable, HubAt, HubGoes, NextTodo, TypeOK, WithPort, PortStatus
  <2>2. CASE hub = "ext"
    BY <2>1, <2>2
  <2>3. CASE hub = "root"
    <3>1. p = RootPort /\ Release(p, new)
      BY <1>12, <2>1, <2>3 DEF Enable, HubSilent, PortsOf
    <3>2. ~WithHub(p) /\ listening
      BY <1>1, <2>1, <3>1, ReleaseListens
    <3>3. WithHub(p)
      BY <3>1, <3>2, HavingFacts DEF WithHub, Core, Listened, Having
    <3> QED BY <3>2, <3>3
  <2> QED BY <2>1, <2>2, <2>3 DEF HubNames
<1> QED BY <1>2, <1>3, <1>4, <1>5, <1>6, <1>7, <1>8, <1>9, <1>10, <1>11, <1>12 DEF HubThread

LEMMA ListensEnumThread ==
  ASSUME TypeOK, Core, HubListens, NEW t \in Threads, EnumThread(t)
  PROVE  HubListens'
<1> USE DEF busVars, portVars, hportVars, devgen, extVars, reportVars, threadVars, enumVars, noteVars
<1> DEFINE Stops == \E why \in {"parent", "freed", "replaced"} : Break(why)
           Still == UNCHANGED <<plugged, enabled, sem, current, pc, hub>>
<1>1. ASSUME Stops
      PROVE  HubListens'
  BY <1>1 DEF Break, HubListens, Running
<1>2. ASSUME Still, UNCHANGED fault, listening' => listening /\ intin' = intin
      PROVE  HubListens'
  BY <1>2 DEF HubListens, HubThere, Running
<1>3. CASE First(t)
  BY <1>1, <1>2, <1>3 DEF First
<1>4. CASE Address(t)
  BY <1>2, <1>4 DEF Address
<1>5. CASE Config(t)
  BY <1>2, <1>5 DEF Config
<1>6. CASE Connect(t)
  BY <1>2, <1>6 DEF Connect
<1>7. CASE Finish(t)
  <2>1. CASE enum[t].port \notin instance
    BY <1>1, <1>7, <2>1 DEF Finish
  <2>2. CASE enum[t].port \in instance /\ driver[enum[t].port] # "hub"
    BY <1>2, <1>7, <2>2 DEF Finish
  <2>3. CASE enum[t].port \in instance /\ driver[enum[t].port] = "hub"
    <3>1. enum[t].port \in connected
      BY <2>3, HavingFacts DEF Core
    <3>2. intin' = (enum[t].port \in connected)
      BY <1>7, <2>3 DEF Finish
    <3>3. intin'
      BY <3>1, <3>2
    <3> QED BY <3>3 DEF HubListens
  <2> QED BY <2>1, <2>2, <2>3
<1>8. CASE Run(t)
  BY <1>1, <1>2, <1>8 DEF Run
<1>9. CASE Fail(t)
  <2>1. Release(enum[t].port, FALSE) /\ Still /\ UNCHANGED fault
    BY <1>9 DEF Fail
  <2>2. listening' => listening /\ intin' = intin
    BY <2>1, TypeEnum, ReleaseListens
  <2> QED BY <1>2, <2>1, <2>2
<1>10. CASE Replaced(t)
  BY <1>1, <1>10 DEF Replaced
<1> QED BY <1>3, <1>4, <1>5, <1>6, <1>7, <1>8, <1>9, <1>10 DEF EnumThread

LEMMA ListensStep ==
  ASSUME TypeOK, Core, HubListens, [Next]_vars
  PROVE  HubListens'
<1> USE DEF busVars, portVars, extVars, reportVars, threadVars
<1>1. CASE HubReports
  <2>1. CASE HubThere
    <3>1. Wakeup("ext", change \cap ExtPorts)
      BY <1>1, <2>1 DEF HubReports
    <3>2. current' = "ext" /\ sem' > 0
      BY <3>1 DEF Wakeup, TypeOK
    <3> QED BY <3>2 DEF HubListens
  <2>2. CASE ~HubThere
    BY <1>1, <2>2 DEF HubReports, HubListens, HubThere
  <2> QED BY <2>1, <2>2
<1>2. ASSUME NEW p \in Ports, Replug(p)
      PROVE  HubListens'
  <2>1. CASE p = RootPort
    <3>1. RootPort \notin enabled'
      BY <1>2, <2>1 DEF Replug
    <3> QED BY <3>1 DEF HubListens, HubThere
  <2>2. CASE p # RootPort
    <3>1. UNCHANGED <<bits, sem, current, lost, listening, intin, pc, hub, fault>> /\ enabled' \subseteq enabled
      BY <1>2, <2>2 DEF Replug
    <3>2. plugged'[RootPort] = plugged[RootPort]
      BY <1>2, <2>2, PortFacts DEF Replug
    <3> QED BY <3>1, <3>2 DEF HubListens, HubThere, Running
  <2> QED BY <2>1, <2>2
<1>3. CASE UNCHANGED vars
  BY <1>3 DEF vars, HubListens, HubThere, Running
<1> QED BY <1>1, <1>2, <1>3, ListensHubThread, ListensEnumThread DEF Next, SomeThread
-----------------------------------------------------------------------------
(* The theorems                                                            *)

LEMMA CoreAlways == Spec => [](TypeOK /\ Core)
<1>1. Init => TypeOK /\ Core
  BY TypeInit, CoreInit
<1>2. TypeOK /\ Core /\ [Next]_vars => TypeOK' /\ Core'
  BY TypeStep, CoreStep
<1> QED BY <1>1, <1>2, PTL DEF Spec

\* Every variable keeps its type (usbh_hub.c, usbh_core.c).
THEOREM TypeCorrect == Spec => []TypeOK
BY CoreAlways, PTL

\* No two ports ever share an address, and the address of a port is never free for
\* the next device (usbh_allocate_devaddr, usbh_hubport_release).
THEOREM AddressesAlwaysDistinct == Spec => []AddressesDistinct
<1>1. TypeOK /\ Core => AddressesDistinct
  <2> SUFFICES ASSUME TypeOK, Core PROVE AddressesDistinct
    OBVIOUS
  <2> DEFINE given == {t \in Threads : enum[t].pc = "config" /\ Mine(t)}
             holders == {<<p, addr[p]>> : p \in {q \in connected : addr[q] # 0}}
                          \cup {<<enum[t].port, enum[t].addr>> : t \in given}
  <2>1. ASSUME NEW x \in holders
        PROVE  x[1] \in Ports /\ x[2] \in Addrs \cup {0} /\ Holds(x[1], x[2])
    <3>1. CASE \E p \in connected : addr[p] # 0 /\ x = <<p, addr[p]>>
      BY <3>1 DEF Holds, TypeOK
    <3>2. CASE \E t \in given : x = <<enum[t].port, enum[t].addr>>
      <4>1. PICK t \in Threads : enum[t].pc = "config" /\ Mine(t) /\ x = <<enum[t].port, enum[t].addr>>
        BY <3>2
      <4>2. enum[t].port \in Ports /\ enum[t].addr \in Addrs \cup {0} /\ owner[enum[t].port] = t /\ t # NoThread
        BY <4>1, TypeEnum, PortFacts DEF Mine
      <4> QED BY <4>1, <4>2 DEF Holds
    <3> QED BY <2>1, <3>1, <3>2
  <2> HIDE DEF holders
  <2>2. \A x, y \in holders : x[2] \in used /\ (x[1] # y[1] => x[2] # y[2])
    BY <2>1 DEF Core, HoldersApart
  <2> QED BY <2>2 DEF AddressesDistinct, holders
<1> QED BY <1>1, CoreAlways, PTL

\* The class instances always are those of the ports, whatever goes while its
\* thread works on it (usbh_hub_class_free, usbh_msc_class_free).
THEOREM InstancesAlwaysAgree == Spec => []InstancesAgree
<1>1. TypeOK /\ Core => InstancesAgree
  BY HavingFacts DEF Core, Counted, Listened, Having, InstancesAgree
<1> QED BY <1>1, CoreAlways, PTL

\* The external hub is always listened to, or its report waits or is being handled
\* (hub_int_complete_callback, usbh_hub_events).
THEOREM HubsAlwaysListen == Spec => []HubListens
<1>1. Init => HubListens
  BY DEF Init, HubListens
<1>2. TypeOK /\ Core /\ HubListens /\ [Next]_vars => HubListens'
  BY ListensStep
<1> QED BY <1>1, <1>2, CoreAlways, PTL DEF Spec
-----------------------------------------------------------------------------
(* The configuration: what is kept of any that ConfigsAssumption admits    *)

\* What holds of 0 and passes on from each number to the next.
LEMMA Reaches ==
  ASSUME NEW n \in Nat, NEW T, 0 \in T, \A k \in 1..n : k - 1 \in T => k \in T
  PROVE  0..n \subseteq T
<1> DEFINE Rest == {k \in 0..n : k \notin T}
<1> SUFFICES ASSUME Rest # {} PROVE FALSE
  OBVIOUS
<1>1. Rest \subseteq Nat
  OBVIOUS
<1>2. PICK k \in Rest : \A y \in Rest : k <= y
  BY <1>1, NatMin
<1>3. k \in 1..n /\ k - 1 \in 0..n /\ ~(k <= k - 1)
  BY <1>2
<1>4. k - 1 \in T
  BY <1>2, <1>3
<1> QED BY <1>2, <1>3, <1>4

\* Values that come one from another
Comes(f, n, base, F) == f[0] = base /\ \A k \in 1..n : f[k] = F[<<f[k - 1], k>>]

\* are those of a function.
LEMMA Recursion ==
  ASSUME NEW n \in Nat, NEW S, NEW base \in S, NEW F \in [S \X Nat -> S]
  PROVE  \E f \in [0..n -> S] : Comes(f, n, base, F)
<1> DEFINE Fits(f, k) == Comes(f, k, base, F)
           T == {k \in Nat : \E f \in [0..k -> S] : Fits(f, k)}
<1>1. 0 \in T
  <2>1. [i \in 0..0 |-> base] \in [0..0 -> S] /\ Fits([i \in 0..0 |-> base], 0)
    BY DEF Comes
  <2> QED BY <2>1
<1>2. ASSUME NEW k \in 1..n, k - 1 \in T
      PROVE  k \in T
  <2>1. PICK f \in [0..(k - 1) -> S] : f[0] = base /\ \A i \in 1..(k - 1) : f[i] = F[<<f[i - 1], i>>]
    BY <1>2 DEF Comes
  <2> DEFINE last == F[<<f[k - 1], k>>]
             g == [i \in 0..k |-> IF i = k THEN last ELSE f[i]]
  <2>2. last \in S
    BY <2>1
  <2>3. \A i \in 0..k : i # k => i \in 0..(k - 1)
    OBVIOUS
  <2>4. g \in [0..k -> S]
    BY <2>2, <2>3
  <2>5. g[0] = base
    BY <2>1
  <2>6. ASSUME NEW i \in 1..k
        PROVE  g[i] = F[<<g[i - 1], i>>]
    <3>1. i - 1 \in 0..k /\ i - 1 # k /\ i \in 0..k
      OBVIOUS
    <3>2. g[i - 1] = f[i - 1]
      BY <3>1
    <3>3. CASE i = k
      BY <3>1, <3>2, <3>3
    <3>4. CASE i # k
      <4>1. i \in 1..(k - 1)
        BY <3>4
      <4> QED BY <2>1, <3>1, <3>2, <3>4, <4>1
    <3> QED BY <3>3, <3>4
  <2> HIDE DEF g
  <2>7. Fits(g, k)
    BY <2>5, <2>6 DEF Comes
  <2> QED BY <2>4, <2>7
<1> HIDE DEF T
<1>3. n \in T
  <2>1. 0..n \subseteq T
    BY <1>1, <1>2, Reaches
  <2> QED BY <2>1
<1> QED BY <1>3 DEF T

LEMMA BytesIs ==
  ASSUME NEW buf, AreDescriptors(buf)
  PROVE  /\ Len(buf) \in Nat /\ DOMAIN buf = 1..Len(buf)
         /\ Bytes(buf) \in [0..Len(buf) -> Nat] /\ Bytes(buf)[0] = 0
         /\ \A k \in 1..Len(buf) : Bytes(buf)[k] = Bytes(buf)[k - 1] + buf[k].length
<1> DEFINE n == Len(buf)
           F == [x \in Nat \X Nat |-> IF x[2] \in 1..n THEN x[1] + buf[x[2]].length ELSE 0]
           Is(f) == f = [k \in 0..n |-> IF k = 0 THEN 0 ELSE f[k - 1] + buf[k].length]
           b == CHOOSE f : Is(f)
<1>1. n \in Nat /\ DOMAIN buf = 1..n /\ \A k \in 1..n : buf[k].length \in Nat
  BY DEF AreDescriptors
<1> HIDE DEF n
<1>2. PICK f \in [0..n -> Nat] : Comes(f, n, 0, F)
  <2>1. F \in [Nat \X Nat -> Nat]
    BY <1>1
  <2> HIDE DEF F
  <2> QED BY <1>1, <2>1, Recursion
<1>3. ASSUME NEW k \in 1..n
      PROVE  f[k] = f[k - 1] + buf[k].length
  <2>1. k - 1 \in 0..n /\ <<f[k - 1], k>> \in Nat \X Nat
    BY <1>1
  <2>2. f[k] = F[<<f[k - 1], k>>]
    BY <1>2 DEF Comes
  <2> QED BY <2>1, <2>2
<1>4. Is(f)
  <2>1. f[0] = 0 /\ f = [k \in 0..n |-> f[k]]
    BY <1>2 DEF Comes
  <2>2. \A k \in 0..n : k = 0 \/ k \in 1..n
    BY <1>1
  <2> QED BY <1>3, <2>1, <2>2
<1>5. Is(b)
  BY <1>4
<1> HIDE DEF b
<1>6. b[0] = 0 /\ DOMAIN b = 0..n /\ \A k \in 1..n : b[k] = b[k - 1] + buf[k].length
  <2>1. 0 \in 0..n /\ \A k \in 1..n : k \in 0..n /\ k # 0
    BY <1>1
  <2> QED BY <1>5, <2>1
<1> DEFINE T == {k \in Nat : k <= n => b[k] \in Nat}
<1>7. 0..n \subseteq T
  <2>1. 0 \in T
    BY <1>6
  <2>2. ASSUME NEW k \in 1..n, k - 1 \in T
        PROVE  k \in T
    <3>1. k \in Nat /\ k - 1 <= n
      BY <1>1
    <3>2. b[k] = b[k - 1] + buf[k].length /\ b[k - 1] \in Nat
      BY <1>6, <2>2, <3>1
    <3> QED BY <1>1, <3>1, <3>2
  <2> HIDE DEF T
  <2> QED BY <1>1, <2>1, <2>2, Reaches
<1>8. b \in [0..n -> Nat]
  <2>1. \A k \in 0..n : b[k] \in Nat
    BY <1>1, <1>7
  <2>2. b = [k \in 0..n |-> b[k]]
    <3> HIDE DEF T
    <3> QED BY <1>5
  <2> QED BY <2>1, <2>2
<1>9. Bytes(buf) = b
  BY DEF Bytes, b, n
<1> QED BY <1>1, <1>6, <1>8, <1>9 DEF n

\* Each descriptor takes bytes.
LEMMA BytesGrow ==
  ASSUME NEW buf, AreDescriptors(buf), NEW i \in 0..Len(buf), NEW k \in 0..Len(buf), i <= k
  PROVE  Bytes(buf)[i] <= Bytes(buf)[k] /\ (i < k => Bytes(buf)[i] < Bytes(buf)[k])
<1> DEFINE b == Bytes(buf)
           n == k - i
           T == {m \in Nat : i + m <= Len(buf) => b[i] + m <= b[i + m]}
<1>1. /\ Len(buf) \in Nat /\ b \in [0..Len(buf) -> Nat]
      /\ \A m \in 1..Len(buf) : b[m] = b[m - 1] + buf[m].length
      /\ \A m \in 1..Len(buf) : buf[m].length \in Nat \ {0}
  BY BytesIs DEF AreDescriptors
<1> HIDE DEF b
<1>2. n \in Nat /\ i \in Nat /\ i + n = k
  BY <1>1
<1>3. 0 \in T
  BY <1>1
<1>4. ASSUME NEW m \in 1..n, m - 1 \in T
      PROVE  m \in T
  <2>1. /\ m \in Nat /\ i + m \in 1..Len(buf) /\ i + (m - 1) <= Len(buf) /\ (i + m) - 1 = i + (m - 1)
        /\ i + (m - 1) \in 0..Len(buf)
    BY <1>1, <1>2
  <2>2. b[i] + (m - 1) <= b[i + (m - 1)]
    BY <1>4, <2>1
  <2>3. b[i + m] = b[i + (m - 1)] + buf[i + m].length /\ buf[i + m].length \in Nat \ {0}
    BY <1>1, <2>1
  <2>4. b[i] \in Nat /\ b[i + (m - 1)] \in Nat
    BY <1>1, <2>1
  <2>5. b[i] + m <= b[i + m]
    <3> DEFINE len == buf[i + m].length
               before == b[i + (m - 1)]
    <3>1. len >= 1 /\ len \in Nat /\ before \in Nat /\ b[i + m] = before + len /\ b[i] + (m - 1) <= before
      BY <2>2, <2>3, <2>4
    <3> HIDE DEF len, before
    <3> QED BY <2>1, <2>4, <3>1
  <2> QED BY <2>1, <2>5
<1> HIDE DEF T
<1>5. n \in T
  <2>1. 0..n \subseteq T
    BY <1>2, <1>3, <1>4, Reaches
  <2> QED BY <1>2, <2>1
<1>6. b[i] + n <= b[k] /\ b[i] \in Nat /\ b[k] \in Nat
  <2>1. i + n <= Len(buf) => b[i] + n <= b[i + n]
    BY <1>5 DEF T
  <2>2. i + n = k /\ k <= Len(buf)
    BY <1>1, <1>2
  <2>3. b[i] \in Nat /\ b[k] \in Nat
    BY <1>1
  <2> QED BY <2>1, <2>2, <2>3
<1> QED BY <1>2, <1>6 DEF b

LEMMA Joined ==
  ASSUME NEW c, AreDescriptors(c), NEW t, AreDescriptors(t)
  PROVE  /\ AreDescriptors(c \o t) /\ Len(c \o t) = Len(c) + Len(t)
         /\ \A k \in 1..Len(c) : (c \o t)[k] = c[k]
         /\ \A k \in 0..Len(c) : Bytes(c \o t)[k] = Bytes(c)[k]
<1> DEFINE S == ToSet(c) \cup ToSet(t)
           s == c \o t
<1>1. c \in Seq(S) /\ t \in Seq(S)
  <2>1. c \in Seq(ToSet(c)) /\ t \in Seq(ToSet(t)) /\ ToSet(c) \subseteq S /\ ToSet(t) \subseteq S
    BY DEF AreDescriptors
  <2> HIDE DEF S
  <2> QED BY <2>1
<1> HIDE DEF S
<1>2. /\ Len(c) \in Nat /\ Len(t) \in Nat /\ Len(s) = Len(c) + Len(t) /\ s \in Seq(S)
      /\ DOMAIN c = 1..Len(c) /\ DOMAIN t = 1..Len(t) /\ DOMAIN s = 1..Len(s)
  BY <1>1
<1>3. \A k \in 1..Len(s) : s[k] = IF k <= Len(c) THEN c[k] ELSE t[k - Len(c)]
  BY <1>1, <1>2
<1>4. \A k \in 1..Len(c) : s[k] = c[k]
  BY <1>2, <1>3
<1>5. ASSUME NEW k \in 1..Len(s)
      PROVE  s[k].length \in Nat \ {0} /\ s[k].type \in {"interface", "endpoint", "other"}
  <2>1. CASE k <= Len(c)
    BY <1>2, <1>3, <2>1 DEF AreDescriptors
  <2>2. CASE ~(k <= Len(c))
    <3>1. k - Len(c) \in DOMAIN t /\ s[k] = t[k - Len(c)]
      BY <1>2, <1>3, <2>2
    <3> QED BY <3>1 DEF AreDescriptors
  <2> QED BY <2>1, <2>2
<1>6. s \in Seq(ToSet(s))
  <2>1. \A k \in 1..Len(s) : s[k] \in ToSet(s)
    BY <1>2 DEF ToSet
  <2> QED BY <1>2, <2>1
<1> HIDE DEF s
<1>7. AreDescriptors(s)
  BY <1>2, <1>5, <1>6 DEF AreDescriptors
<1> DEFINE T == {k \in Nat : k <= Len(c) => Bytes(s)[k] = Bytes(c)[k]}
<1>8. 0..Len(c) \subseteq T
  <2>1. 0 \in T
    BY <1>7, BytesIs
  <2>2. ASSUME NEW k \in 1..Len(c), k - 1 \in T
        PROVE  k \in T
    <3>1. k \in Nat /\ k - 1 <= Len(c) /\ k \in 1..Len(s)
      BY <1>2
    <3>2. Bytes(s)[k] = Bytes(s)[k - 1] + s[k].length /\ Bytes(c)[k] = Bytes(c)[k - 1] + c[k].length
      BY <1>7, <3>1, BytesIs
    <3> QED BY <1>4, <2>2, <3>1, <3>2
  <2> HIDE DEF T
  <2> QED BY <1>2, <2>1, <2>2, Reaches
<1>9. \A k \in 0..Len(c) : Bytes(s)[k] = Bytes(c)[k]
  BY <1>8
<1> QED BY <1>2, <1>4, <1>7, <1>9 DEF s

LEMMA NatMax ==
  ASSUME NEW k \in Nat, NEW T, T \subseteq 1..k, T # {}
  PROVE  Max(T) \in T /\ \A y \in T : y <= Max(T)
<1> DEFINE Below == {k - y : y \in T}
<1>1. Below \subseteq Nat /\ Below # {}
  <2>1. \A y \in T : k - y \in Nat /\ k - y \in Below
    OBVIOUS
  <2>2. \A x \in Below : \E y \in T : x = k - y
    OBVIOUS
  <2> HIDE DEF Below
  <2> QED BY <2>1, <2>2
<1>2. PICK m \in Below : \A y \in Below : m <= y
  BY <1>1, NatMin
<1>3. PICK x \in T : m = k - x
  BY <1>2
<1>4. \A y \in T : k - x <= k - y
  BY <1>2, <1>3
<1>5. \A y \in T : y \in Nat /\ x \in Nat /\ x >= y
  BY <1>4
<1>6. Max(T) \in T /\ \A y \in T : Max(T) >= y
  BY <1>5 DEF Max
<1> QED BY <1>6

\* The latest interface before a descriptor.
LEMMA Latest ==
  ASSUME NEW buf, NEW k \in Nat, NEW h \in 1..k, buf[h].type = "interface"
  PROVE  /\ InterfaceOf(buf, k) \in 1..k /\ buf[InterfaceOf(buf, k)].type = "interface"
         /\ \A j \in 1..k : buf[j].type = "interface" => j <= InterfaceOf(buf, k)
<1> DEFINE T == {j \in 1..k : buf[j].type = "interface"}
<1>1. T \subseteq 1..k /\ h \in T
  OBVIOUS
<1>2. Max(T) \in T /\ \A y \in T : y <= Max(T)
  BY <1>1, NatMax
<1> QED BY <1>2 DEF InterfaceOf

\* Two descriptors behind the same interface have places of their own.
LEMMA PlacesApart ==
  ASSUME NEW buf, NEW k \in Nat, NEW j \in Nat, k < j,
         NEW h \in 1..k, buf[h].type = "interface",
         buf[k].type # "other", buf[j].type \in {"interface", "endpoint"},
         InterfaceOf(buf, j) = InterfaceOf(buf, k)
  PROVE  Place(buf, j) # Place(buf, k)
<1> DEFINE i == InterfaceOf(buf, k)
           Ends(n) == {x \in i..n : buf[x].type = "endpoint"}
<1>1. h \in 1..j /\ i \in 1..k /\ buf[i].type = "interface" /\ i \in Nat
  BY Latest
<1>2. buf[j].type = "endpoint"
  <2>1. buf[j].type = "interface" => j <= InterfaceOf(buf, j)
    BY <1>1, Latest
  <2> QED BY <1>1, <2>1
<1>3. j \in Ends(j) /\ j \notin Ends(k) /\ Ends(k) \subseteq Ends(j)
  BY <1>1, <1>2
<1> HIDE DEF i
<1>4. IsFiniteSet(Ends(j))
  <2>1. IsFiniteSet(i..j)
    BY <1>1, FS_Interval
  <2>2. Ends(j) \subseteq i..j
    OBVIOUS
  <2> HIDE DEF Ends
  <2> QED BY <2>1, <2>2, FS_Subset
<1> HIDE DEF Ends
<1>5. /\ Cardinality(Ends(j)) \in Nat /\ Cardinality(Ends(k)) \in Nat
      /\ Cardinality(Ends(k)) < Cardinality(Ends(j))
  <2>1. IsFiniteSet(Ends(k)) /\ Cardinality(Ends(k)) <= Cardinality(Ends(j))
    BY <1>3, <1>4, FS_Subset
  <2>2. Cardinality(Ends(k)) # Cardinality(Ends(j))
    BY <1>3, <1>4, FS_Subset
  <2> QED BY <1>4, <2>1, <2>2, FS_CardinalityType
<1> DEFINE Index(n) == IF buf[n].type = "interface" THEN 0 ELSE Cardinality(Ends(n))
<1>6. Index(j) # Index(k)
  BY <1>2, <1>5
<1>7. Place(buf, j)[3] = Index(j) /\ Place(buf, k)[3] = Index(k)
  BY DEF Place, Ends, i
<1> QED BY <1>6, <1>7

\* The configuration with its tail, in numbers.
LEMMA Sized ==
  ASSUME NEW c \in Configs, NEW t \in Tails
  PROVE  LET buf == c \o t
             n == Len(c)
             total == OffsetOf(c, n + 1)
         IN  /\ n \in Nat /\ Len(buf) \in Nat /\ n <= Len(buf)
             /\ DOMAIN c = 1..n /\ DOMAIN buf = 1..Len(buf)
             /\ \A k \in 1..n : buf[k] = c[k]
             /\ \A k \in 1..Len(buf) : buf[k].length \in Nat \ {0} /\ buf[k].type \in {"interface", "endpoint", "other"}
             /\ total \in Nat
             /\ \A k \in 1..n : LengthCounted(buf, k) <= total
             /\ n = 0 => total = ConfigSize
             /\ n > 0 => total > ConfigSize
             /\ n > 0 => \A k \in 1..Len(buf) :
                  OffsetOf(buf, k) + buf[k].length <= total + c[1].length <=> LengthCounted(buf, k) <= total
<1> DEFINE buf == c \o t
           n == Len(c)
           total == OffsetOf(c, n + 1)
           b == Bytes(buf)
<1>1. AreDescriptors(c) /\ AreDescriptors(t)
  BY ConfigsAssumption
<1>2. /\ AreDescriptors(buf) /\ Len(buf) = n + Len(t)
      /\ \A k \in 1..n : buf[k] = c[k]
      /\ \A k \in 0..n : b[k] = Bytes(c)[k]
  BY <1>1, Joined
<1>3. n \in Nat /\ Len(t) \in Nat /\ DOMAIN c = 1..n
  BY <1>1, BytesIs
<1> HIDE DEF buf
<1>4. /\ Len(buf) \in Nat /\ DOMAIN buf = 1..Len(buf) /\ b \in [0..Len(buf) -> Nat] /\ b[0] = 0
      /\ \A k \in 1..Len(buf) : b[k] = b[k - 1] + buf[k].length
  BY <1>2, BytesIs
<1>5. \A k \in 1..Len(buf) : buf[k].length \in Nat \ {0} /\ buf[k].type \in {"interface", "endpoint", "other"}
  BY <1>2, <1>4 DEF AreDescriptors
<1> HIDE DEF n
<1>6. n <= Len(buf) /\ total = 9 + b[n] /\ b[n] \in Nat
  <2>1. (n + 1) - 1 = n /\ n \in 0..n /\ n \in 0..Len(buf) /\ n <= Len(buf)
    BY <1>2, <1>3
  <2>2. total = 9 + Bytes(c)[n]
    BY <2>1 DEF OffsetOf, ConfigSize
  <2> QED BY <1>2, <1>4, <2>1, <2>2
<1> HIDE DEF total
<1>7. ASSUME NEW k \in 1..n
      PROVE  LengthCounted(buf, k) <= total
  <2>1. k \in 0..Len(buf) /\ n \in 0..Len(buf) /\ 1 \in 1..Len(buf) /\ k <= n
    BY <1>3, <1>4, <1>6
  <2>2. b[k] <= b[n] /\ b[k] \in Nat
    BY <1>2, <1>4, <2>1, BytesGrow
  <2>3. buf[1].length \in Nat
    BY <1>5, <2>1
  <2> QED BY <1>6, <2>2, <2>3, SMTT(30) DEF LengthCounted, ConfigSize
<1>8. n = 0 => total = ConfigSize
  BY <1>4, <1>6 DEF ConfigSize
<1>9. n > 0 => total > ConfigSize
  <2> SUFFICES ASSUME n > 0 PROVE total > ConfigSize
    OBVIOUS
  <2>1. 0 \in 0..Len(buf) /\ n \in 0..Len(buf) /\ 0 <= n /\ 0 < n
    BY <1>3, <1>4, <1>6
  <2>2. b[0] < b[n]
    BY <1>2, <2>1, BytesGrow
  <2> QED BY <1>4, <1>6, <2>2 DEF ConfigSize
<1>10. ASSUME n > 0, NEW k \in 1..Len(buf)
       PROVE  OffsetOf(buf, k) + buf[k].length <= total + c[1].length <=> LengthCounted(buf, k) <= total
  <2>1. 1 \in 1..n /\ 1 \in 1..Len(buf) /\ c[1].length = buf[1].length
    BY <1>2, <1>3, <1>4, <1>6, <1>10
  <2>2. buf[1].length \in Nat /\ buf[k].length \in Nat
    BY <1>5, <2>1
  <2>3. k - 1 \in 0..Len(buf) /\ k \in 0..Len(buf)
    BY <1>4
  <2>4. b[k - 1] \in Nat /\ b[k] = b[k - 1] + buf[k].length /\ b[k] \in Nat
    BY <1>4, <2>3
  <2>5. OffsetOf(buf, k) + buf[k].length = 9 + b[k]
    <3>1. OffsetOf(buf, k) = 9 + b[k - 1]
      BY DEF OffsetOf, ConfigSize
    <3> QED BY <2>2, <2>4, <3>1
  <2>6. LengthCounted(buf, k) = 9 + b[k] - buf[1].length
    BY DEF LengthCounted, ConfigSize
  <2>7. total \in Nat
    BY <1>6
  <2> HIDE DEF b
  <2> DEFINE first == buf[1].length
             upto == b[k]
  <2>8. first \in Nat /\ upto \in Nat /\ c[1].length = first
    BY <2>1, <2>2, <2>4
  <2> HIDE DEF first, upto
  <2>9. 9 + upto <= total + first <=> 9 + upto - first <= total
    BY <2>7, <2>8
  <2> QED BY <2>5, <2>6, <2>8, <2>9 DEF first, upto
<1>11. total \in Nat
  BY <1>6
<1> QED BY <1>2, <1>3, <1>4, <1>5, <1>6, <1>7, <1>8, <1>9, <1>10, <1>11 DEF buf, n, total

\* A descriptor of the configuration that fits and is not misled is kept in its place.
LEMMA KeptApart ==
  ASSUME NEW c \in Configs, NEW t \in Tails, NEW k \in DOMAIN c, c[k].type # "other",
         NEW j \in Visited(c \o t, OffsetOf(c, Len(c) + 1)), j > k, (c \o t)[j].type # "other",
         \A i \in DOMAIN (c \o t) \ DOMAIN c :
           (c \o t)[i].type = "interface" => ~(LengthCounted(c \o t, i) <= OffsetOf(c, Len(c) + 1))
  PROVE  Place(c \o t, j) # Place(c \o t, k)
<1> DEFINE buf == c \o t
           n == Len(c)
           total == OffsetOf(c, n + 1)
           ik == InterfaceOf(buf, k)
           ij == InterfaceOf(buf, j)
<1>1. /\ n \in Nat /\ Len(buf) \in Nat /\ n <= Len(buf)
      /\ DOMAIN c = 1..n /\ DOMAIN buf = 1..Len(buf)
      /\ \A i \in 1..n : buf[i] = c[i]
      /\ \A i \in 1..Len(buf) : buf[i].length \in Nat \ {0} /\ buf[i].type \in {"interface", "endpoint", "other"}
  BY Sized
<1>2. \A i \in DOMAIN buf \ DOMAIN c : buf[i].type = "interface" => ~(LengthCounted(buf, i) <= total)
  OBVIOUS
<1>3. j \in 1..Len(buf) /\ \A i \in 1..j : LengthCounted(buf, i) <= total
  BY <1>1 DEF Visited
<1>4. k \in 1..n /\ k < j /\ buf[k].type # "other" /\ buf[j].type # "other" /\ buf[k] = c[k]
  BY <1>1
<1> HIDE DEF buf, n, total
<1>5. PICK h \in 1..k : buf[h].type = "interface" /\ c[h].type = "interface"
  <2>1. CASE c[k].type = "interface"
    <3>1. k \in 1..k
      BY <1>1, <1>4
    <3> QED BY <1>4, <2>1, <3>1
  <2>2. CASE c[k].type # "interface"
    <3>1. c[k].type = "endpoint"
      <4>1. k \in 1..Len(buf)
        BY <1>1, <1>4
      <4> QED BY <1>1, <1>4, <2>2, <4>1
    <3>2. PICK h \in 1..k : c[h].type = "interface"
      BY <3>1, ConfigsAssumption
    <3>3. h \in 1..n
      BY <1>1, <1>4
    <3> QED BY <1>1, <3>2, <3>3
  <2> QED BY <2>1, <2>2
<1>6. k \in Nat /\ j \in Nat /\ h \in 1..j /\ buf[j].type \in {"interface", "endpoint"}
  BY <1>1, <1>3, <1>4, <1>5
<1>7. /\ ik \in 1..k /\ buf[ik].type = "interface"
      /\ \A i \in 1..k : buf[i].type = "interface" => i <= ik
  BY <1>5, <1>6, Latest
<1>8. /\ ij \in 1..j /\ buf[ij].type = "interface"
      /\ \A i \in 1..j : buf[i].type = "interface" => i <= ij
  BY <1>5, <1>6, Latest
<1>9. CASE ij = ik
  BY <1>4, <1>5, <1>6, <1>9, PlacesApart DEF buf
<1>10. CASE ij # ik
  <2> HIDE DEF ij, ik
  <2>1. ij \in 1..Len(buf) /\ ij \in 1..n
    <3>1. ij \in 1..Len(buf) /\ LengthCounted(buf, ij) <= total
      BY <1>3, <1>8
    <3> QED BY <1>1, <1>2, <1>8, <3>1
  <2>2. ik \in 1..n
    BY <1>1, <1>4, <1>7
  <2>3. c[ij].type = "interface" /\ c[ik].type = "interface" /\ buf[ij] = c[ij] /\ buf[ik] = c[ik]
    BY <1>1, <1>7, <1>8, <2>1, <2>2
  <2>4. c[ij].number # c[ik].number \/ c[ij].alt # c[ik].alt
    <3>1. \A x \in DOMAIN c : \A y \in DOMAIN c :
            y # x /\ c[y].type = "interface" /\ c[x].type = "interface" =>
              c[y].number # c[x].number \/ c[y].alt # c[x].alt
      BY ConfigsAssumption
    <3>2. ij \in DOMAIN c /\ ik \in DOMAIN c /\ ij # ik
      BY <1>1, <1>10, <2>1, <2>2
    <3>3. c[ij].type = "interface" /\ c[ik].type = "interface"
      BY <2>3
    <3> QED BY <3>1, <3>2, <3>3
  <2>5. /\ Place(buf, j)[1] = buf[ij].number /\ Place(buf, j)[2] = buf[ij].alt
        /\ Place(buf, k)[1] = buf[ik].number /\ Place(buf, k)[2] = buf[ik].alt
    BY DEF Place, ij, ik
  <2> QED BY <2>3, <2>4, <2>5 DEF buf
<1> QED BY <1>9, <1>10

\* Whatever devices send.
LEMMA ConfigsAlwaysKept == ConfigsKept
<1> SUFFICES ASSUME NEW c \in Configs, NEW t \in Tails, NEW header \in Headers
             PROVE  LET buf == c \o t
                        total == OffsetOf(c, Len(c) + 1)
                        sent == {k \in DOMAIN c : c[k].type # "other"}
                        fits == \A k \in DOMAIN c : ~TooBig(c[k])
                        overfull == \E k \in DOMAIN c : Outside(buf, k)
                        misled == \E k \in DOMAIN buf \ DOMAIN c :
                                    /\ buf[k].type = "interface" \/ Outside(buf, k)
                                    /\ OffsetOf(buf, k) + buf[k].length <= total + c[1].length
                    IN  /\ fits /\ ~overfull /\ ~misled =>
                             sent \subseteq Kept(buf, total) /\ (Refused(header, buf, total) <=> HeaderRefused(header))
                        /\ ~fits => Refused(header, buf, total)
  BY DEF ConfigsKept
<1> DEFINE buf == c \o t
           n == Len(c)
           total == OffsetOf(c, n + 1)
           sent == {k \in DOMAIN c : c[k].type # "other"}
           fits == \A k \in DOMAIN c : ~TooBig(c[k])
           overfull == \E k \in DOMAIN c : Outside(buf, k)
           misled == \E k \in DOMAIN buf \ DOMAIN c :
                       /\ buf[k].type = "interface" \/ Outside(buf, k)
                       /\ OffsetOf(buf, k) + buf[k].length <= total + c[1].length
<1>1. /\ n \in Nat /\ Len(buf) \in Nat /\ n <= Len(buf)
      /\ DOMAIN c = 1..n /\ DOMAIN buf = 1..Len(buf)
      /\ \A k \in 1..n : buf[k] = c[k]
      /\ total \in Nat /\ \A k \in 1..n : LengthCounted(buf, k) <= total
      /\ n = 0 => total = ConfigSize
      /\ n > 0 => total > ConfigSize
      /\ n > 0 => \A k \in 1..Len(buf) :
           OffsetOf(buf, k) + buf[k].length <= total + c[1].length <=> LengthCounted(buf, k) <= total
  BY Sized
<1>2. ASSUME ~misled, NEW k \in sent, NEW j \in Visited(buf, total), j > k, buf[j].type # "other"
      PROVE  Place(buf, j) # Place(buf, k)
  <2>1. n > 0
    BY <1>1
  <2>2. \A i \in DOMAIN buf \ DOMAIN c : buf[i].type = "interface" => ~(LengthCounted(buf, i) <= total)
    BY <1>1, <1>2, <2>1
  <2> QED BY <1>2, <2>2, KeptApart
<1> HIDE DEF buf, n, total
<1>3. ASSUME NEW k \in 1..n, \A j \in 1..k : j < k => ~TooBig(c[j])
      PROVE  k \in Visited(buf, total)
  <2>1. k \in DOMAIN buf /\ \A j \in 1..k : j \in 1..n
    BY <1>1
  <2>2. \A j \in 1..k : LengthCounted(buf, j) <= total /\ buf[j] = c[j]
    BY <1>1, <2>1
  <2> QED BY <1>3, <2>1, <2>2 DEF Visited
<1>9. ASSUME ~overfull, ~misled, n > 0, NEW j \in Visited(buf, total)
      PROVE  ~Outside(buf, j)
  <2>1. CASE j \in DOMAIN c
    BY <1>9, <2>1
  <2>2. CASE j \notin DOMAIN c
    <3>1. j \in DOMAIN buf /\ \A i \in 1..j : LengthCounted(buf, i) <= total
      BY DEF Visited
    <3>2. j \in 1..Len(buf) /\ j \in 1..j
      BY <1>1, <3>1
    <3>3. OffsetOf(buf, j) + buf[j].length <= total + c[1].length
      BY <1>1, <1>9, <3>1, <3>2
    <3> QED BY <1>9, <2>2, <3>1, <3>3
  <2> QED BY <2>1, <2>2
<1>4. ASSUME fits, ~overfull, ~misled
      PROVE  sent \subseteq Kept(buf, total)
  <2> SUFFICES ASSUME NEW k \in sent PROVE k \in Kept(buf, total)
    OBVIOUS
  <2>1. k \in 1..n /\ n > 0 /\ total > ConfigSize /\ buf[k].type # "other"
    BY <1>1
  <2>2. k \in Visited(buf, total)
    <3>1. \A j \in 1..k : j \in DOMAIN c
      BY <1>1, <2>1
    <3> QED BY <1>3, <1>4, <2>1, <3>1
  <2>3. \A j \in Visited(buf, total) :
          ~Outside(buf, j) /\ (j > k /\ buf[j].type # "other" => Place(buf, j) # Place(buf, k))
    BY <1>2, <1>4, <1>9, <2>1
  <2> QED BY <2>1, <2>2, <2>3 DEF Kept
<1>5. ASSUME fits, ~misled, Refused(header, buf, total), ~HeaderRefused(header)
      PROVE  FALSE
  <2>1. PICK k \in Visited(buf, total) : TooBig(buf[k]) /\ total > ConfigSize
    BY <1>5 DEF Refused
  <2>2. k \in 1..Len(buf) /\ LengthCounted(buf, k) <= total /\ n > 0 /\ buf[k].type = "interface"
    <3>1. k \in 1..Len(buf) /\ \A j \in 1..k : LengthCounted(buf, j) <= total
      BY <1>1 DEF Visited
    <3>2. k \in 1..k
      BY <1>1, <3>1
    <3>3. n > 0
      BY <1>1, <2>1 DEF ConfigSize
    <3> QED BY <2>1, <3>1, <3>2, <3>3 DEF TooBig
  <2>3. k \in DOMAIN c
    BY <1>1, <1>5, <2>2
  <2> QED BY <1>1, <1>5, <2>1, <2>3
<1>6. ASSUME ~fits
      PROVE  Refused(header, buf, total)
  <2> DEFINE Big == {k \in 1..n : TooBig(c[k])}
  <2>1. Big \subseteq Nat /\ Big # {}
    BY <1>1, <1>6
  <2>2. PICK k \in Big : \A j \in Big : k <= j
    BY <2>1, NatMin, ZenonT(30)
  <2>3. \A j \in 1..k : j < k => ~TooBig(c[j])
    <3>1. \A j \in 1..k : j \in 1..n /\ j \in Int /\ k \in Int
      BY <1>1
    <3> QED BY <2>2, <3>1
  <2>4. k \in Visited(buf, total) /\ TooBig(buf[k]) /\ n > 0
    BY <1>1, <1>3, <2>3
  <2> QED BY <1>1, <2>4 DEF Refused
<1>7. Refused(header, buf, total) \/ ~HeaderRefused(header)
  BY DEF Refused
<1> HIDE DEF sent, fits, overfull, misled
<1>8. /\ fits /\ ~overfull /\ ~misled =>
           sent \subseteq Kept(buf, total) /\ (Refused(header, buf, total) <=> HeaderRefused(header))
      /\ ~fits => Refused(header, buf, total)
  BY <1>4, <1>5, <1>6, <1>7
<1> QED BY <1>8 DEF buf, n, total, sent, fits, overfull, misled

\* What devices send is kept or refused with any number of interfaces and endpoints;
\* excepted are devices that send more endpoints than ep[] has, and those behind
\* whose answer an interface, or an endpoint too many, is left in the shared buffer
\* within the length of their first descriptor (parse_config_descriptor).
THEOREM ConfigsAlwaysParsed == Spec => []ConfigParsed
<1>1. ConfigParsed
  BY ConfigsAlwaysKept DEF ConfigParsed
<1> QED BY <1>1, PTL
=============================================================================
