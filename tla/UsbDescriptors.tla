--------------------------- MODULE UsbDescriptors ---------------------------
(***************************************************************************)
(* What enumeration makes of a device's descriptors (usbh_core.c): the     *)
(* configuration cut into interfaces and endpoints, and the class driver   *)
(* found for an interface.                                                 *)
(*                                                                         *)
(* A buffer is the sequence of the descriptors behind the configuration's  *)
(* own: first those the device has sent, then what an earlier, longer      *)
(* answer has left in the same buffer.  A zero length ends it.             *)
(***************************************************************************)
EXTENDS Integers, Sequences, SequencesExt, FiniteSetsExt

CONSTANTS
  MaxInterfaces, MaxAltsettings, MaxEndpoints,   \* CONFIG_USBHOST_MAX_...
  Configs,                                       \* what devices may send
  Tails,                                         \* what may be left behind it
  Headers                                        \* their first descriptors

\* The lengths of a device and of a configuration descriptor.
DeviceSize == 18
ConfigSize == 9

\* parse_device_descriptor: what is kept of an answer of length bytes.  The first
\* bytes are only checked, and "none" says that the answer is refused.
DeviceKept(desc, length) ==
  IF desc.length # DeviceSize \/ desc.type # "device" \/ length <= 8 THEN "none" ELSE desc

\* the bytes of the first descriptors, and where descriptor k is
Bytes(buf) == LET upto[k \in 0..Len(buf)] == IF k = 0 THEN 0 ELSE upto[k - 1] + buf[k].length IN upto
OffsetOf(buf, k) == ConfigSize + Bytes(buf)[k - 1]
-----------------------------------------------------------------------------
(* The configuration: parse_config_descriptor                              *)

\* The configuration's own descriptor comes first.
HeaderRefused(header) == header.length # ConfigSize \/ header.type # "config"

\* mutant: the descriptors count from the first byte of the configuration twice
LengthCountedTwice(buf, k) == OffsetOf(buf, k) + ConfigSize

\* desc_len at descriptor k: the pointer has moved before the length is added, so
\* that the first descriptor is not counted and k itself is.
LengthCounted(buf, k) == ConfigSize + Bytes(buf)[k] - buf[1].length

\* An interface that does not fit into the tables ends the search with an error.
TooBig(d) ==
  /\ d.type = "interface"
  /\ \/ d.number > MaxInterfaces - 1
     \/ d.alt > MaxAltsettings - 1
     \/ d.endpoints > MaxEndpoints

\* the descriptors that are looked at
Visited(buf, total) ==
  {k \in DOMAIN buf : \A j \in 1..k :
     LengthCounted(buf, j) <= total /\ (j < k => ~TooBig(buf[j]))}

Refused(header, buf, total) ==
  HeaderRefused(header) \/ (total > ConfigSize /\ \E k \in Visited(buf, total) : TooBig(buf[k]))

\* Where descriptor k is kept: an interface in its own place, an endpoint in the
\* next one of the latest interface.
InterfaceOf(buf, k) == Max({j \in 1..k : buf[j].type = "interface"})
Place(buf, k) ==
  LET i == InterfaceOf(buf, k)
      index == Cardinality({j \in i..k : buf[j].type = "endpoint"})
  IN  <<buf[i].number, buf[i].alt, IF buf[k].type = "interface" THEN 0 ELSE index>>

\* The number of an endpoint is not compared with the size of ep[]: one beyond it
\* is written over other entries.
Outside(buf, k) == buf[k].type = "endpoint" /\ Place(buf, k)[3] > MaxEndpoints

\* What is kept: later descriptors replace earlier ones of the same place, and no
\* entry counts when something has been written outside.
Kept(buf, total) ==
  LET seen == IF total > ConfigSize THEN Visited(buf, total) ELSE {}
  IN  {k \in seen :
         /\ buf[k].type # "other"
         /\ \A j \in seen :
              /\ ~Outside(buf, j)
              /\ j > k /\ buf[j].type # "other" => Place(buf, j) # Place(buf, k)}
-----------------------------------------------------------------------------
(* The class driver: usbh_find_class_driver                                *)

\* An entry of the table is compared in the fields of the first of these sets
\* that its match flags include.
MatchLevels ==
  << {"vendor", "product", "class", "subclass", "protocol"},
     {"class", "subclass", "protocol"},
     {"vendor", "product", "class"},
     {"class", "subclass"},
     {"class"} >>

Matches(entry, device) ==
  \E n \in DOMAIN MatchLevels :
    /\ MatchLevels[n] \subseteq entry.flags
    /\ \A m \in 1..(n - 1) : ~(MatchLevels[m] \subseteq entry.flags)
    /\ \A field \in MatchLevels[n] : entry[field] = device[field]

\* hub_class_info and msc_class_info; the hub's subclass and protocol are not compared
ClassTable ==
  << [flags |-> {"class"}, vendor |-> 0, product |-> 0, class |-> "hub",
      subclass |-> "none", protocol |-> "none", driver |-> "hub"],
     [flags |-> {"class", "subclass", "protocol"}, vendor |-> 0, product |-> 0,
      class |-> "storage", subclass |-> "scsi", protocol |-> "bulkonly", driver |-> "disk"] >>

\* "none" stands for no driver
ClassDriver(device) ==
  LET found == {n \in DOMAIN ClassTable : Matches(ClassTable[n], device)}
  IN  IF found = {} THEN "none" ELSE ClassTable[Min(found)].driver
-----------------------------------------------------------------------------
\* Descriptors have a length; those that a device sends have their endpoints behind
\* an interface, and no two interfaces of the same number and alternate setting.
AreDescriptors(s) ==
  /\ s \in Seq(ToSet(s))
  /\ \A k \in DOMAIN s : s[k].length \in Nat \ {0} /\ s[k].type \in {"interface", "endpoint", "other"}

ASSUME ConfigsAssumption ==
  /\ \A s \in Configs \cup Tails : AreDescriptors(s)
  /\ \A c \in Configs : \A k \in DOMAIN c :
       /\ c[k].type = "endpoint" => \E j \in 1..k : c[j].type = "interface"
       /\ \A j \in DOMAIN c :
            j # k /\ c[j].type = "interface" /\ c[k].type = "interface" =>
              c[j].number # c[k].number \/ c[j].alt # c[k].alt

\* All that a device sends is kept where it belongs or, if it does not fit, the
\* device is refused (parse_config_descriptor).  Two kinds of device are excepted:
\* one that sends more endpoints behind an interface than ep[] has, and one whose
\* answer has, within the length of its first descriptor, remains of an earlier
\* answer that are an interface or an endpoint too many: it may be refused, or
\* what it has sent is overwritten.
ConfigsKept ==
  \A config \in Configs, tail \in Tails, header \in Headers :
    LET buf == config \o tail
        total == OffsetOf(config, Len(config) + 1)
        sent == {k \in DOMAIN config : config[k].type # "other"}
        fits == \A k \in DOMAIN config : ~TooBig(config[k])
        overfull == \E k \in DOMAIN config : Outside(buf, k)
        misled == \E k \in DOMAIN buf \ DOMAIN config :
                    /\ buf[k].type = "interface" \/ Outside(buf, k)
                    /\ OffsetOf(buf, k) + buf[k].length <= total + config[1].length
    IN  /\ fits /\ ~overfull /\ ~misled =>
             sent \subseteq Kept(buf, total) /\ (Refused(header, buf, total) <=> HeaderRefused(header))
        /\ ~fits => Refused(header, buf, total)
=============================================================================
