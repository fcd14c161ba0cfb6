SPECIFICATION FairSpec

CONSTANTS
  RootPort = 0
  ExtPorts <- TwoPorts
  Threads <- TwoThreads
  MaxAddr = 4
  Disks = 1
  MaxChanges = 2
  MaxFails = 1
  MaxInterfaces = 2
  MaxAltsettings = 1
  MaxEndpoints = 1
  Configs <- SomeConfigs
  Tails <- SomeTails
  Headers <- SomeHeaders

INVARIANTS
  AddressesDistinct
  InstancesAgree
  HubListens
  ConfigParsed

\* With no device to look after everyone waits.
CHECK_DEADLOCK FALSE

PROPERTIES
  PortsReleased
