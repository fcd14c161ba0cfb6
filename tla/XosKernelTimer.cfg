SPECIFICATION FairSpec

CONSTANTS
  Idle = idle
  User = user
  Other = other
  Isr = isr
  None = none
  s1 = s1
  s2 = s2
  Tasks <- MCTasks
  Prio <- EqualPrio
  Sems <- OneSem
  Takers <- UserTakes
  Givers <- OtherGives
  IsrSems <- OneSem
  Delays <- UpToTwo
  TakeTimeouts <- AtOnceOrTimed
  Yielders = {other}
  HalfTick = 4
  MaxTicks = 8
  MaxValue = 2

PROPERTIES
  SleeperWoken
  Contract

\* A broken kernel takes no step, and ticks and counts are bounded.
CHECK_DEADLOCK FALSE
