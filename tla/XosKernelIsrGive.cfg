SPECIFICATION Spec

CONSTANTS
  Idle = idle
  User = user
  Other = other
  Isr = isr
  None = none
  s1 = s1
  s2 = s2
  Tasks <- MCTasks
  Prio <- EqualPrio
  Sems <- OneSem
  Takers <- UserTakes
  Givers <- OtherGives
  IsrSems <- OneSem
  Delays <- NoTimeouts
  TakeTimeouts <- ForEver
  Yielders = {}
  HalfTick = 16
  MaxTicks = 0
  MaxValue = 2

INVARIANTS
  GiveIsIsrSafe

\* A broken kernel takes no step, and ticks and counts are bounded.
CHECK_DEADLOCK FALSE
