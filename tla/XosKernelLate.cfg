SPECIFICATION LateSpec

CONSTANTS
  Idle = idle
  User = user
  Other = other
  Isr = isr
  None = none
  s1 = s1
  s2 = s2
  Tasks <- MCTasks
  Prio <- UserAbove
  Sems <- TwoSems
  Takers <- UserTakesBoth
  Givers <- OtherGivesFirst
  IsrSems <- TwoSems
  Delays <- UpToTwo
  TakeTimeouts <- TimedOrNot
  Yielders = {other}
  HalfTick = 16
  MaxTicks = 4
  MaxValue = 2

INVARIANTS
  KernelInv
  ListsAgree
  SleepersOnTime
  NoLostWakeup
  BreaksTwoWays

PROPERTIES
  DelayNotEarly
  PreemptsProperly

\* A broken kernel takes no step, and ticks and counts are bounded.
CHECK_DEADLOCK FALSE
