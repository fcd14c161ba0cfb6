---------------------------- MODULE MCXosKernel -----------------------------
(***************************************************************************)
(* Small instances of XosKernel: IDLE, XosUser and one more task.          *)
(***************************************************************************)
EXTENDS XosKernelContract

CONSTANTS Other,    \* a task that XosUser may create
          s1, s2    \* semaphores

MCTasks == {Idle, User, Other}

\* XosUser and the other task at DEFAULT_TASK_PRIO, IDLE at MAX_PRIORITY
EqualPrio == (Idle :> 8) @@ (User :> 4) @@ (Other :> 4)

\* XosUser above the other task, as the USB enumeration thread is below the
\* tasks that use the devices it finds
UserAbove == (Idle :> 8) @@ (User :> 4) @@ (Other :> 5)

OneSem == {s1}

UserTakes == (s1 :> {User})
OtherGives == (s1 :> {Other})

ForEver == {-1}
TimedOrNot == {-1, 0, 1}
AtOnceOrTimed == {0, 1}
UpToTwo == {1, 2}
NoTimeouts == {}
=============================================================================
