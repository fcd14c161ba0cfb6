-------------------------- MODULE MCXosKernelLate ---------------------------
(***************************************************************************)
(* A small instance of XosKernelLate: a task that takes two semaphores,    *)
(* with and without a timeout, and sleeps, while a less urgent task and a  *)
(* handler give them.                                                      *)
(***************************************************************************)
EXTENDS MCXosKernel, XosKernelLate

TwoSems == {s1, s2}
UserTakesBoth == (s1 :> {User}) @@ (s2 :> {User})
OtherGivesFirst == (s1 :> {Other}) @@ (s2 :> {})
=============================================================================
