----------------------------- MODULE MCXosHeap ------------------------------
(***************************************************************************)
(* Small instances of XosHeap.                                             *)
(***************************************************************************)
EXTENDS XosHeap

MCNull == -1
=============================================================================
