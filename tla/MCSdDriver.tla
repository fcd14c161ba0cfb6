----------------------------- MODULE MCSdDriver -----------------------------
(***************************************************************************)
(* A small instance of SdDriver: transfers of one sector, of one part, of  *)
(* a part and a rest, and of three parts.                                  *)
(***************************************************************************)
EXTENDS SdDriver

FewSizes == {1, 16, 17, 40}
=============================================================================
