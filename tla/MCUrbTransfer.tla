---------------------------- MODULE MCUrbTransfer ----------------------------
(***************************************************************************)
(* Instances of UrbTransfer for TLC.  Three URBs are the fewest for which  *)
(* the order of discarded URBs shows; the second submission meets what the *)
(* first left in the transfer.                                             *)
(***************************************************************************)
EXTENDS UrbTransfer
=============================================================================
