------------------------- MODULE MCStreamLifecycle -------------------------
(***************************************************************************)
(* Instances of StreamLifecycle for TLC.  Two slots are enough for the     *)
(* escapes the cancel loop has to survive: at most one transfer is in a    *)
(* callback while the others are in flight.  Two starts let a stopped      *)
(* stream be started again.                                                *)
(***************************************************************************)
EXTENDS StreamLifecycle
=============================================================================
