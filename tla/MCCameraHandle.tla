--------------------------- MODULE MCCameraHandle ---------------------------
(***************************************************************************)
(* Instances of CameraHandle for TLC.                                      *)
(***************************************************************************)
EXTENDS CameraHandle, TLC

Interfaces == Permutations(StreamIfs)
=============================================================================
