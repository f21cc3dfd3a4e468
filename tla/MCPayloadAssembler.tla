------------------------ MODULE MCPayloadAssembler ------------------------
(***************************************************************************)
(* Instances of PayloadAssembler for TLC: four frames, so that a frame, a  *)
(* lost one and a third with the frame id of the first can meet.           *)
(***************************************************************************)
EXTENDS PayloadAssembler
=============================================================================
