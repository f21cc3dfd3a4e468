--------------------------- MODULE MCFrameHandoff ---------------------------
(***************************************************************************)
(* Instances of FrameHandoff for TLC.  The sequence numbers wrap within    *)
(* the frames the camera sends, and the second start meets what the first  *)
(* one left behind.                                                        *)
(***************************************************************************)
EXTENDS FrameHandoff
=============================================================================
