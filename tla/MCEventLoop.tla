---------------------------- MODULE MCEventLoop ----------------------------
(***************************************************************************)
(* Instances of EventLoop for TLC: a camera or two, the event thread, the  *)
(* main thread that opens and closes, and an application thread beside it. *)
(* No symmetry, since the runs check liveness.                             *)
(***************************************************************************)
EXTENDS EventLoop
=============================================================================
