---------------------------- MODULE StreamService ----------------------------
(***************************************************************************)
(* What a UVC stream handle promises its owner, with no thread, transfer   *)
(* or lock in sight.  An activity is anything that still uses the handle:  *)
(* a USB transfer the kernel or a callback holds, a thread that delivers   *)
(* frames.  Activities begin while the stream is being started or runs,    *)
(* they end by themselves or because the owner stops the stream, and       *)
(*   - a stop returns only when none is left,                              *)
(*   - the handle is freed only when none is left, and                     *)
(*   - a stop that has begun returns.                                      *)
(***************************************************************************)
CONSTANT Activities

VARIABLES session,  \* what the owner is doing with the handle
          active    \* the activities that still use the handle

sVars == <<session, active>>

Sessions == {"none", "open", "streaming", "stopping", "closed"}

ServiceInit == session = "none" /\ active = {}

Open == session = "none" /\ session' = "open" /\ UNCHANGED active

Start == session = "open" /\ active = {} /\ session' = "streaming" /\ UNCHANGED active

\* A start that gives up before any activity began.
StartFails == session = "streaming" /\ active = {} /\ session' = "open" /\ UNCHANGED active

Begin == /\ session = "streaming"
         /\ \E A \in SUBSET Activities : active' = active \union A
         /\ UNCHANGED session

End == \E a \in active : active' = active \ {a} /\ UNCHANGED session

Stop == session = "streaming" /\ session' = "stopping" /\ UNCHANGED active

Stopped == session = "stopping" /\ active = {} /\ session' = "open" /\ UNCHANGED active

Close == session = "open" /\ active = {} /\ session' = "closed" /\ UNCHANGED active

ServiceNext == Open \/ Start \/ StartFails \/ Begin \/ End \/ Stop \/ Stopped \/ Close

StreamPromise == ServiceInit /\ [][ServiceNext]_sVars

\* A stop that was asked for returns.
StopReturns == session = "stopping" ~> session = "open"
=============================================================================
