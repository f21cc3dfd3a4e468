--------------------------- MODULE TransferService ---------------------------
(***************************************************************************)
(* What libusb promises the user of one asynchronous transfer: a           *)
(* submission is either refused at once, with nothing left behind, or      *)
(* answered by exactly one callback, and by then the kernel holds nothing  *)
(* of it.  In the callback the transfer may be submitted again.            *)
(***************************************************************************)
VARIABLES state,  \* "idle", "flying" or "callback"
          held    \* the kernel still holds, or has yet to hand back, a part of the transfer

tVars == <<state, held>>

ServiceInit == state = "idle" /\ held = FALSE

Submit   == /\ state \in {"idle", "callback"}
            /\ state' = "flying" /\ held' \in BOOLEAN

\* While it flies its parts are handed back.
Progress == state = "flying" /\ UNCHANGED state /\ held' \in BOOLEAN

Complete == state = "flying" /\ held = FALSE /\ state' = "callback" /\ UNCHANGED held

Return   == state = "callback" /\ state' = "idle" /\ UNCHANGED held

ServiceNext == Submit \/ Progress \/ Complete \/ Return

TransferPromise == ServiceInit /\ [][ServiceNext]_tVars
=============================================================================
