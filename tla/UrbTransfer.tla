----------------------------- MODULE UrbTransfer -----------------------------
(***************************************************************************)
(* One libusb_transfer on Android (libusb/io.c, libusb/os/android_usbfs.c) *)
(* that is split into several URBs: submission, cancellation, the reaping  *)
(* of its URBs by the event thread and the callback.                       *)
(*                                                                         *)
(* tpriv->reap_action says what the next reaped URB means.  The handlers   *)
(* run under itransfer->lock, as submission and cancellation do, so each   *)
(* is one action; what handle_bulk_completion does after it unlocked (it   *)
(* reads reap_action again) is an action of its own.                       *)
(*                                                                         *)
(* The kernel (external) completes the URBs of an endpoint in order.  A    *)
(* discarded URB is handed back as cancelled, in the order of the discards *)
(* (usb_kill_urb waits for each).  When URBs are chained by                *)
(* USBFS_URB_BULK_CONTINUATION it cancels the rest of a chain itself as    *)
(* soon as one of it does not transfer in full.                            *)
(***************************************************************************)
EXTENDS Naturals, Sequences, SequencesExt

CONSTANTS NumUrbs,     \* URBs a transfer is split into
          Kinds,       \* kinds of transfer to look at, see Kind
          MaxSubmits   \* bound: submissions

\* "chained": bulk with USBFS_CAP_BULK_CONTINUATION; "split": bulk without; "iso"
ASSUME UrbAssumption == /\ NumUrbs \in Nat \ {0}
                        /\ MaxSubmits \in Nat
                        /\ Kinds \subseteq {"chained", "split", "iso"}

VARIABLES
    kind,      \* the kind of the transfer
    attached,  \* the device is there
    flying,    \* it is in ctx->flying_transfers
    urbs,      \* tpriv->urbs (or iso_urbs) is set
    retired,   \* tpriv->num_retired
    action,    \* tpriv->reap_action
    status,    \* tpriv->reap_status
    timedOut,  \* USBI_TRANSFER_TIMED_OUT
    pending,   \* kernel: the URBs it works on, in order
    done,      \* kernel: URBs to be reaped, in order, with their status
    event,     \* where the event thread is, and what it will report
    submits,   \* number of submissions
    asked,     \* ghost: the transfer was cancelled or timed out since its submission
    broken     \* ghost: how the first URB that did not end in full ended since then

tpriv  == <<urbs, retired, action, status>>
kernel == <<pending, done>>
vars   == <<kind, attached, flying, urbs, retired, action, status, timedOut, pending, done,
            event, submits, asked, broken>>

Urbs == 0..(NumUrbs - 1)
LastUrb == NumUrbs - 1
Bulk == kind # "iso"

\* How a URB ended: with all its bytes, with fewer, discarded, or with an error.
UrbStatus == {"full", "short", "cancelled", "gone", "stall", "overflow", "error"}
Reapable  == [urb : Urbs, status : UrbStatus]
Actions   == {"NORMAL", "SUBMIT_FAILED", "CANCELLED", "COMPLETED_EARLY", "ERROR"}
Results   == {"COMPLETED", "CANCELLED", "TIMED_OUT", "ERROR", "NO_DEVICE", "STALL", "OVERFLOW"}

Idle == [at |-> "idle", result |-> "COMPLETED"]

Init ==
    /\ kind \in Kinds /\ attached = TRUE
    /\ flying = FALSE /\ urbs = FALSE
    /\ retired = 0 /\ action = "NORMAL" /\ status = "COMPLETED" /\ timedOut = FALSE
    /\ pending = <<>> /\ done = <<>>
    /\ event = Idle /\ submits = 0
    /\ asked = FALSE /\ broken = "full"

------------------------------------------------------------------------------
(* The kernel *)

FirstUrbs(n)   == [i \in 1..n |-> i - 1]
Handed(seq, s) == [i \in DOMAIN seq |-> [urb |-> seq[i], status |-> s]]

\* How the URB at the head may end by itself: an iso URB has no short end, and a bulk URB
\* overflows only if it is the last ("overflow can only ever occur in the last urb").
Natural(u) ==
    IF Bulk THEN {"full", "short", "gone", "stall", "error"}
                 \union (IF u = LastUrb THEN {"overflow"} ELSE {})
            ELSE {"full", "gone", "error"}

\* The endpoint finishes the URB at the head of its queue.
KernelCompletes ==
    /\ pending # <<>>
    /\ \E s \in Natural(Head(pending)) :
         LET torn == kind = "chained" /\ s # "full"
             rest == Tail(pending)
         IN /\ done' = done \o Handed(<<Head(pending)>>, s)
                            \o (IF torn THEN Handed(rest, "cancelled") ELSE <<>>)
            /\ pending' = IF torn THEN <<>> ELSE rest
    /\ UNCHANGED <<kind, attached, flying, tpriv, timedOut, event, submits, asked, broken>>

\* A ...Variant is the definition after it with a bug a run must notice.
DiscardVariant(first, reaped) == done' = reaped /\ UNCHANGED pending

\* discard_urbs from the last URB down to the first, with reaped left to be reaped; the
\* kernel, which works on them in ascending order, answers EINVAL for one it has finished.
Discard(first, reaped) ==
    \E kept \in 0..Len(pending) :
        /\ \A i \in DOMAIN pending : i <= kept <=> pending[i] < first
        /\ done' = reaped \o Handed(Reverse(SubSeq(pending, kept + 1, Len(pending))), "cancelled")
        /\ pending' = SubSeq(pending, 1, kept)

------------------------------------------------------------------------------
(* libusb_submit_transfer, by the application or in the callback *)

ResetActionVariant == IF action = "CANCELLED" THEN action ELSE "NORMAL"
ResetAction        == "NORMAL"

ResetRetiredVariant == retired
ResetRetired        == 0

\* The submission is accepted and the transfer flies; lost URBs were refused.
Accept(lost, newAction) ==
    /\ event.at \in {"idle", "callback"} /\ ~flying /\ ~urbs
    /\ attached /\ submits < MaxSubmits
    /\ submits' = submits + 1
    /\ flying' = TRUE /\ urbs' = TRUE /\ timedOut' = FALSE
    /\ retired' = ResetRetired + lost
    /\ action' = newAction /\ status' = "COMPLETED"
    /\ asked' = FALSE /\ broken' = "full"
    /\ UNCHANGED <<kind, attached, event>>

Submit ==
    /\ Accept(0, ResetAction)
    /\ pending' = FirstUrbs(NumUrbs)
    /\ UNCHANGED done

\* URB n is refused: the n before it are discarded, the rest count as retired, and the
\* submission is reported as a success.  (When URB 0 is refused so is the submission, and
\* nothing is left of it.)
SubmitInPart(n) ==
    /\ Accept(NumUrbs - n, "SUBMIT_FAILED")
    /\ done' = done \o Handed(Reverse(FirstUrbs(n)), "cancelled")
    /\ UNCHANGED pending

\* EREMOTEIO: URB n of a chain is not needed, because URB j before it ended short.
SubmitEnough(n, j) ==
    /\ kind = "chained"
    /\ Accept(NumUrbs - n, "COMPLETED_EARLY")
    /\ done' = done \o [i \in 1..n |->
                           [urb |-> i - 1, status |-> CASE i - 1 < j -> "full"
                                                        [] i - 1 = j -> "short"
                                                        [] OTHER     -> "cancelled"]]
    /\ UNCHANGED pending

------------------------------------------------------------------------------
(* Cancellation *)

\* op_cancel_transfer: it marks the transfer even when it is not in flight (NOT_FOUND).
OpCancel ==
    /\ action' = IF Bulk /\ action = "ERROR" THEN action ELSE "CANCELLED"
    /\ IF urbs THEN Discard(0, done) ELSE UNCHANGED kernel
    /\ asked' = TRUE

\* libusb_cancel_transfer
Cancel ==
    /\ submits > 0
    /\ OpCancel
    /\ UNCHANGED <<kind, attached, flying, urbs, retired, status, timedOut, event, submits, broken>>

\* handle_timeout, by the event thread between two reaps
Timeout ==
    /\ event.at = "idle" /\ flying /\ ~timedOut
    /\ timedOut' = TRUE
    /\ OpCancel
    /\ UNCHANGED <<kind, attached, flying, urbs, retired, status, event, submits, broken>>

------------------------------------------------------------------------------
(* The event thread: reap_for_handle and what it calls *)

AllRetiredVariant(n) == n + 1 >= NumUrbs
AllRetired(n)        == n = NumUrbs

\* The last part of handle_*_completion under the lock.
Finish(result) == urbs' = FALSE /\ event' = [at |-> "completing", result |-> result]
GoOn           == UNCHANGED <<urbs, event>>

ErrorResultVariant(s) == CASE s = "gone" -> "NO_DEVICE" [] OTHER -> "COMPLETED"
ErrorResult(s) == CASE s = "gone"     -> "NO_DEVICE"
                    [] s = "stall"    -> "STALL"
                    [] s = "overflow" -> "OVERFLOW"
                    [] s = "error"    -> "ERROR"
                    [] OTHER          -> "COMPLETED"

\* handle_bulk_completion while reap_action is not NORMAL: wait for the last URB.
ReapAbnormal ==
    /\ status' = IF AllRetired(retired + 1) /\ action # "COMPLETED_EARLY" /\ status = "COMPLETED"
                   THEN "ERROR" ELSE status
    /\ IF AllRetired(retired + 1) THEN Finish("byAction") ELSE GoOn
    /\ UNCHANGED <<action, pending>> /\ done' = Tail(done)

\* ... while it is NORMAL: the last URB or an overflow ends the transfer, a short URB or an
\* error ends it after the remaining URBs were discarded.
ReapNormal(u, s) ==
    /\ status' = IF s = "gone" THEN "NO_DEVICE"
                 ELSE IF status = "COMPLETED" THEN ErrorResult(s) ELSE status
    /\ action' = CASE s = "error" -> "ERROR"
                   [] s \in {"short", "cancelled"} /\ u # LastUrb -> "COMPLETED_EARLY"
                   [] OTHER -> action
    /\ CASE s = "overflow" \/ (u = LastUrb /\ s \in {"full", "short", "cancelled"})
              -> Finish("byAction") /\ done' = Tail(done) /\ UNCHANGED pending
         [] s = "full" /\ u # LastUrb
              -> GoOn /\ done' = Tail(done) /\ UNCHANGED pending
         [] OTHER
              -> IF AllRetired(retired + 1)
                   THEN Finish("byAction") /\ done' = Tail(done) /\ UNCHANGED pending
                   ELSE GoOn /\ Discard(u + 1, Tail(done))

\* handle_iso_completion: the last URB ends the transfer, with its own status; a cancelled
\* one waits for all of its URBs.
ReapIso(u, s) ==
    /\ IF action # "NORMAL"
         THEN IF AllRetired(retired + 1)
                THEN Finish(IF action = "CANCELLED" THEN "byAction" ELSE "ERROR")
                ELSE GoOn
         ELSE IF u = LastUrb THEN Finish(ErrorResult(s)) ELSE GoOn
    /\ done' = Tail(done)
    /\ UNCHANGED <<action, status, pending>>

Reap ==
    /\ event.at = "idle" /\ done # <<>> /\ urbs
    /\ LET u == Head(done).urb
           s == Head(done).status
       IN /\ CASE kind = "iso"                  -> ReapIso(u, s)
               [] Bulk /\ action # "NORMAL"     -> ReapAbnormal
               [] Bulk /\ action = "NORMAL"     -> ReapNormal(u, s)
          /\ broken' = IF broken = "full" THEN s ELSE broken
    /\ retired' = retired + 1
    /\ UNCHANGED <<kind, attached, flying, timedOut, submits, asked>>

\* What usbi_handle_transfer_completion or _cancellation is called with: for a bulk transfer
\* reap_action is read after the unlock.
Reported ==
    IF event.result # "byAction" THEN event.result
    ELSE IF action # "CANCELLED" THEN status
    ELSE IF timedOut THEN "TIMED_OUT" ELSE "CANCELLED"

\* It takes the transfer off the flying list and calls back.
Report ==
    /\ event.at = "completing"
    /\ flying' = FALSE
    /\ event' = [at |-> "callback", result |-> Reported]
    /\ UNCHANGED <<kind, attached, tpriv, timedOut, kernel, submits, asked, broken>>

CallbackReturns ==
    /\ event.at = "callback"
    /\ event' = Idle
    /\ UNCHANGED <<kind, attached, flying, tpriv, timedOut, kernel, submits, asked, broken>>

\* POLLERR: usbi_handle_disconnect completes a flying transfer with NO_DEVICE; nothing will
\* be reaped from the device any more.
Disconnect ==
    /\ event.at = "idle" /\ attached
    /\ attached' = FALSE
    /\ pending' = <<>> /\ done' = <<>>
    /\ IF flying THEN Finish("NO_DEVICE") ELSE GoOn
    /\ UNCHANGED <<kind, flying, retired, action, status, timedOut, submits, asked, broken>>

------------------------------------------------------------------------------
SomeSubmit == \/ Submit
              \/ \E n \in 1..LastUrb : SubmitInPart(n)
              \/ \E n \in 1..LastUrb : \E j \in 0..(n - 1) : SubmitEnough(n, j)

EventStep == Reap \/ Report \/ CallbackReturns

Next == KernelCompletes \/ SomeSubmit \/ Cancel \/ Timeout \/ EventStep \/ Disconnect

\* The event thread runs.  The device need not send anything.
Spec == Init /\ [][Next]_vars /\ WF_vars(EventStep)

------------------------------------------------------------------------------
(* Properties *)

TypeOK ==
    /\ kind \in Kinds
    /\ attached \in BOOLEAN /\ flying \in BOOLEAN /\ urbs \in BOOLEAN
    /\ timedOut \in BOOLEAN /\ asked \in BOOLEAN
    /\ retired \in 0..NumUrbs
    /\ action \in Actions /\ status \in Results
    /\ pending \in Seq(Urbs)
    /\ done \in Seq(Reapable)
    /\ event \in [at : {"idle", "completing", "callback"}, result : Results \union {"byAction"}]
    /\ submits \in 0..MaxSubmits
    /\ broken \in UrbStatus

\* When the transfer is reported its URBs are all back: "cancel remaining urbs and wait for
\* their completion before reporting results" (android_usbfs.c).
NoUrbLeftBehind == event.at # "idle" /\ ~flying => pending = <<>> /\ done = <<>>

\* A callback with CANCELLED or TIMED_OUT answers a cancellation or a timeout of this very
\* submission, never one of an earlier submission.
NoStaleCancel ==
    event.at = "callback" /\ event.result \in {"CANCELLED", "TIMED_OUT"} /\ ~flying => asked

\* A bulk transfer reported as completed has no hole and hides no error: its URBs ended in
\* full up to one that was short.
NoSilentError ==
    Bulk /\ event.at = "callback" /\ event.result = "COMPLETED" /\ ~flying
        => broken \in {"full", "short"}

\* A transfer asked to cancel, or timed out, is called back although the device sends nothing.
CancelAnswered == (flying /\ asked) ~> ~flying

Promise == INSTANCE TransferService WITH
    state <- IF flying THEN "flying" ELSE IF event.at = "callback" THEN "callback" ELSE "idle",
    held  <- pending # <<>> \/ done # <<>>

\* Each accepted submission gets one callback, when the kernel holds no URB of it.
KeepsPromise == Promise!TransferPromise
=============================================================================
