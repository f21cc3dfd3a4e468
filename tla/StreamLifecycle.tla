--------------------------- MODULE StreamLifecycle ---------------------------
(***************************************************************************)
(* The life of one stream handle of libuvc (libuvc/stream.c) from          *)
(* uvc_stream_open_ctrl to uvc_stream_close: the application thread that   *)
(* starts, stops and closes it, the USB event thread that runs             *)
(* _uvc_stream_callback for every completed transfer, the user thread      *)
(* _uvc_user_caller that each start with a callback creates, and threads   *)
(* blocked in uvc_stream_get_frame.                                        *)
(*                                                                         *)
(* cb_mutex guards the transfers[] slots and the condition cb_cond.  A     *)
(* critical section that neither sleeps nor leaves the lock half way is    *)
(* one action; the only one that spans several actions is the cancel loop  *)
(* of uvc_stream_stop (see Locked).  The flag strmh->running is read and   *)
(* written without the lock, as in the code.                               *)
(*                                                                         *)
(* A frame is only "a hold_seq that a reader has not seen" (fresh); its    *)
(* contents are the subject of module FrameHandoff.                        *)
(*                                                                         *)
(* A use of the freed handle is undefined behaviour: no thread takes a     *)
(* step in it after the free, and ClosedIsQuiet says none has one left to  *)
(* take.                                                                   *)
(***************************************************************************)
EXTENDS Naturals, FiniteSets

CONSTANTS NumTransfers, \* LIBUVC_NUM_TRANSFER_BUFS
          MaxStarts,    \* bound: calls of uvc_stream_start on the handle
          NumPollers,   \* application threads that call uvc_stream_get_frame
          Faults,       \* what may go wrong, a subset of FaultKinds
          NULL          \* an empty slot of transfers[]

\* "submit": a submission is refused.  "unplug": the cable is pulled at any moment.  "pull": it
\* is pulled while the stream runs and the application is not in the library.
FaultKinds == {"unplug", "pull", "submit"}

ASSUME LifecycleAssumption ==
    /\ NumTransfers \in Nat \ {0}
    /\ MaxStarts \in Nat
    /\ NumPollers \in Nat
    /\ Faults \subseteq FaultKinds
    /\ NULL \notin (1..MaxStarts) \X (0..(NumTransfers - 1))

Slots     == 0..(NumTransfers - 1)
Transfers == (1..MaxStarts) \X Slots \* <<k, i>>: allocated by the k-th start for slot i
App       == 0
Users     == 1..MaxStarts            \* user thread k is created by the k-th start
Pollers   == (MaxStarts + 1)..(MaxStarts + NumPollers)

VARIABLES
    handle,     \* the uvc_stream_handle_t: "none", "open" or "freed"
    running,    \* strmh->running
    transfers,  \* strmh->transfers[]
    usb,        \* where each libusb_transfer is
    cancelled,  \* transfers in flight that were asked to cancel
    attached,   \* the camera is plugged in
    app,        \* where the application thread is in the library
    closing,    \* its uvc_stream_stop was called by uvc_stream_close
    cursor,     \* its loop index over the slots
    starts,     \* number of starts so far
    userCb,     \* strmh->user_cb is set
    cbThread,   \* strmh->cb_thread
    user,       \* where each user thread is
    fresh,      \* user threads whose last_seq differs from hold_seq
    event,      \* the transfer the event thread is completing, and where it is
    poll,       \* where each poller is
    asleep      \* threads in pthread_cond_wait on cb_cond

ownVars  == <<handle, app, closing, cursor, starts, userCb, cbThread>>
usbVars  == <<usb, cancelled, attached>>
vars     == <<handle, app, closing, cursor, starts, userCb, cbThread, usb, cancelled,
              attached, running, transfers, user, fresh, event, poll, asleep>>

NoEvent == [at |-> "idle", xfer |-> NULL, status |-> "COMPLETED"]

\* STALL and OVERFLOW take the same branch of _uvc_stream_callback as TIMED_OUT.
Status  == {"COMPLETED", "TIMED_OUT", "ERROR", "CANCELLED", "NO_DEVICE"}
Retried == {"COMPLETED", "TIMED_OUT"}

\* The application thread keeps cb_mutex between steps in these places only.
Locked == app \in {"cancel", "scan"}

(* Helpers of the actions; a *Variant is its helper with a bug that a run must notice. *)

LastSlotVariant(i) == i = NumTransfers
LastSlot(i)        == i + 1 = NumTransfers

\* pthread_cond_broadcast(&strmh->cb_cond)
BroadcastVariant == UNCHANGED asleep
Broadcast        == asleep' = {}

SlotsWithoutVariant(t) == transfers
SlotsWithout(t)        == [i \in Slots |-> IF transfers[i] = t THEN NULL ELSE transfers[i]]

AllSlotsEmptyVariant == \E i \in Slots : transfers[i] = NULL
AllSlotsEmpty        == \A i \in Slots : transfers[i] = NULL

Alive(u)  == user[u] \notin {"none", "exited"}
InUse(t)  == usb[t] \in {"flying", "callback"}

------------------------------------------------------------------------------
(* The application thread *)

Init ==
    /\ handle = "none"
    /\ running = FALSE
    /\ transfers = [i \in Slots |-> NULL]
    /\ usb = [t \in Transfers |-> "none"]
    /\ cancelled = {}
    /\ attached = TRUE
    /\ app = "idle"
    /\ closing = FALSE
    /\ cursor = 0
    /\ starts = 0
    /\ userCb = FALSE
    /\ cbThread = 0
    /\ user = [u \in Users |-> "none"]
    /\ fresh = {}
    /\ event = NoEvent
    /\ poll = [p \in Pollers |-> "out"]
    /\ asleep = {}

\* uvc_stream_open_ctrl succeeds, with a camera there that answers the commit request: a
\* zeroed handle, running = 0.  On its failure paths there is no handle.
OpenCtrl ==
    /\ app = "idle" /\ handle = "none" /\ attached
    /\ handle' = "open"
    /\ UNCHANGED <<app, closing, cursor, starts, userCb, cbThread, running, transfers,
                   usbVars, user, fresh, event, poll, asleep>>

\* uvc_stream_start_bandwidth: BUSY while running, else it claims the stream at once.
Start ==
    /\ app = "idle" /\ handle = "open" /\ ~running
    /\ starts < MaxStarts
    /\ running' = TRUE
    /\ starts' = starts + 1
    /\ app' = "setup"
    /\ UNCHANGED <<handle, closing, cursor, userCb, cbThread, transfers, usbVars, user,
                   fresh, event, poll, asleep>>

\* Its parameter checks, its choice of an altsetting or the selection of it fails.
StartRejected ==
    /\ app = "setup"
    /\ running' = FALSE
    /\ app' = "idle"
    /\ UNCHANGED <<handle, closing, cursor, starts, userCb, cbThread, transfers, usbVars,
                   user, fresh, event, poll, asleep>>

\* It allocates a transfer for every slot, whatever the slot held, and creates the user
\* thread if it got a callback; the thread's last_seq is 0, and hold_seq may be left over
\* from an earlier start.
SetUp(cb) ==
    /\ app = "setup"
    /\ transfers' = [i \in Slots |-> <<starts, i>>]
    /\ usb' = [t \in Transfers |-> IF t[1] = starts THEN "idle" ELSE usb[t]]
    /\ userCb' = cb
    /\ IF cb THEN /\ cbThread' = starts
                  /\ user' = [user EXCEPT ![starts] = "check"]
                  /\ \/ UNCHANGED fresh
                     \/ starts > 1 /\ fresh' = fresh \union {starts}
             ELSE UNCHANGED <<cbThread, user, fresh>>
    /\ cursor' = 0
    /\ app' = "submit"
    /\ UNCHANGED <<handle, closing, starts, running, cancelled, attached, event, poll, asleep>>

CanSubmit    == attached
SubmitRefused == ~attached \/ "submit" \in Faults

Submit ==
    /\ app = "submit" /\ CanSubmit
    /\ usb' = [usb EXCEPT ![transfers[cursor]] = "flying"]
    /\ IF LastSlot(cursor) THEN cursor' = 0 /\ app' = "idle"
                           ELSE cursor' = cursor + 1 /\ UNCHANGED app
    /\ UNCHANGED <<handle, closing, starts, userCb, cbThread, running, transfers, cancelled,
                   attached, user, fresh, event, poll, asleep>>

\* The first refused submission ends the start: "@todo clean up transfers and memory".
SubmitFails ==
    /\ app = "submit" /\ SubmitRefused
    /\ running' = FALSE
    /\ cursor' = 0
    /\ app' = "idle"
    /\ UNCHANGED <<handle, closing, starts, userCb, cbThread, transfers, usbVars, user,
                   fresh, event, poll, asleep>>

\* The application calls uvc_stream_stop, or uvc_stream_close, which stops a running
\* stream first.
CallStop ==
    /\ app = "idle" /\ handle = "open"
    /\ app' = "stop" /\ closing' = FALSE
    /\ UNCHANGED <<handle, cursor, starts, userCb, cbThread, running, transfers, usbVars,
                   user, fresh, event, poll, asleep>>

CallClose ==
    /\ app = "idle" /\ handle = "open"
    /\ app' = IF running THEN "stop" ELSE "free"
    /\ closing' = TRUE
    /\ UNCHANGED <<handle, cursor, starts, userCb, cbThread, running, transfers, usbVars,
                   user, fresh, event, poll, asleep>>

AfterStop == IF closing THEN "free" ELSE "idle"

\* UVC_ERROR_INVALID_PARAM: the stream does not run (any more).
StopRefused ==
    /\ app = "stop" /\ ~running
    /\ app' = AfterStop
    /\ UNCHANGED <<handle, closing, cursor, starts, userCb, cbThread, running, transfers,
                   usbVars, user, fresh, event, poll, asleep>>

StopBegins ==
    /\ app = "stop" /\ running
    /\ running' = FALSE
    /\ app' = "lock"
    /\ UNCHANGED <<handle, closing, cursor, starts, userCb, cbThread, transfers, usbVars,
                   user, fresh, event, poll, asleep>>

StopLocks ==
    /\ app = "lock"
    /\ app' = "cancel" /\ cursor' = 0
    /\ UNCHANGED <<handle, closing, starts, userCb, cbThread, running, transfers, usbVars,
                   user, fresh, event, poll, asleep>>

\* libusb_cancel_transfer on the slot's transfer: NOT_FOUND unless it is in flight.
Cancel ==
    /\ app = "cancel"
    /\ cancelled' = cancelled \union {t \in Transfers : t = transfers[cursor] /\ usb[t] = "flying"}
    /\ IF LastSlot(cursor) THEN cursor' = 0 /\ app' = "scan"
                           ELSE cursor' = cursor + 1 /\ UNCHANGED app
    /\ UNCHANGED <<handle, closing, starts, userCb, cbThread, running, transfers, usb,
                   attached, user, fresh, event, poll, asleep>>

StopSleeps ==
    /\ app = "scan" /\ ~AllSlotsEmpty
    /\ app' = "wait"
    /\ asleep' = asleep \union {App}
    /\ UNCHANGED <<handle, closing, cursor, starts, userCb, cbThread, running, transfers,
                   usbVars, user, fresh, event, poll>>

StopWakes ==
    /\ app = "wait" /\ App \notin asleep
    /\ app' = "scan"
    /\ UNCHANGED <<handle, closing, cursor, starts, userCb, cbThread, running, transfers,
                   usbVars, user, fresh, event, poll, asleep>>

\* Every slot is empty: "Kick the user thread awake", unlock.
StopDrained ==
    /\ app = "scan" /\ AllSlotsEmpty
    /\ app' = "join"
    /\ Broadcast
    /\ UNCHANGED <<handle, closing, cursor, starts, userCb, cbThread, running, transfers,
                   usbVars, user, fresh, event, poll>>

JoinableVariant == TRUE
Joinable == userCb => ~Alive(cbThread)

StopJoins ==
    /\ app = "join" /\ Joinable
    /\ app' = AfterStop
    /\ UNCHANGED <<handle, closing, cursor, starts, userCb, cbThread, running, transfers,
                   usbVars, user, fresh, event, poll, asleep>>

\* The rest of uvc_stream_close: release the interface, free the buffers and the handle.
Free ==
    /\ app = "free"
    /\ handle' = "freed"
    /\ app' = "done"
    /\ UNCHANGED <<closing, cursor, starts, userCb, cbThread, running, transfers, usbVars,
                   user, fresh, event, poll, asleep>>

------------------------------------------------------------------------------
(* The USB event thread *)

\* The statuses libusb reports for transfer t.
Outcomes(t) ==
    IF ~attached THEN {"NO_DEVICE"}
    ELSE IF t \in cancelled THEN {"CANCELLED"}
    ELSE {"COMPLETED", "TIMED_OUT", "ERROR"}

\* libusb retires the transfer and calls _uvc_stream_callback.
Complete(t) ==
    /\ event.at = "idle" /\ usb[t] = "flying" /\ handle # "freed"
    /\ usb' = [usb EXCEPT ![t] = "callback"]
    /\ cancelled' = cancelled \ {t}
    /\ \E s \in Outcomes(t) : event' = [at |-> "process", xfer |-> t, status |-> s]
    /\ UNCHANGED <<ownVars, attached, running, transfers, user, fresh, poll, asleep>>

\* The payload ended a frame: _uvc_swap_buffers publishes it and wakes every waiter.  The
\* first frame of a start has seq 0, which a user thread that has seen none takes as seen.
SwapBuffers ==
    /\ event.at = "process" /\ event.status = "COMPLETED" /\ handle # "freed"
    /\ ~Locked
    /\ \E first \in BOOLEAN : fresh' = IF first THEN {} ELSE {u \in Users : Alive(u)}
    /\ Broadcast
    /\ event' = [event EXCEPT !.at = "decide"]
    /\ UNCHANGED <<ownVars, usbVars, running, transfers, user, poll>>

\* No frame ended, or there was no payload.
NoFrame ==
    /\ event.at = "process" /\ event.status # "NO_DEVICE" /\ handle # "freed"
    /\ event' = [event EXCEPT !.at = "decide"]
    /\ UNCHANGED <<ownVars, usbVars, running, transfers, user, fresh, poll, asleep>>

\* "this needs for unexpected disconnect of cable otherwise hangup"
DeviceLost ==
    /\ event.at = "process" /\ event.status = "NO_DEVICE" /\ handle # "freed"
    /\ running' = FALSE
    /\ event' = [event EXCEPT !.at = "decide"]
    /\ UNCHANGED <<ownVars, usbVars, transfers, user, fresh, poll, asleep>>

Resubmits == running /\ event.status \in Retried

Decide ==
    /\ event.at = "decide" /\ handle # "freed"
    /\ event' = [event EXCEPT !.at = IF Resubmits THEN "resubmit" ELSE "delete"]
    /\ UNCHANGED <<ownVars, usbVars, running, transfers, user, fresh, poll, asleep>>

Resubmit ==
    /\ event.at = "resubmit" /\ CanSubmit
    /\ usb' = [usb EXCEPT ![event.xfer] = "flying"]
    /\ event' = NoEvent
    /\ UNCHANGED <<ownVars, cancelled, attached, running, transfers, user, fresh, poll, asleep>>

\* The callback ignores what libusb_submit_transfer returns.
ResubmitFails ==
    /\ event.at = "resubmit" /\ SubmitRefused
    /\ usb' = [usb EXCEPT ![event.xfer] = "idle"]
    /\ event' = NoEvent
    /\ UNCHANGED <<ownVars, cancelled, attached, running, transfers, user, fresh, poll, asleep>>

\* _uvc_delete_transfer: free the transfer if a slot holds it, wake every waiter.
DeleteTransfer ==
    /\ event.at = "delete" /\ handle # "freed"
    /\ ~Locked
    /\ LET t == event.xfer
           held == \E i \in Slots : transfers[i] = t
       IN /\ usb' = [usb EXCEPT ![t] = IF held THEN "freed" ELSE "idle"]
          /\ transfers' = SlotsWithout(t)
    /\ Broadcast
    /\ event' = NoEvent
    /\ UNCHANGED <<ownVars, cancelled, attached, running, user, fresh, poll>>

------------------------------------------------------------------------------
(* The user thread: _uvc_user_caller *)

\* One pass under cb_mutex: leave, sleep, or take the held frame.
UserSees(u) ==
    /\ user[u] = "check" /\ u \notin asleep /\ ~Locked /\ handle # "freed"
    /\ CASE ~running               -> /\ user' = [user EXCEPT ![u] = "exited"]
                                      /\ UNCHANGED <<fresh, asleep>>
         [] running /\ u \in fresh -> /\ user' = [user EXCEPT ![u] = "deliver"]
                                      /\ fresh' = fresh \ {u}
                                      /\ UNCHANGED asleep
         [] OTHER                  -> /\ asleep' = asleep \union {u}
                                      /\ UNCHANGED <<user, fresh>>
    /\ UNCHANGED <<ownVars, usbVars, running, transfers, event, poll>>

\* The call of user_cb (or, after an error in the frame, no call), and its return.
UserDelivers(u) ==
    /\ user[u] = "deliver" /\ handle # "freed"
    /\ user' = [user EXCEPT ![u] = "check"]
    /\ UNCHANGED <<ownVars, usbVars, running, transfers, fresh, event, poll, asleep>>

------------------------------------------------------------------------------
(* A thread in uvc_stream_get_frame *)

PollCalls(p) ==
    /\ poll[p] = "out" /\ handle = "open" /\ running /\ ~userCb
    /\ poll' = [poll EXCEPT ![p] = "lock"]
    /\ UNCHANGED <<ownVars, usbVars, running, transfers, user, fresh, event, asleep>>

\* A frame is there (or the timeout is -1) and the call returns, or it waits once.
PollLocks(p) ==
    /\ poll[p] = "lock" /\ ~Locked /\ handle # "freed"
    /\ \/ poll' = [poll EXCEPT ![p] = "out"] /\ UNCHANGED asleep
       \/ poll' = [poll EXCEPT ![p] = "wait"] /\ asleep' = asleep \union {p}
    /\ UNCHANGED <<ownVars, usbVars, running, transfers, user, fresh, event>>

PollWakes(p) ==
    /\ poll[p] = "wait" /\ p \notin asleep /\ ~Locked /\ handle # "freed"
    /\ poll' = [poll EXCEPT ![p] = "out"]
    /\ UNCHANGED <<ownVars, usbVars, running, transfers, user, fresh, event, asleep>>

------------------------------------------------------------------------------
(* The environment *)

\* POSIX lets a condition wait return unasked; pthread_cond_timedwait also on its timeout.
WakeUnasked(w) ==
    /\ w \in asleep
    /\ asleep' = asleep \ {w}
    /\ UNCHANGED <<ownVars, usbVars, running, transfers, user, fresh, event, poll>>

Unplug ==
    /\ attached
    /\ \/ "unplug" \in Faults
       \/ "pull" \in Faults /\ app = "idle" /\ running
    /\ attached' = FALSE
    /\ UNCHANGED <<ownVars, usb, cancelled, running, transfers, user, fresh, event, poll, asleep>>

------------------------------------------------------------------------------
StartStep == Start \/ StartRejected \/ (\E cb \in BOOLEAN : SetUp(cb)) \/ Submit \/ SubmitFails

StopStep == StopRefused \/ StopBegins \/ StopLocks \/ Cancel \/ StopSleeps \/ StopWakes
            \/ StopDrained \/ StopJoins \/ Free

CallbackStep == SwapBuffers \/ NoFrame \/ DeviceLost \/ Decide \/ Resubmit \/ ResubmitFails
                \/ DeleteTransfer

UserStep(u) == UserSees(u) \/ UserDelivers(u)
PollStep(p) == PollLocks(p) \/ PollWakes(p)

Next ==
    \/ OpenCtrl \/ CallStop \/ CallClose
    \/ StartStep
    \/ StopStep
    \/ \E t \in Transfers : Complete(t)
    \/ CallbackStep
    \/ \E u \in Users : UserStep(u)
    \/ \E p \in Pollers : PollCalls(p) \/ PollStep(p)
    \/ \E w \in asleep : WakeUnasked(w)
    \/ Unplug

Spec == Init /\ [][Next]_vars

\* The library's threads run; the application calls what it likes when it likes.  A thread
\* that blocks on cb_mutex again and again gets it (SF), which matters only if condition
\* waits return unasked without end.  Every transfer in flight completes in the end: it
\* carries a timeout of 5000 ms.
Fairness ==
    /\ WF_vars(StartStep) /\ WF_vars(StopStep)
    /\ WF_vars(\E t \in Transfers : Complete(t))
    /\ SF_vars(CallbackStep)
    /\ \A u \in Users : SF_vars(UserStep(u))
    /\ \A p \in Pollers : SF_vars(PollStep(p))

FairSpec == Spec /\ Fairness

------------------------------------------------------------------------------
(* Properties *)

UserPlaces  == {"none", "check", "deliver", "exited"}
UsbPlaces   == {"none", "idle", "flying", "callback", "freed"}
AppPlaces   == {"idle", "setup", "submit", "stop", "lock", "cancel", "scan", "wait", "join",
                "free", "done"}
EventPlaces == {"idle", "process", "decide", "resubmit", "delete"}

\* Every variable stays in its range; a slot of transfers[] holds only a transfer that was
\* allocated for it.
TypeOK ==
    /\ handle \in {"none", "open", "freed"}
    /\ running \in BOOLEAN
    /\ transfers \in [Slots -> Transfers \union {NULL}]
    /\ \A i \in Slots : transfers[i] # NULL => transfers[i][2] = i
    /\ usb \in [Transfers -> UsbPlaces]
    /\ cancelled \subseteq Transfers
    /\ attached \in BOOLEAN
    /\ app \in AppPlaces
    /\ closing \in BOOLEAN
    /\ cursor \in Slots
    /\ starts \in 0..MaxStarts
    /\ userCb \in BOOLEAN
    /\ cbThread \in 0..MaxStarts
    /\ user \in [Users -> UserPlaces]
    /\ fresh \subseteq Users
    /\ event \in [at : EventPlaces, xfer : Transfers \union {NULL}, status : Status]
    /\ (event.at # "idle") => event.xfer \in Transfers
    /\ poll \in [Pollers -> {"out", "lock", "wait"}]
    /\ asleep \subseteq {App} \union Users \union Pollers

\* Nothing of the library still uses the stream: no transfer is in flight or being called
\* back, no user thread lives.
Quiet == /\ \A t \in Transfers : ~InUse(t)
         /\ \A u \in Users : ~Alive(u)

\* uvc_stream_close frees the handle only when no callback, no user thread and no poller
\* can touch it any more (device.c: "Streaming must be stopped, and threads must have died").
ClosedIsQuiet ==
    handle = "freed" => /\ Quiet
                        /\ \A p \in Pollers : poll[p] = "out"

\* A uvc_stream_stop that succeeds has ended everything the last start began when it
\* returns, whatever a failed resubmission, a cable pulled meanwhile, transfers that died
\* before, or an earlier start that gave up half way did to the slots.
StopReturnsQuiet ==
    [][app = "join" /\ app' # "join" => /\ \A t \in Transfers : t[1] = starts => ~InUse(t)'
                                       /\ \A u \in Users : u = starts => ~Alive(u)']_vars

\* A transfer a slot points to has not been freed, so that uvc_stream_stop never cancels,
\* and no start submits, a dangling pointer.
NoDanglingSlot ==
    \A i \in Slots : transfers[i] # NULL => usb[transfers[i]] \in {"idle", "flying", "callback"}

\* No wakeup is lost: a callback that finds the stream stopped, by uvc_stream_stop or by a
\* lost device, gets every user thread out of its wait and out of its loop (unless the
\* handle is freed under it, or a start sets running again).
UserThreadsLeave ==
    \A u \in Users :
        (Alive(u) /\ ~running /\ event.at \in {"process", "decide", "delete"})
            ~> (~Alive(u) \/ running \/ handle = "freed")

\* uvc_stream_stop "ends threads and cancels pollers": a thread in uvc_stream_get_frame
\* while the stream is stopped returns.
PollersCancelled ==
    \A p \in Pollers :
        (poll[p] # "out" /\ app = "lock") ~> (poll[p] = "out" \/ handle = "freed")

\* The stream as its owner knows it: what it was asked for, and what uses it.
Stopping == app \in {"lock", "cancel", "scan", "wait", "join"}

Session == CASE handle = "none"                                 -> "none"
             [] handle = "freed"                                -> "closed"
             [] handle = "open" /\ Stopping                     -> "stopping"
             [] handle = "open" /\ ~Stopping /\ running         -> "streaming"
             [] handle = "open" /\ ~Stopping /\ ~running        -> "open"

\* User thread u is the activity <<u, NumTransfers>>.
Active == {t \in Transfers : InUse(t)}
            \union {a \in Users \X {NumTransfers} : Alive(a[1])}

Service == INSTANCE StreamService WITH Activities <- (1..MaxStarts) \X (0..NumTransfers),
                                       session <- Session, active <- Active

\* Without a fault the stream implements StreamService: activities begin only under a
\* running stream, and a stop or a close ends only after the last of them.
KeepsPromise == Service!StreamPromise

\* A uvc_stream_stop that has begun returns.
StopTerminates == Service!StopReturns
=============================================================================
