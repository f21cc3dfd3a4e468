------------------------------ MODULE EventLoop ------------------------------
(***************************************************************************)
(* Who handles USB events, and how the others wait: the event locks of     *)
(* libusb (libusb/io.c), the opening and closing of devices that interrupt *)
(* the thread in poll() (libusb/core.c), the event thread that a libuvc    *)
(* context owns (libuvc/init.c, libuvc/device.c) and the synchronous       *)
(* control transfers of application threads (libusb/sync.c).               *)
(*                                                                         *)
(* A thread that wants an event handles events itself if it gets the       *)
(* events lock; otherwise it waits on event_waiters_cond for the thread    *)
(* that has it.  event_waiters_lock only guards what is one action here;   *)
(* open_devs_lock is held by a thread from its first reaped URB to its     *)
(* last.  Opening and closing are the main thread's.                       *)
(*                                                                         *)
(* Transfers are what they are to the loop: a control transfer somebody    *)
(* waits for, or any other URB of a device to be reaped.  Their inside is  *)
(* the subject of UrbTransfer and StreamLifecycle.                         *)
(***************************************************************************)
EXTENDS Naturals, FiniteSets

CONSTANTS Devices,   \* cameras
          Callers,   \* application threads that make synchronous transfers
          Main,      \* the application thread that opens and closes devices
          Handler,   \* the event thread of the libuvc context
          Nobody,    \* no thread, no device
          Streaming, \* bound: the cameras with URBs other than control transfers
          MaxOpens,  \* bound: calls of uvc_open
          MaxCalls   \* bound: control transfers

Threads == Callers \union {Main, Handler}

ASSUME EventLoopAssumption ==
    /\ Streaming \subseteq Devices
    /\ MaxOpens \in Nat /\ MaxCalls \in Nat
    /\ Handler \notin Callers \union {Main}
    /\ Nobody \notin Threads \union Devices

VARIABLES
    pollfds,    \* ctx->pollfds: devices whose descriptor is polled
    openDevs,   \* ctx->open_devs of libusb
    cameras,    \* ctx->open_devices of libuvc
    modify,     \* ctx->pollfd_modify
    pipe,       \* bytes in ctx->ctrl_pipe
    lock,       \* the thread that holds ctx->events_lock
    active,     \* ctx->event_handler_active
    asleep,     \* threads in libusb_wait_for_event
    at,         \* where each thread is in libusb_handle_events_timeout_completed
    watched,    \* the descriptors each thread polls, then those found ready
    kill,       \* ctx->kill_handler_thread
    request,    \* the control transfer of each caller: its device and how far it is
    ready,      \* devices with another URB to be reaped
    chore,      \* what the main thread opens or closes, and where it is in it
    opens, calls

loopVars   == <<lock, active, asleep, at, watched>>
deviceVars == <<pollfds, openDevs, cameras, modify, pipe, kill, chore, opens>>
vars == <<pollfds, openDevs, cameras, modify, pipe, lock, active, asleep, at, watched, kill,
          request, ready, chore, opens, calls>>

NoRequest == [state |-> "none", dev |-> Nobody]
NoChore   == [kind |-> "none", dev |-> Nobody, step |-> "none"]

Init ==
    /\ pollfds = {} /\ openDevs = {} /\ cameras = {}
    /\ modify = 0 /\ pipe = 0
    /\ lock = Nobody /\ active = FALSE /\ asleep = {}
    /\ at = [t \in Threads |-> IF t = Handler THEN "none" ELSE "idle"]
    /\ watched = [t \in Threads |-> {}]
    /\ kill = FALSE
    /\ request = [c \in Callers |-> NoRequest]
    /\ ready = {}
    /\ chore = NoChore
    /\ opens = 0 /\ calls = 0

\* Something of device d can be reaped.
Pending(d) == d \in ready \/ \E c \in Callers : request[c] = [state |-> "answered", dev |-> d]

\* What a caller waits for has happened; the event thread waits for nothing (completed is NULL).
Completed(t) == t \in Callers /\ request[t].state = "done"

Reaping(t) == at[t] \in {"reap", "tell"} \* it holds open_devs_lock

------------------------------------------------------------------------------
(* libusb_handle_events_timeout_completed, by any thread; a ...Variant is the definition    *)
(* after it with a bug that a run must notice.                                               *)

MayHandleVariant == TRUE
MayHandle        == modify = 0

\* libusb_try_lock_events: refused to everybody while somebody modifies the descriptors,
LookAtModify(t) ==
    /\ at[t] = "try"
    /\ at' = [at EXCEPT ![t] = IF MayHandle THEN "trylock" ELSE "refused"]
    /\ UNCHANGED <<lock, active, asleep, watched, deviceVars, request, ready, calls>>

\* and to all but one otherwise.
TryLock(t) ==
    /\ at[t] = "trylock"
    /\ IF lock = Nobody
         THEN lock' = t /\ active' = TRUE /\ at' = [at EXCEPT ![t] = "locked"]
         ELSE at' = [at EXCEPT ![t] = "refused"] /\ UNCHANGED <<lock, active>>
    /\ UNCHANGED <<asleep, watched, deviceVars, request, ready, calls>>

\* With the lock, the flag is looked at again; then the descriptors are copied for poll().
Poll(t) ==
    /\ at[t] = "locked"
    /\ IF Completed(t)
         THEN at' = [at EXCEPT ![t] = "unlock"] /\ UNCHANGED watched
         ELSE at' = [at EXCEPT ![t] = "poll"] /\ watched' = [watched EXCEPT ![t] = pollfds]
    /\ UNCHANGED <<lock, active, asleep, deviceVars, request, ready, calls>>

Found(t) == {d \in watched[t] : Pending(d)}

\* poll() returns for the pipe, for a device, or for both,
PollReturns(t) ==
    /\ at[t] = "poll"
    /\ pipe > 0 \/ Found(t) # {}
    /\ watched' = [watched EXCEPT ![t] = Found(t)]
    /\ at' = [at EXCEPT ![t] = IF Found(t) = {} THEN "unlock" ELSE "reap"]
    /\ UNCHANGED <<lock, active, asleep, deviceVars, request, ready, calls>>

\* or, for none of them, after 60 seconds or the next timeout of a transfer.
PollTimesOut(t) ==
    /\ at[t] = "poll"
    /\ pipe = 0 /\ Found(t) = {}
    /\ at' = [at EXCEPT ![t] = "unlock"]
    /\ UNCHANGED <<lock, active, asleep, watched, deviceVars, request, ready, calls>>

\* op_handle_events reaps one URB of a descriptor found ready and runs its callback:
\* sync_transfer_cb, or one that is none of the loop's business.
Reap(t) ==
    /\ at[t] = "reap"
    /\ \E d \in watched[t] \intersect openDevs :
          \/ d \in ready /\ ready' = ready \ {d} /\ UNCHANGED request
          \/ \E c \in Callers :
                /\ request[c] = [state |-> "answered", dev |-> d]
                /\ request' = [request EXCEPT ![c].state = "done"]
                /\ UNCHANGED ready
    /\ at' = [at EXCEPT ![t] = "tell"]
    /\ UNCHANGED <<lock, active, asleep, watched, deviceVars, calls>>

\* Nothing is left to be reaped of a descriptor (EAGAIN), or its handle is not in the list.
ReapEnds(t) ==
    /\ at[t] = "reap"
    /\ \E d \in watched[t] :
          /\ d \in openDevs => ~Pending(d)
          /\ watched' = [watched EXCEPT ![t] = @ \ {d}]
          /\ at' = [at EXCEPT ![t] = IF watched[t] = {d} THEN "unlock" ELSE "reap"]
    /\ UNCHANGED <<lock, active, asleep, deviceVars, request, ready, calls>>

BroadcastVariant == UNCHANGED asleep
Broadcast        == asleep' = {}

\* usbi_handle_transfer_completion after the callback: wake the waiters.
Tell(t) ==
    /\ at[t] = "tell"
    /\ Broadcast
    /\ at' = [at EXCEPT ![t] = "reap"]
    /\ UNCHANGED <<lock, active, watched, deviceVars, request, ready, calls>>

\* libusb_unlock_events, and after it the broadcast.
Unlock(t) ==
    /\ at[t] = "unlock"
    /\ lock' = Nobody /\ active' = FALSE
    /\ at' = [at EXCEPT ![t] = "unlocked"]
    /\ UNCHANGED <<asleep, watched, deviceVars, request, ready, calls>>

Unlocked(t) ==
    /\ at[t] = "unlocked"
    /\ Broadcast
    /\ at' = [at EXCEPT ![t] = "return"]
    /\ UNCHANGED <<lock, active, watched, deviceVars, request, ready, calls>>

SomebodyActiveVariant == TRUE
SomebodyActive        == modify > 0 \/ active

\* Under event_waiters_lock: done already, nobody handles events any more, or sleep.
Wait(t) ==
    /\ at[t] = "refused"
    /\ CASE Completed(t) -> at' = [at EXCEPT ![t] = "return"] /\ UNCHANGED asleep
         [] ~Completed(t) /\ ~SomebodyActive -> at' = [at EXCEPT ![t] = "try"] /\ UNCHANGED asleep
         [] OTHER -> at' = [at EXCEPT ![t] = "wait"] /\ asleep' = asleep \union {t}
    /\ UNCHANGED <<lock, active, watched, deviceVars, request, ready, calls>>

Wakes(t) ==
    /\ at[t] = "wait" /\ t \notin asleep
    /\ at' = [at EXCEPT ![t] = "return"]
    /\ UNCHANGED <<lock, active, asleep, watched, deviceVars, request, ready, calls>>

\* The timed wait ends, or returns unasked.
WaitTimesOut(t) ==
    /\ t \in asleep
    /\ asleep' = asleep \ {t}
    /\ UNCHANGED <<lock, active, at, watched, deviceVars, request, ready, calls>>

\* _uvc_handle_events looks at kill_handler_thread before each round,
HandlerRound ==
    /\ at[Handler] = "return"
    /\ at' = [at EXCEPT ![Handler] = IF kill THEN "exited" ELSE "try"]
    /\ UNCHANGED <<lock, active, asleep, watched, deviceVars, request, ready, calls>>

\* sync_transfer_wait_for_completion at its flag; then the transfer is freed.
CallerRound(c) ==
    /\ at[c] = "return"
    /\ IF Completed(c)
         THEN /\ at' = [at EXCEPT ![c] = "idle"]
              /\ request' = [request EXCEPT ![c] = NoRequest]
         ELSE at' = [at EXCEPT ![c] = "try"] /\ UNCHANGED request
    /\ UNCHANGED <<lock, active, asleep, watched, deviceVars, ready, calls>>

LoopStep(t) ==
    \/ LookAtModify(t) \/ TryLock(t) \/ Poll(t) \/ PollReturns(t) \/ Reap(t) \/ ReapEnds(t) \/ Tell(t)
    \/ Unlock(t) \/ Unlocked(t) \/ Wait(t) \/ Wakes(t)
    \/ t = Handler /\ HandlerRound
    \/ t \in Callers /\ CallerRound(t)

TimeStep(t) == PollTimesOut(t) \/ WaitTimesOut(t)

------------------------------------------------------------------------------
(* Control transfers, and the device's side of every transfer *)

\* libusb_control_transfer: the application uses only a device it has opened and does not
\* close meanwhile.
Control(c, d) ==
    /\ at[c] = "idle" /\ calls < MaxCalls
    /\ d \in cameras /\ chore.dev # d
    /\ c = Main => chore = NoChore
    /\ calls' = calls + 1
    /\ request' = [request EXCEPT ![c] = [state |-> "sent", dev |-> d]]
    /\ at' = [at EXCEPT ![c] = "return"]
    /\ UNCHANGED <<lock, active, asleep, watched, deviceVars, ready>>

Answer(c) ==
    /\ request[c].state = "sent"
    /\ request' = [request EXCEPT ![c].state = "answered"]
    /\ UNCHANGED <<loopVars, deviceVars, ready, calls>>

OtherUrb(d) ==
    /\ d \in Streaming /\ d \in cameras /\ d \in openDevs /\ d \notin ready
    /\ ready' = ready \union {d}
    /\ UNCHANGED <<loopVars, deviceVars, request, calls>>

------------------------------------------------------------------------------
(* uvc_open and uvc_close: the main thread's chores                           *)

Step(name) == chore.step = name
Goto(name) == chore' = [chore EXCEPT !.step = name]

\* libusb_open: op_open adds the descriptor before the handle is in the list.
Open(d) ==
    /\ at[Main] = "idle" /\ chore = NoChore /\ opens < MaxOpens
    /\ d \notin cameras
    /\ pollfds' = pollfds \union {d}
    /\ opens' = opens + 1
    /\ chore' = [kind |-> "open", dev |-> d, step |-> "append"]
    /\ UNCHANGED <<loopVars, openDevs, cameras, modify, pipe, kill, request, ready, calls>>

\* open_devs_lock is the reaper's as long as it reaps.
Append ==
    /\ Step("append")
    /\ \A t \in Threads : ~Reaping(t)
    /\ openDevs' = openDevs \union {chore.dev}
    /\ Goto("interrupt")
    /\ UNCHANGED <<loopVars, pollfds, cameras, modify, pipe, kill, opens, request, ready, calls>>

\* uvc_close, of a device nobody uses: the last one ends the event thread.
Close(d) ==
    /\ at[Main] = "idle" /\ chore = NoChore
    /\ d \in cameras
    /\ \A c \in Callers : request[c].dev # d
    /\ kill' = (kill \/ cameras = {d})
    /\ chore' = [kind |-> "close", dev |-> d, step |-> "interrupt"]
    /\ UNCHANGED <<loopVars, pollfds, openDevs, cameras, modify, pipe, opens, request, ready, calls>>

\* usbi_fd_notification and libusb_close begin alike: keep everybody from handling events
\* and interrupt whoever polls,
Interrupt ==
    /\ Step("interrupt")
    /\ modify' = modify + 1
    /\ pipe' = pipe + 1
    /\ Goto("lock")
    /\ UNCHANGED <<loopVars, pollfds, openDevs, cameras, kill, opens, request, ready, calls>>

LockFreeVariant == TRUE
LockFree        == lock = Nobody

ReadByteVariant == pipe
ReadByte        == IF pipe > 0 THEN pipe - 1 ELSE pipe

\* wait for the events lock and take the byte out again, which only its holder polls.
LockEvents ==
    /\ Step("lock")
    /\ LockFree
    /\ lock' = Main /\ active' = TRUE
    /\ pipe' = ReadByte
    /\ Goto(IF chore.kind = "open" THEN "settle" ELSE "remove")
    /\ UNCHANGED <<asleep, at, watched, pollfds, openDevs, cameras, modify, kill, opens,
                   request, ready, calls>>

\* do_close.  Its own libusb_unlock_events does not release the recursive lock, but it
\* clears event_handler_active and wakes the waiters.
Remove ==
    /\ Step("remove")
    /\ active' = FALSE
    /\ Broadcast
    /\ openDevs' = openDevs \ {chore.dev}
    /\ pollfds' = pollfds \ {chore.dev}
    /\ ready' = ready \ {chore.dev}
    /\ Goto("settle")
    /\ UNCHANGED <<lock, at, watched, cameras, modify, pipe, kill, opens, request, calls>>

Settle ==
    /\ Step("settle")
    /\ modify' = modify - 1
    /\ Goto("unlock")
    /\ UNCHANGED <<loopVars, pollfds, openDevs, cameras, pipe, kill, opens, request, ready, calls>>

\* libusb_unlock_events: the lock, then the waiters.
UnlockEvents ==
    /\ Step("unlock")
    /\ lock' = Nobody /\ active' = FALSE
    /\ Goto("broadcast")
    /\ UNCHANGED <<asleep, at, watched, pollfds, openDevs, cameras, modify, pipe, kill, opens,
                   request, ready, calls>>

WakeWaiters ==
    /\ Step("broadcast")
    /\ Broadcast
    /\ Goto("finish")
    /\ UNCHANGED <<lock, active, at, watched, pollfds, openDevs, cameras, modify, pipe, kill, opens,
                   request, ready, calls>>

NeedsHandlerVariant == FALSE
NeedsHandler        == cameras = {}

\* The rest of uvc_open: the first camera gets the event thread.
Opened ==
    /\ Step("finish") /\ chore.kind = "open"
    /\ at' = IF NeedsHandler THEN [at EXCEPT ![Handler] = "return"] ELSE at
    /\ cameras' = cameras \union {chore.dev}
    /\ chore' = NoChore
    /\ UNCHANGED <<lock, active, asleep, watched, pollfds, openDevs, modify, pipe, kill, opens,
                   request, ready, calls>>

\* The rest of uvc_open fails (descriptors, the claim, the status transfer): libusb_close.
OpenFails ==
    /\ Step("finish") /\ chore.kind = "open"
    /\ chore' = [chore EXCEPT !.kind = "abandon", !.step = "interrupt"]
    /\ UNCHANGED <<loopVars, pollfds, openDevs, cameras, modify, pipe, kill, opens, request, ready, calls>>

Abandoned ==
    /\ Step("finish") /\ chore.kind = "abandon"
    /\ chore' = NoChore
    /\ UNCHANGED <<loopVars, pollfds, openDevs, cameras, modify, pipe, kill, opens, request, ready, calls>>

\* The rest of uvc_close: the event thread of the last camera is joined.
Closed ==
    /\ Step("finish") /\ chore.kind = "close"
    /\ cameras = {chore.dev} => at[Handler] = "exited"
    /\ cameras' = cameras \ {chore.dev}
    /\ chore' = NoChore
    /\ UNCHANGED <<loopVars, pollfds, openDevs, modify, pipe, kill, opens, request, ready, calls>>

ChoreStep ==
    \/ Append \/ Interrupt \/ LockEvents \/ Remove \/ Settle
    \/ UnlockEvents \/ WakeWaiters \/ Opened \/ OpenFails \/ Abandoned \/ Closed

Next ==
    \/ \E t \in Threads : LoopStep(t) \/ TimeStep(t)
    \/ \E d \in Devices : Open(d) \/ Close(d) \/ OtherUrb(d)
    \/ \E c \in Callers : Answer(c) \/ (\E d \in Devices : Control(c, d))
    \/ ChoreStep

\* Every thread runs on and the device answers control transfers.  A device does not for ever
\* outrun the thread that reaps it, and open_devs_lock starves nobody.  The 60 seconds of poll()
\* and of the timed wait are not relied upon.
Fairness ==
    /\ \A t \in Threads : WF_vars(LoopStep(t)) /\ ([]<>Reaping(t) => []<><<ReapEnds(t)>>_vars)
    /\ \A c \in Callers : WF_vars(Answer(c))
    /\ WF_vars(ChoreStep) /\ SF_vars(Append)

Spec == Init /\ [][Next]_vars /\ Fairness

------------------------------------------------------------------------------
(* Properties *)

Places == {"none", "idle", "return", "try", "trylock", "refused", "locked", "poll", "reap",
           "tell", "unlock", "unlocked", "wait", "exited"}

\* The type invariant, with the bounds of the counters (ctx->pollfd_modify is unsigned and the
\* control pipe holds what its one writer wrote: both are 0 or 1 with one opening thread).
TypeOK ==
    /\ pollfds \subseteq Devices /\ openDevs \subseteq Devices /\ cameras \subseteq Devices
    /\ modify \in 0..1 /\ pipe \in 0..1
    /\ lock \in Threads \union {Nobody} /\ active \in BOOLEAN
    /\ asleep \subseteq Threads
    /\ at \in [Threads -> Places]
    /\ watched \in [Threads -> SUBSET Devices]
    /\ kill \in BOOLEAN
    /\ request \in [Callers -> [state : {"none", "sent", "answered", "done"},
                                dev : Devices \union {Nobody}]]
    /\ ready \subseteq Devices
    /\ chore \in [kind : {"none", "open", "close", "abandon"}, dev : Devices \union {Nobody},
                  step : {"none", "append", "interrupt", "lock", "remove",
                          "settle", "unlock", "broadcast", "finish"}]
    /\ opens \in 0..MaxOpens /\ calls \in 0..MaxCalls

\* Whoever sleeps in libusb_wait_for_event is still to be woken: a thread handles events or
\* modifies the descriptors, or has a broadcast ahead of it; and a sleeper whose transfer is
\* complete is woken by the thread that completed it (libusb_unlock_events and
\* usbi_handle_transfer_completion, including the unlock nested in do_close).
NoLostWakeup ==
    \A t \in asleep :
        /\ \/ active \/ modify > 0
           \/ \E u \in Threads : at[u] \in {"unlock", "unlocked"}
           \/ chore.step \in {"unlock", "broadcast"}
        /\ Completed(t) => \E u \in Threads : at[u] = "tell"

\* A thread in poll() polls every camera that uvc_open has returned and no descriptor that
\* op_close has removed: the interruption through the control pipe (usbi_fd_notification,
\* libusb_close) never misses a poller.
PollsWhatIsOpen ==
    \A t \in Threads : at[t] = "poll" => 
        watched[t] \subseteq pollfds /\ cameras \ {chore.dev} \subseteq watched[t]

\* Until the last camera of a context has been closed once, an open camera has its event thread
\* (uvc_open's spawn, uvc_close's kill_handler_thread).
ServedUntilLastClose == cameras # {} /\ ~kill => at[Handler] \notin {"none", "exited"}

\* The comment "Since this is our first device, we need to spawn the event handler thread": an
\* open camera has its event thread, also when an earlier one was opened and closed before.
FirstDeviceServed == cameras # {} /\ chore = NoChore => at[Handler] # "exited"

\* A synchronous control transfer that the device answers returns to its caller without the help
\* of a timeout, whoever handles the events and whatever is opened or closed meanwhile.
ControlReturns == \A c \in Callers : request[c].state = "sent" ~> request[c].state = "none"

\* Opening and closing a camera ends: libusb_lock_events gets the lock from threads that keep
\* handling events, and the event thread sees kill_handler_thread, at the latest when the 60
\* seconds of its poll() are over.
OpenCloseReturn ==
    (\A t \in Threads : WF_vars(TimeStep(t))) => (chore # NoChore ~> chore = NoChore)

==============================================================================
