---------------------------- MODULE FrameHandoff ----------------------------
(***************************************************************************)
(* How a finished video frame gets from the USB event thread to the        *)
(* application (libuvc/stream.c): the double buffer outbuf/holdbuf, the    *)
(* sequence numbers that tell a reader there is something new, the error   *)
(* flag that travels with a frame, and the two kinds of reader: the user   *)
(* thread (_uvc_user_caller) and a caller of uvc_stream_get_frame.         *)
(*                                                                         *)
(* The event thread fills outbuf without a lock and swaps the buffers      *)
(* under cb_mutex; a reader copies holdbuf into strmh->frame under         *)
(* cb_mutex.  Each critical section is one action.  What the user thread   *)
(* does between two of them is not locked: in particular it reads          *)
(* hold_bfh_err a second time before it calls the application.             *)
(*                                                                         *)
(* A buffer is the number of the camera frame in it, whether the writer is *)
(* done with it, and its flaw: what has happened to its bytes, whatever    *)
(* the flags of the code say.  Bytes are the subject of the payload        *)
(* assembly.  Sleeping and waking are the subject of StreamLifecycle: here *)
(* a reader whose condition holds may go on.  The names that a module      *)
(* usually shares with others differ from those of PayloadAssembler:       *)
(* Frames_proofs extends both.                                             *)
(***************************************************************************)
EXTENDS Naturals

CONSTANTS SeqMod,      \* sequence numbers are taken modulo SeqMod (2^32 in the code)
          MaxCaptured, \* bound: frames the camera sends
          MaxStarted,  \* bound: starts of the stream
          Mode         \* "callback": started with a callback; "poll": without; "any"

ASSUME HandoffAssumption == /\ SeqMod \in Nat /\ SeqMod > 1
                            /\ MaxCaptured \in Nat
                            /\ MaxStarted \in Nat

VARIABLES
    phase,      \* "stopped", "streaming" or "stopping"
    started,    \* number of starts
    polling,    \* user_cb is NULL
    buf,        \* the two frame buffers
    out,        \* which of them is outbuf; the other is holdbuf
    got,        \* got_bytes # 0
    flaw,       \* what has happened so far to the frame that is to be finished next
    bfhErr, holdErr,  \* bfh_err, hold_bfh_err
    seq, holdSeq,     \* seq, hold_seq
    user,       \* where the user thread is
    lastSeq,    \* its last_seq
    lastPolled, \* last_polled_seq
    frame,      \* strmh->frame
    captured,   \* frames the camera has sent so far
    spoiled,    \* some frame so far came with an error
    shown       \* the camera frame the callback, or a poller, was given last

writerVars == <<buf, out, got, flaw, bfhErr, holdErr, seq, holdSeq, captured, spoiled>>
readerVars == <<user, lastSeq, lastPolled, frame, shown>>
handoffVars == <<phase, started, polling, buf, out, got, flaw, bfhErr, holdErr, seq, holdSeq,
                 captured, spoiled, user, lastSeq, lastPolled, frame, shown>>

Readers  == {"callback", "poll"}
Buffers  == {1, 2}
Hold     == 3 - out
Flaws    == {"none", \* all that the camera sent of it was handled
             "lost", \* a payload of it was lost or bad while the stream was running
             "cut"}  \* the stream was stopped in the middle of it
Contents == [number : 0..MaxCaptured, done : BOOLEAN, flaw : Flaws]
Empty    == [number |-> 0, done |-> FALSE, flaw |-> "none"]

HandoffInit ==
    /\ phase = "stopped" /\ started = 0 /\ polling = FALSE
    /\ buf = [b \in Buffers |-> Empty] /\ out = 1
    /\ got = FALSE /\ flaw = "none" /\ bfhErr = FALSE /\ holdErr = FALSE
    /\ seq = 0 /\ holdSeq = 0
    /\ user = "none" /\ lastSeq = 0 /\ lastPolled = 0
    /\ frame = [image |-> Empty, bytes |-> FALSE]
    /\ captured = 0 /\ spoiled = FALSE
    /\ shown = [r \in Readers |-> 0]

------------------------------------------------------------------------------
(* The application starts and stops the stream *)

\* uvc_stream_start_bandwidth resets seq and bfh_err; hold_seq, hold_bfh_err, got_bytes and
\* last_polled_seq keep what an earlier start left, half a frame in outbuf too.
Start ==
    /\ phase = "stopped" /\ started < MaxStarted
    /\ phase' = "streaming" /\ started' = started + 1
    /\ polling' \in IF Mode = "any" THEN BOOLEAN ELSE {Mode = "poll"}
    /\ seq' = 0 /\ bfhErr' = FALSE
    /\ flaw' = IF got THEN "cut" ELSE "none"
    /\ user' = IF polling' THEN "none" ELSE "check"
    /\ lastSeq' = IF polling' THEN lastSeq ELSE 0
    /\ UNCHANGED <<buf, out, got, holdErr, holdSeq, captured, spoiled, lastPolled, frame, shown>>

\* running = 0: callbacks of transfers in flight still run.
Stop ==
    /\ phase = "streaming"
    /\ phase' = "stopping"
    /\ UNCHANGED <<started, polling, writerVars, readerVars>>

\* uvc_stream_stop returns: no transfer is left and the user thread was joined (what
\* KeepsPromise of StreamLifecycle shows).
Stopped ==
    /\ phase = "stopping" /\ user \in {"none", "exited"}
    /\ phase' = "stopped" /\ user' = "none"
    /\ UNCHANGED <<started, polling, writerVars, lastSeq, lastPolled, frame, shown>>

------------------------------------------------------------------------------
(* The event thread; a ...Variant is the definition after it with a bug a run must notice. *)

\* The first payload of a frame reaches outbuf.
Fill ==
    /\ phase # "stopped" /\ ~got /\ captured < MaxCaptured
    /\ captured' = captured + 1
    /\ buf' = [buf EXCEPT ![out] = [number |-> captured + 1, done |-> FALSE, flaw |-> flaw]]
    /\ got' = TRUE
    /\ UNCHANGED <<phase, started, polling, out, flaw, bfhErr, holdErr, seq, holdSeq, spoiled,
                   readerVars>>

\* A packet comes with an error status, or is bogus, or its data has no room.
Spoil ==
    /\ phase # "stopped"
    /\ flaw' = "lost"
    /\ bfhErr' = TRUE
    /\ UNCHANGED <<phase, started, polling, buf, out, got, holdErr, seq, holdSeq, captured,
                   spoiled, readerVars>>

NextSeqVariant(n) == n + 1
NextSeq(n)        == (n + 1) % SeqMod

\* The buffers _uvc_swap_buffers hands over: the finished one becomes holdbuf.
SwapVariant == out
SwapOut     == Hold

HoldErrVariant == FALSE
HoldErrOfFrame == bfhErr

\* _uvc_swap_buffers: at the end of a frame or the start of the next one.
SwapBuffers ==
    /\ phase # "stopped" /\ got
    /\ buf' = [buf EXCEPT ![out] = [number |-> @.number, done |-> TRUE, flaw |-> flaw]]
    /\ out' = SwapOut
    /\ holdErr' = HoldErrOfFrame
    /\ holdSeq' = seq
    /\ seq' = NextSeq(seq)
    /\ got' = FALSE
    /\ flaw' = "none"
    /\ bfhErr' = FALSE
    /\ spoiled' = (spoiled \/ flaw = "lost")
    /\ UNCHANGED <<phase, started, polling, captured, readerVars>>

------------------------------------------------------------------------------
(* The readers *)

\* _uvc_populate_frame, under cb_mutex; an erroneous frame gets actual_bytes = 0.
PopulatedVariant == [image |-> buf[out], bytes |-> ~holdErr]
Populated        == [image |-> buf[Hold], bytes |-> ~holdErr]

UserLeaves ==
    /\ user = "check" /\ phase # "streaming"
    /\ user' = "exited"
    /\ UNCHANGED <<phase, started, polling, writerVars, lastSeq, lastPolled, frame, shown>>

SeenSeqVariant == seq
SeenSeq        == holdSeq

HasNewVariant == TRUE
HasNew        == lastSeq # holdSeq

\* Under cb_mutex: note hold_seq, copy the frame unless it has an error.
UserTakes ==
    /\ user = "check" /\ phase = "streaming" /\ HasNew
    /\ lastSeq' = SeenSeq
    /\ frame' = IF holdErr THEN frame ELSE Populated
    /\ user' = "taken"
    /\ UNCHANGED <<phase, started, polling, writerVars, lastPolled, shown>>

\* The second look at hold_bfh_err, after the unlock.
UserCalls ==
    /\ user = "taken" /\ ~holdErr
    /\ user' = "calling"
    /\ shown' = [shown EXCEPT !["callback"] = frame.image.number]
    /\ UNCHANGED <<phase, started, polling, writerVars, lastSeq, lastPolled, frame>>

UserSkips ==
    /\ user = "taken" /\ holdErr
    /\ user' = "check"
    /\ UNCHANGED <<phase, started, polling, writerVars, lastSeq, lastPolled, frame, shown>>

\* The application's callback returns.
UserReturns ==
    /\ user = "calling"
    /\ user' = "check"
    /\ UNCHANGED <<phase, started, polling, writerVars, lastSeq, lastPolled, frame, shown>>

\* uvc_stream_get_frame finds, at once or after its wait, a frame beyond last_polled_seq;
\* otherwise it returns no frame and changes nothing.
Newer == lastPolled < holdSeq

PollTakes ==
    /\ polling /\ phase # "stopped" /\ Newer
    /\ frame' = Populated
    /\ lastPolled' = holdSeq
    /\ shown' = [shown EXCEPT !["poll"] = buf[Hold].number]
    /\ UNCHANGED <<phase, started, polling, writerVars, user, lastSeq>>

------------------------------------------------------------------------------
Writer == Fill \/ Spoil \/ SwapBuffers
Reader == UserLeaves \/ UserTakes \/ UserCalls \/ UserSkips \/ UserReturns

HandoffNext == Start \/ Stop \/ Stopped \/ Writer \/ Reader \/ PollTakes

\* The user thread runs, and the application returns from its callback.
HandoffSpec == HandoffInit /\ [][HandoffNext]_handoffVars /\ WF_handoffVars(Reader)

------------------------------------------------------------------------------
(* Properties *)

HandoffTypeOK ==
    /\ phase \in {"stopped", "streaming", "stopping"}
    /\ started \in 0..MaxStarted
    /\ polling \in BOOLEAN
    /\ buf \in [Buffers -> Contents]
    /\ out \in Buffers
    /\ got \in BOOLEAN /\ flaw \in Flaws /\ bfhErr \in BOOLEAN /\ holdErr \in BOOLEAN
    /\ seq \in 0..(SeqMod - 1) /\ holdSeq \in 0..(SeqMod - 1)
    /\ user \in {"none", "check", "taken", "calling", "exited"}
    /\ lastSeq \in 0..(SeqMod - 1) /\ lastPolled \in 0..(SeqMod - 1)
    /\ frame \in [image : Contents, bytes : BOOLEAN]
    /\ captured \in 0..MaxCaptured
    /\ spoiled \in BOOLEAN
    /\ shown \in [Readers -> 0..MaxCaptured]

\* A frame given to a reader with a length is one the writer had finished before the reader
\* looked, and nothing was lost of it since the stream was started: never a buffer that is
\* being filled, nor the bytes of one frame with the error flag of another.  A start forgets
\* what was lost of the half frame it finds.
FrameIntact == frame.bytes => frame.image.done /\ frame.image.flaw # "lost"

\* "Set actual_bytes to zero when error bits is on" (stream.c:1687), for damage of any kind:
\* it fails, because half a frame of an earlier start is handed over without its error.
FrameWhole == frame.bytes => frame.image.done /\ frame.image.flaw = "none"

Called == user = "taken" /\ user' = "calling"
Polled == lastPolled' # lastPolled

\* No reader is ever given an older frame than it was given before, errors and restarts
\* included.
NeverBackwards ==
    [][\A r \in Readers : (Called \/ Polled) => shown'[r] >= shown[r]]_handoffVars

\* A poller never gets a frame twice.
PollNeverRepeats == [][Polled => shown'["poll"] > shown["poll"]]_handoffVars

Renewed == shown'["callback"] > shown["callback"]

\* The callback "runs once per frame" (UVC.cpp:65): it never runs again for a frame it has
\* already had, nor for no frame at all.
OncePerFrame == [][Called => Renewed]_handoffVars

\* It does so as long as no frame had an error, until the stream is started anew.
OncePerFrameUnlessSpoiled == [][Called /\ ~spoiled /\ started = 1 => Renewed]_handoffVars

\* A user thread that has not seen the held frame looks at it, unless the stream is stopped.
HeldFrameSeen == (HasNew /\ user \in {"check", "taken", "calling"} /\ phase = "streaming")
                     ~> (~HasNew \/ phase # "streaming")
=============================================================================
