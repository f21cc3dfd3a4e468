---------------------------- MODULE CameraHandle ----------------------------
(***************************************************************************)
(* One camera and the handles an application opens on it one after the     *)
(* other (libuvc/device.c, libuvc/stream.c, libusb/core.c,                 *)
(* os/android_usbfs.c): who holds the interfaces in the kernel and who     *)
(* thinks so, the kernel driver that is detached and attached again, the   *)
(* altsettings, and the status transfer that lives as long as a handle.    *)
(*                                                                         *)
(* On Android libusb never closes the file descriptor: Java opened it, and *)
(* every handle on the camera uses the same one.  Elsewhere each handle    *)
(* has its own, and closing it makes the kernel clean up.                  *)
(***************************************************************************)
EXTENDS Integers, Sequences, SequencesExt

CONSTANTS Ctrl,       \* the control interface
          StreamIfs,  \* the streaming interfaces
          MaxOpens,   \* bound: calls of uvc_open
          MaxOthers,  \* bound: times another program takes an interface
          MaxEvents   \* bound: status packets the camera sends

ASSUME CameraHandleAssumption ==
    Ctrl \notin StreamIfs /\ MaxOpens \in Nat /\ MaxOthers \in Nat /\ MaxEvents \in Nat

VARIABLES
    build,      \* "android" or "desktop"
    claimIoctl, \* the kernel knows USBDEVFS_DISCONNECT_CLAIM
    fits,       \* the kernel has a driver for the camera
    present,    \* the camera is plugged in
    bound,      \* who has an interface in the kernel: "nobody", "driver", "us", "other"
    alt,        \* interfaces in an altsetting with bandwidth
    pending,    \* the status transfer (number of its handle) whose URB waits in the kernel; 0: none
    done,       \* URBs that are ready to be reaped: <<handle, "event", "killed" or "gone">>
    handle,     \* handles opened so far
    open,       \* a libusb handle is open
    auto,       \* its auto_detach_kernel_driver
    claimed,    \* its claimed_interfaces
    streams,    \* interfaces with a stream handle
    flying,     \* status transfer in libusb's list
    freed,      \* status transfers freed by uvc_free_devh
    call,       \* what the application is in: [op, iface, at]
    todo,       \* what a reset has still to release, or to claim again
    others, events,   \* counted
    resetFailed,\* the last reset of this handle failed, and lost its claims
    lost,       \* interfaces with a stream, or the control interface, that a reset did not get back
    taken,      \* interfaces that another program had at some time
    leftover,   \* interfaces claimed without a release that belongs to it (see DriverBack)
    touched     \* freed transfers that were reaped

kernel == <<present, bound, alt>>
urbs   == <<pending, done>>
devh   == <<open, auto, claimed, streams, flying>>
reset  == <<todo, resetFailed, lost>>
ghosts == <<taken, leftover, touched>>
vars   == <<build, claimIoctl, fits, kernel, urbs, handle, devh, freed, call, reset, others, events, ghosts>>

Ifaces == {Ctrl} \cup StreamIfs
NoCall == [op |-> "none", iface |-> Ctrl, at |-> "idle"]
fixed  == <<build, claimIoctl, fits>>

Init ==
    /\ build \in {"android", "desktop"} /\ claimIoctl \in BOOLEAN /\ fits \in BOOLEAN
    /\ present = TRUE
    /\ bound = [i \in Ifaces |-> IF fits THEN "driver" ELSE "nobody"] /\ alt = {}
    /\ pending = 0 /\ done = <<>>
    /\ handle = 0 /\ open = FALSE /\ auto = FALSE /\ claimed = {} /\ streams = {}
    /\ flying = FALSE /\ freed = {} /\ call = NoCall
    /\ others = 0 /\ events = 0
    /\ todo = {} /\ resetFailed = FALSE /\ lost = {}
    /\ taken = {} /\ leftover = {} /\ touched = {}

At(op, at) == call.op = op /\ call.at = at
Goes(at)   == call' = [call EXCEPT !.at = at]

------------------------------------------------------------------------------
(* The kernel *)

\* USBDEVFS_CLAIMINTF succeeds on what this file has already; USBDEVFS_DISCONNECT_CLAIM, with
\* usbfs excepted, does not.
GrantsTo(i, detaching) == \/ bound[i] = "nobody"
                          \/ bound[i] = "driver" /\ detaching
                          \/ bound[i] = "us" /\ ~(detaching /\ claimIoctl)

Grants(i) == GrantsTo(i, auto)

\* A status URB that loses its interface ends: killed (-ENOENT), which libusb reports as completed,
\* or with its endpoint gone (-ESHUTDOWN), which it reports as a device that has left.
Ended(p) == IF p = 0 THEN {done} ELSE {Append(done, <<p, why>>) : why \in {"killed", "gone"}}

LosesInterfaces(S) ==
    /\ alt' = alt \ S
    /\ IF Ctrl \in S THEN pending' = 0 /\ done' \in Ended(pending) ELSE UNCHANGED urbs

OtherTakes(i) ==
    /\ present /\ bound[i] = "nobody" /\ others < MaxOthers
    /\ bound' = [bound EXCEPT ![i] = "other"] /\ others' = others + 1
    /\ taken' = taken \cup {i}
    /\ UNCHANGED <<fixed, present, alt, urbs, handle, devh, freed, call, reset, events, leftover, touched>>

OtherLeaves(i) ==
    /\ bound[i] = "other"
    /\ bound' = [bound EXCEPT ![i] = "nobody"]
    /\ UNCHANGED <<fixed, present, alt, urbs, handle, devh, freed, call, reset, others, events, ghosts>>

Unplug ==
    /\ present /\ present' = FALSE
    /\ bound' = [i \in Ifaces |-> "nobody"]
    /\ LosesInterfaces(Ifaces)
    /\ UNCHANGED <<fixed, handle, devh, freed, call, reset, others, events, ghosts>>

StatusPacket ==
    /\ pending # 0 /\ events < MaxEvents
    /\ done' = Append(done, <<pending, "event">>) /\ pending' = 0
    /\ events' = events + 1
    /\ UNCHANGED <<fixed, kernel, handle, devh, freed, call, reset, others, ghosts>>

------------------------------------------------------------------------------
(* libusb_claim_interface, for uvc_open and uvc_stream_open_ctrl: after a refusal the backend's  *)
(* release, a detaching of the driver, and once more.                                            *)

ClaimDone(next) == claimed' = claimed \cup {call.iface} /\ Goes(next)

Claim(next) ==
    /\ call.at = "claim"
    /\ \/ /\ present /\ call.iface \in claimed
          /\ Goes(next) /\ UNCHANGED <<bound, claimed>>
       \/ /\ present /\ call.iface \notin claimed /\ Grants(call.iface)
          /\ bound' = [bound EXCEPT ![call.iface] = "us"] /\ ClaimDone(next)
       \/ /\ present /\ call.iface \notin claimed /\ ~Grants(call.iface)
          /\ Goes("retry") /\ UNCHANGED <<bound, claimed>>
       \/ /\ ~present
          /\ Goes("refused") /\ UNCHANGED <<bound, claimed>>
    /\ UNCHANGED <<fixed, present, alt, urbs, handle, open, auto, streams, flying, freed, reset, others, events, ghosts>>

\* The release works on what an earlier handle of the same file left behind, and puts the driver
\* back, which is then detached.
RetriesVariant == FALSE
Retries        == bound[call.iface] = "us"

ClaimRetry ==
    /\ call.at = "retry"
    /\ IF Retries
       THEN /\ bound' = [bound EXCEPT ![call.iface] = "nobody"]
            /\ LosesInterfaces({call.iface})
            /\ Goes("again")
       ELSE /\ bound' = [bound EXCEPT ![call.iface] = IF @ = "driver" THEN "nobody" ELSE @]
            /\ UNCHANGED <<alt, urbs>>
            /\ Goes("refused")
    /\ UNCHANGED <<fixed, present, handle, devh, freed, reset, others, events, ghosts>>

ClaimAgain(next) ==
    /\ call.at = "again"
    /\ \/ /\ present /\ Grants(call.iface)
          /\ bound' = [bound EXCEPT ![call.iface] = "us"] /\ ClaimDone(next)
       \/ /\ ~(present /\ Grants(call.iface))
          /\ Goes("refused") /\ UNCHANGED <<bound, claimed>>
    /\ UNCHANGED <<fixed, present, alt, urbs, handle, open, auto, streams, flying, freed, reset, others, events, ghosts>>

(* libusb_release_interface: the claim goes, and with it the URBs of the interface; then the     *)
(* driver is attached again.                                                                     *)
Release(next) ==
    /\ call.at = "release"
    /\ LET i == call.iface
       IN  \/ /\ i \in claimed /\ bound[i] = "us"
              /\ bound' = [bound EXCEPT ![i] = "nobody"]
              /\ claimed' = claimed \ {i}
              /\ LosesInterfaces({i})
              /\ Goes("attach")
           \/ /\ ~(i \in claimed /\ bound[i] = "us")
              /\ UNCHANGED <<bound, claimed, alt, urbs>>
              /\ Goes(next)
    /\ UNCHANGED <<fixed, present, handle, open, auto, streams, flying, freed, reset, others, events, ghosts>>

Attach(next) ==
    /\ call.at = "attach"
    /\ bound' = [bound EXCEPT ![call.iface] =
                   IF @ = "nobody" /\ present /\ fits /\ auto THEN "driver" ELSE @]
    /\ Goes(next)
    /\ UNCHANGED <<fixed, present, alt, urbs, handle, devh, freed, reset, others, events, ghosts>>

------------------------------------------------------------------------------
(* uvc_open *)

LibusbOpen ==
    /\ call = NoCall /\ ~open /\ present /\ handle < MaxOpens
    /\ handle' = handle + 1 /\ open' = TRUE
    /\ auto' = FALSE /\ claimed' = {} /\ streams' = {} /\ resetFailed' = FALSE /\ lost' = {}
    /\ call' = [op |-> "open", iface |-> Ctrl, at |-> "info"]
    /\ UNCHANGED <<fixed, kernel, urbs, flying, freed, todo, others, events, ghosts>>

\* uvc_get_device_info fails, or libusb is told to detach drivers.
DeviceInfo(ok) ==
    /\ At("open", "info")
    /\ auto' = ok
    /\ Goes(IF ok THEN "claim" ELSE "close")
    /\ UNCHANGED <<fixed, kernel, urbs, handle, open, claimed, streams, flying, freed, reset, others, events, ghosts>>

OpenClaims  == call.op = "open" /\ (Claim("status") \/ ClaimAgain("status"))
OpenRefused == /\ At("open", "refused") /\ Goes("release")
               /\ UNCHANGED <<fixed, kernel, urbs, handle, devh, freed, reset, others, events, ghosts>>

\* The status transfer is submitted, if the camera has such an endpoint.
SubmitStatus(ok) ==
    /\ At("open", "status")
    /\ IF ok /\ present /\ bound[Ctrl] = "us"
       THEN /\ pending' = handle /\ flying' = TRUE /\ call' = NoCall
       ELSE /\ Goes("release") /\ UNCHANGED <<pending, flying>>
    /\ UNCHANGED <<fixed, kernel, done, handle, open, auto, claimed, streams, freed, reset, others, events, ghosts>>

NoStatusEndpoint ==
    /\ At("open", "status") /\ call' = NoCall
    /\ UNCHANGED <<fixed, kernel, urbs, handle, devh, freed, reset, others, events, ghosts>>

OpenReleases == call.op = "open" /\ (Release("close") \/ Attach("close"))

------------------------------------------------------------------------------
(* Streams *)

\* uvc_stream_open_ctrl, of an interface that has no stream yet.
OpenStream(i) ==
    /\ call = NoCall /\ open /\ i \notin streams
    /\ call' = [op |-> "stream", iface |-> i, at |-> "claim"]
    /\ UNCHANGED <<fixed, kernel, urbs, handle, devh, freed, reset, others, events, ghosts>>

StreamClaims == call.op = "stream" /\ (Claim("commit") \/ ClaimAgain("commit"))

StreamRefused ==
    /\ At("stream", "refused") /\ call' = NoCall
    /\ UNCHANGED <<fixed, kernel, urbs, handle, devh, freed, reset, others, events, ghosts>>

\* uvc_stream_ctrl.  When it fails the interface stays claimed.
Commit(ok) ==
    /\ At("stream", "commit") /\ call' = NoCall
    /\ streams' = IF ok THEN streams \cup {call.iface} ELSE streams
    /\ leftover' = IF ok THEN leftover ELSE leftover \cup {call.iface}
    /\ UNCHANGED <<fixed, kernel, urbs, handle, open, auto, claimed, flying, freed, reset, others, events,
                   taken, touched>>

\* uvc_stream_start_bandwidth selects an altsetting; the kernel claims what the file does not
\* have, when it is free.
SelectAltsetting(i) ==
    /\ call = NoCall /\ i \in streams
    /\ present /\ i \in claimed /\ bound[i] \in {"us", "nobody"}
    /\ bound' = [bound EXCEPT ![i] = "us"] /\ alt' = alt \cup {i}
    /\ UNCHANGED <<fixed, present, urbs, handle, devh, freed, call, reset, others, events, ghosts>>

\* uvc_stream_close, by the application or by uvc_close; uvc_close goes on with the control
\* interface when no stream is left.
ReleasedFirstVariant == "free"
ReleasedFirst        == "release"

CloseStream(i) ==
    /\ i \in streams
    /\ \/ call = NoCall /\ call' = [op |-> "stop", iface |-> i, at |-> ReleasedFirst]
       \/ At("close", "streams") /\ call' = [op |-> "close", iface |-> i, at |-> ReleasedFirst]
    /\ UNCHANGED <<fixed, kernel, urbs, handle, devh, freed, reset, others, events, ghosts>>

StreamReleases == call.op \in {"stop", "close"} /\ call.iface # Ctrl /\ (Release("free") \/ Attach("free"))

FreeStream ==
    /\ call.at = "free"
    /\ streams' = streams \ {call.iface} /\ lost' = lost \ {call.iface}
    /\ call' = IF call.op = "stop" THEN NoCall ELSE [op |-> "close", iface |-> Ctrl, at |-> "streams"]
    /\ UNCHANGED <<fixed, kernel, urbs, handle, open, auto, claimed, flying, freed, todo, resetFailed,
                   others, events, ghosts>>

------------------------------------------------------------------------------
(* uvc_close *)

CloseCamera ==
    /\ call = NoCall /\ open
    /\ call' = [op |-> "close", iface |-> Ctrl, at |-> "streams"]
    /\ UNCHANGED <<fixed, kernel, urbs, handle, devh, freed, reset, others, events, ghosts>>

StreamsClosed ==
    /\ At("close", "streams") /\ streams = {}
    /\ Goes("release")
    /\ UNCHANGED <<fixed, kernel, urbs, handle, devh, freed, reset, others, events, ghosts>>

CloseReleases == call.op = "close" /\ call.iface = Ctrl /\ (Release("close") \/ Attach("close"))

\* libusb_close, and uvc_free_devh.  A file that is closed takes its claims and URBs along.
ClosesFileVariant == FALSE
ClosesFile        == build = "desktop"

CloseHandle ==
    /\ call.at = "close"
    /\ open' = FALSE /\ auto' = FALSE /\ flying' = FALSE /\ claimed' = {} /\ streams' = {}
    /\ freed' = freed \cup {handle} /\ call' = NoCall
    /\ IF ClosesFile
       THEN /\ bound' = [i \in Ifaces |-> IF bound[i] = "us" THEN "nobody" ELSE bound[i]]
            /\ alt' = {} /\ pending' = 0 /\ done' = <<>>
       ELSE UNCHANGED <<bound, alt, urbs>>
    /\ UNCHANGED <<fixed, present, handle, reset, others, events, ghosts>>

------------------------------------------------------------------------------
(* libusb_reset_device, which the application may call on uvc_get_libusb_handle: every interface  *)
(* that libusb thinks is claimed is released, the device reset, and each claimed again.           *)

ResetDevice ==
    /\ call = NoCall /\ open /\ present
    /\ call' = [op |-> "reset", iface |-> Ctrl, at |-> "down"] /\ todo' = claimed
    /\ UNCHANGED <<fixed, kernel, urbs, handle, devh, freed, resetFailed, lost, others, events, ghosts>>

\* The results of the releases are ignored.
ResetReleases(i) ==
    /\ At("reset", "down") /\ i \in todo
    /\ todo' = todo \ {i}
    /\ IF bound[i] = "us"
       THEN bound' = [bound EXCEPT ![i] = "nobody"] /\ LosesInterfaces({i})
       ELSE UNCHANGED <<bound, alt, urbs>>
    /\ UNCHANGED <<fixed, present, handle, devh, freed, call, resetFailed, lost, others, events, ghosts>>

\* USBDEVFS_RESET unbinds usbfs, and whatever is free afterwards a driver may take.  When it fails
\* the call ends, and claimed_interfaces stays as it was.
DeviceReset ==
    /\ At("reset", "down") /\ todo = {}
    /\ present
    /\ \E S \in SUBSET Ifaces :
          bound' = [i \in Ifaces |-> IF bound[i] = "driver" \/ (fits /\ i \in S) THEN "driver" ELSE "nobody"]
    /\ LosesInterfaces({i \in Ifaces : bound[i] = "us"})
    /\ Goes("up") /\ todo' = claimed /\ resetFailed' = FALSE
    /\ UNCHANGED <<fixed, present, handle, devh, freed, lost, others, events, ghosts>>

ResetFails ==
    /\ At("reset", "down") /\ todo = {}
    /\ call' = NoCall /\ resetFailed' = TRUE /\ leftover' = leftover \cup claimed
    /\ UNCHANGED <<fixed, kernel, urbs, handle, devh, freed, todo, lost, others, events, taken, touched>>

\* What cannot be claimed again is no longer in claimed_interfaces, whatever streams on it.
ReclaimedVariant(i, granted) == claimed
Reclaimed(i, granted)        == IF granted THEN claimed ELSE claimed \ {i}

ResetReclaims(i) ==
    /\ At("reset", "up") /\ i \in todo
    /\ todo' = todo \ {i}
    /\ LET granted == present /\ GrantsTo(i, TRUE)
       IN  /\ bound' = IF granted THEN [bound EXCEPT ![i] = "us"] ELSE bound
           /\ claimed' = Reclaimed(i, granted)
           /\ lost' = IF granted THEN lost ELSE lost \cup {i}
    /\ UNCHANGED <<fixed, present, alt, urbs, handle, open, auto, streams, flying, freed, call, resetFailed,
                   others, events, ghosts>>

ResetReturns ==
    /\ At("reset", "up") /\ todo = {} /\ call' = NoCall
    /\ UNCHANGED <<fixed, kernel, urbs, handle, devh, freed, reset, others, events, ghosts>>

------------------------------------------------------------------------------
(* Whoever handles events reaps the oldest URB of the file and calls _uvc_status_callback.       *)
(* A killed URB ends as COMPLETED and is submitted again like one with a packet, which makes the *)
(* kernel claim a free interface.                                                                *)

Resubmits(why) == why # "gone" /\ present /\ bound[Ctrl] \in {"us", "nobody"}

Reap ==
    /\ open /\ done # <<>>
    /\ LET xfer == Head(done)[1]
           why  == Head(done)[2]
       IN  \/ /\ xfer \in freed
              /\ touched' = touched \cup {xfer}
              /\ done' = Tail(done) /\ UNCHANGED <<pending, flying, bound, leftover>>
           \/ /\ xfer \notin freed
              /\ done' = Tail(done)
              /\ IF Resubmits(why)
                 THEN /\ pending' = xfer /\ bound' = [bound EXCEPT ![Ctrl] = "us"]
                      /\ leftover' = IF bound[Ctrl] = "us" THEN leftover ELSE leftover \cup {Ctrl}
                      /\ UNCHANGED flying
                 ELSE flying' = FALSE /\ UNCHANGED <<pending, bound, leftover>>
              /\ UNCHANGED touched
    /\ UNCHANGED <<fixed, present, alt, handle, open, auto, claimed, streams, freed, call, reset, others, events,
                   taken>>

------------------------------------------------------------------------------
KernelStep == \/ \E i \in Ifaces : OtherTakes(i) \/ OtherLeaves(i)
              \/ Unplug \/ StatusPacket

OpenStep == \/ LibusbOpen \/ OpenClaims \/ OpenRefused \/ NoStatusEndpoint \/ OpenReleases
            \/ \E ok \in BOOLEAN : DeviceInfo(ok) \/ SubmitStatus(ok)
            \/ ClaimRetry

StreamStep == \/ \E i \in StreamIfs : OpenStream(i) \/ SelectAltsetting(i) \/ CloseStream(i)
              \/ StreamClaims \/ StreamRefused \/ StreamReleases \/ FreeStream
              \/ \E ok \in BOOLEAN : Commit(ok)

CloseStep == \/ CloseCamera \/ StreamsClosed \/ CloseReleases \/ CloseHandle

ResetStep == \/ ResetDevice \/ DeviceReset \/ ResetFails \/ ResetReturns
             \/ \E i \in Ifaces : ResetReleases(i) \/ ResetReclaims(i)

Next == KernelStep \/ OpenStep \/ StreamStep \/ CloseStep \/ ResetStep \/ Reap

Spec == Init /\ [][Next]_vars

------------------------------------------------------------------------------
(* Properties *)

TypeOK ==
    /\ build \in {"android", "desktop"} /\ claimIoctl \in BOOLEAN /\ fits \in BOOLEAN
    /\ present \in BOOLEAN /\ bound \in [Ifaces -> {"nobody", "driver", "us", "other"}]
    /\ alt \subseteq StreamIfs /\ pending \in 0..MaxOpens
    /\ done \in Seq((1..MaxOpens) \X {"event", "killed", "gone"})
    /\ handle \in 0..MaxOpens /\ open \in BOOLEAN /\ auto \in BOOLEAN
    /\ claimed \subseteq Ifaces /\ streams \subseteq StreamIfs /\ flying \in BOOLEAN
    /\ freed \subseteq 1..MaxOpens /\ touched \subseteq freed
    /\ call \in [op : {"none", "open", "stream", "stop", "close", "reset"}, iface : Ifaces,
                 at : {"idle", "info", "claim", "retry", "again", "refused", "status", "commit",
                       "release", "attach", "free", "streams", "close", "down", "up"}]
    /\ others \in 0..MaxOthers /\ events \in 0..MaxEvents
    /\ todo \subseteq Ifaces /\ resetFailed \in BOOLEAN /\ lost \subseteq Ifaces
    /\ taken \subseteq Ifaces /\ leftover \subseteq Ifaces

\* What a reset that is under way has released and not yet claimed again.
Between == IF At("reset", "down") THEN claimed \ todo ELSE IF At("reset", "up") THEN todo ELSE {}

\* What libusb has in claimed_interfaces the kernel has given to this file, and what streams is
\* claimed and is the only thing with bandwidth, through refusals, retries, failing commits and
\* resets: while a reset is under way what it has released is not there, a stream whose interface
\* it did not get back has lost its claim, and after one that failed claimed_interfaces is wrong
\* (see ClaimedIsClaimed).
ClaimsAgree ==
    /\ present /\ ~resetFailed => \A i \in claimed \ Between : bound[i] = "us"
    /\ streams \subseteq claimed \cup {call.iface} \cup lost
    /\ alt \subseteq streams

\* What libusb_claim_interface would answer with 0 "without doing anything" (core.c) the kernel has
\* given to this file, whenever the application is not in a call.
ClaimedIsClaimed == present /\ call = NoCall => \A i \in claimed : bound[i] = "us"

\* An interface is refused only when another program has had it: what a closed handle left
\* claimed on the same file never keeps the next one out.
ReopenWorks == [][call.at # "refused" /\ call'.at = "refused" =>
                     ~present' \/ call.iface \in taken']_vars

\* When the camera is closed the kernel's driver is back on every interface, except where
\* another program was, the commit of a stream or a reset failed, or the status callback made the
\* kernel claim a released interface.
DriverBack ==
    ~open /\ present /\ fits => \A i \in Ifaces \ (taken \cup leftover) : bound[i] = "driver"

\* The driver is back wherever no other program was ("attach it when releasing the interface",
\* libusb_set_auto_detach_kernel_driver).
DriverAlwaysBack ==
    ~open /\ present /\ fits => \A i \in Ifaces \ taken : bound[i] = "driver"

\* Where the file is closed with the handle, nobody reaps an URB of a freed status transfer.
NoFreedReapOnDesktop == build = "desktop" => touched = {}

\* Nor where it stays open (libusb_free_transfer: "It is not legal to free an active transfer").
NoFreedReap == touched = {}
=============================================================================
