# qtUVCCamera: models, checks and proofs

qtUVCCamera shows the picture of a USB camera in a Qt application on Android. It contains
libuvc (`src/libuvc`), libusb with a backend for Android's usbfs (`src/libusb`), and a thin
application (`src/UVC.cpp`, `src/android`). All of it is C with threads, callbacks and
condition variables, and most of what can go wrong goes wrong between threads. This directory
holds TLA+ models of the parts where that happens, the configurations that check them with TLC,
and proofs checked by TLAPS.

## 1. Inventory

| Component | State | Operations | Talks to |
|---|---|---|---|
| Stream lifecycle, `libuvc/stream.c` | `running`, `transfers[]`, `user_cb`, `cb_thread` of `uvc_stream_handle` | `uvc_stream_open_ctrl`, `_start_bandwidth`, `_stop`, `_close`, `_uvc_stream_callback`, `_uvc_user_caller`, `uvc_stream_get_frame` | submits and cancels libusb transfers; called back by the event thread; wakes readers through `cb_cond` |
| Frame hand-off, `libuvc/stream.c` | `outbuf`, `holdbuf`, `seq`, `hold_seq`, `last_polled_seq`, `bfh_err`, `hold_bfh_err`, `frame` | `_uvc_swap_buffers`, `_uvc_populate_frame`, the readers | event thread writes, user thread or poller reads |
| Payload assembly, `libuvc/stream.c` | `fid`, `got_bytes`, `pts`, `last_scr`, `bfh_err` | `_uvc_process_payload`, `_uvc_process_payload_iso` | called by the stream callback, calls the swap |
| Stream negotiation, `libuvc/stream.c`, `UVC.cpp` | the control block, `cur_ctrl`, `maxAvailableWidth` and `-Height` | search for a frame, probe and commit, alternate setting and size of the transfers | control transfers; the descriptors |
| Device handles and contexts, `libuvc/device.c`, `init.c` | `open_devices`, `kill_handler_thread`, `claimed`, the status transfer | `uvc_open`, `uvc_close`, `uvc_claim_if`, `uvc_release_if`, `uvc_exit`, `_uvc_handle_events` | libusb open and close, claims and kernel drivers; owns the event thread |
| Status packets and controls, `libuvc/device.c`, `ctrl.c` | the status, button callbacks of the device handle, the registers of the camera | `_uvc_status_callback`, getters and setters | synchronous control transfers; callbacks of the application |
| Descriptor parsing of libuvc, `libuvc/device.c` | `uvc_device_info`: units, streaming interfaces, formats, frames | `uvc_get_device_info`, `uvc_scan_control`, `uvc_scan_streaming`, `uvc_parse_*`, `uvc_free_device_info` | reads the tree that libusb made |
| Descriptor parsing of libusb, `libusb/descriptor.c`, `os/android_usbfs.c` | `libusb_config_descriptor`: interfaces, altsettings, endpoints | `op_get_config_descriptor`, `parse_configuration`, `parse_interface`, `parse_endpoint`, `clear_*` | bytes from the kernel |
| Frame conversion, diagnostics, `libuvc/frame.c`, `diag.c`, `misc.c` | none | conversions, printing | none |
| Transfers, `libusb/io.c`, `os/android_usbfs.c` | `flying_transfers`, `urbs`, `num_retired`, `reap_action`, `reap_status` | submit, cancel, timeouts, reaping, completion, disconnection | kernel (usbfs); the callbacks of libuvc |
| Event handling, `libusb/io.c` | `events_lock`, `event_handler_active`, `pollfd_modify`, control pipe, waiters | `libusb_handle_events*`, try lock, lock, unlock, wait | every thread that waits for USB |
| Opening and closing, `libusb/core.c` | `open_devs`, `pollfds`, `claimed_interfaces`, reference counts | `libusb_open`, `libusb_close`, `libusb_claim_interface`, kernel drivers, `libusb_reset_device` | interrupts event handling; usbfs |
| Synchronous transfers, `libusb/sync.c` | a `completed` flag per call | `libusb_control_transfer` and its like | event handling |
| Hotplug and device list, `libusb/core.c`, `hotplug.c`, `os/android_netlink.c` | `default_context_refcnt`, `usb_devs`, `refcnt` and `attached` of devices, `hotplug_pipe`, callbacks | `libusb_init2`, `libusb_exit`, `libusb_get_device_list`, `libusb_ref_device`, arrival and removal, registering a callback | netlink thread, event handling |
| Application, `UVC.cpp`, `getPermission.java` | the current camera and frame | `startUVC`, `stopUVC`, the frame callback | libuvc |

What is hard: the flag `running` is read and written outside the mutex; transfers complete,
are cancelled and are resubmitted at the same time; one camera's removal, an application that
stops, and a callback in progress meet; several threads wait for USB events but only one may
poll; numbers wrap and flags survive a restart; payloads are lost, damaged or short without a
word; claims are counted by libusb and by the kernel, and one of them fails; a device leaves and
another takes its port while its messages are still in a pipe; a camera answers with something
else than it was asked; its descriptors are cut or damaged. `PROJECT.json` lists each of these
hazards at its line with the properties that cover it, or the reason why none does.

What makes each part correct: a stream that is stopped or closed has nothing left running and the
stop returns; a reader never gets a frame that is being written, an older one or the same one
again, and what is missing from a frame is marked; an accepted transfer is answered once, by the
right status, with no URB left in the kernel; a thread that waits for an event is woken, a poller
polls what is open, opening and closing end; the library and the kernel agree on claims, and who
closes a camera gives it back; an object in use is not freed and one out of use is; what a camera
offers is found, and what it agreed to is what was asked and what the transfers are made for; a
getter reads what its setter wrote; a good camera loses nothing in the parsers.

## 2. Modules

| Module | Models | How it corresponds to the code |
|---|---|---|
| `StreamService` | what the owner of a stream is promised | abstract: activities exist only between start and stop, stop and close end them |
| `StreamLifecycle` | stream lifecycle | one action per step between two points where another thread can see the difference; a critical section of `cb_mutex` is one action, only the cancel loop of `uvc_stream_stop` keeps the lock over several (`Locked`) |
| `FrameHandoff` | frame hand-off | a buffer is a frame number, whether the writer has left it, and its flaw, which is kept apart from the flags of the code; the critical sections of `_uvc_swap_buffers`, `_uvc_user_caller` and `uvc_stream_get_frame` are actions, what the user thread does after its unlock is another |
| `TransferService` | what a caller of `libusb_submit_transfer` is promised | abstract: one callback per accepted submission, with nothing held by the kernel |
| `UrbTransfer` | one transfer in several URBs | the handlers run under `itransfer->lock` and are one action each; the kernel is the environment |
| `EventLoop` | event handling, opening and closing, the event thread, synchronous control transfers | each thread has a place (`at`) in `libusb_handle_events_timeout_completed`; the main thread has a chore, opening or closing, with a step for each lock, pipe and counter operation |
| `PayloadAssembler` | payload assembly: bulk, isochronous and iSight streams | one action per payload handled or lost; a frame buffer is the set of `<<frame, part>>` that lie in it, `asm` holds the fields of the handle, `skipped` what the code passed over without a mark, `overrun` whether the last data had no room; what readers do afterwards is `FrameHandoff`, of which `Fill`, `Spoil` and `SwapBuffers` are what the handlers here do |
| `CameraHandle` | one camera: claims, kernel drivers, altsettings, status transfer, reset, handles one after the other | `bound` is what the kernel thinks of an interface, `claimed` what libusb thinks; the application is in one `call` at a time, with a step for each ioctl, those of a reset included; a URB of the status transfer that loses its interface ends as killed, and is submitted again, or as gone; Android keeps the file open for ever, a desktop build closes it |
| `DeviceList` | contexts, device objects, references, the netlink monitor, the hotplug pipe, a hotplug callback, opening a device that leaves | a device object is a number, its fields are functions of it; one action per critical section of the list, of the pipe or of the reference count; both builds |
| `CameraDescriptors` | what libusb and then libuvc make of the bytes of a camera | the bytes are a sequence of descriptors that may end within one; each step of a loop is a step; `heap` is what is allocated and not freed |
| `Negotiation` | search, probe, commit, alternate setting and transfers, and the second question of `UVC.cpp` | an application thread makes requests one at a time, each is answered by a camera that obeys, changes, fails or answers short |
| `VideoControls` | named controls and status interrupts | the getters and setters are a table of unit, selector and fields; an application thread in a call, the event thread in a callback, both with the mutex where the code has it |
| `MC...` | instances for TLC | the `.cfg` files give the constants their values |
| `..._proofs` | theorems | see section 5 |

`StreamLifecycle` sees a transfer as in flight, in its callback, idle or freed; `UrbTransfer` is
the inside of "in flight"; `EventLoop` is who reaps; `FrameHandoff` is what a finished frame
means to the readers, whose sleeping and waking `StreamLifecycle` has. `PayloadAssembler`
is how payloads become that frame; `CameraHandle` is what an opening of `EventLoop` claims,
`DeviceList` where the opened device comes from, `CameraDescriptors` what it says of itself,
`Negotiation` and `VideoControls` what is then asked of it. The modules share no variables: each
interface is one of these few words, stated at the head of the module.

Definitions named `...Variant` are plausible bugs of the definition that follows them. No
specification uses them; each shows that a property notices that bug.

## 3. Runs

| Run | Instance | Properties | Shows |
|---|---|---|---|
| `stream_clean` | three slots, two starts, no fault | `ClosedIsQuiet`, `KeepsPromise`, `StopTerminates` | a freed handle is quiet, the stream implements `StreamService`, a stop returns |
| `stream_faults` | two slots, one start, one poller, refused submissions, unplugged camera | `NoDanglingSlot`, `StopReturnsQuiet` | no dangling slot; a stop that returns has ended what the start began |
| `handoff` | sequence numbers modulo 4, six frames, two starts | `FrameIntact`, `NeverBackwards`, `OncePerFrameUnlessSpoiled`, `HeldFrameSeen` | frames that are finished and without damage noted since the start, in order, not twice |
| `urbs` | three URBs, chained bulk and iso, three submissions | `NoStaleCancel`, `NoSilentError`, `CancelAnswered`, `KeepsPromise` | one answer per submission, the right status, nothing left in the kernel |
| `event_loop` | two cameras, two openings, one control transfer, event thread, main thread, another caller | `NoLostWakeup`, `PollsWhatIsOpen`, `ServedUntilLastClose`, `ControlReturns`, `OpenCloseReturn` | no lost wakeup, the poller polls what is open, an open camera is served; control transfers end without a timeout, openings and closings with that of `poll()` |
| `payloads` | four frames of two payloads, room for four, two starts, every fault | `OneFrameFits`, `GapsAreMarkedOrSkipped`, `UnmarkedIsOneFrame`, `TimeStampFits` | data has no room only behind that of an earlier frame; an unmarked frame lacks only what was skipped without a mark, is not two neighbours, and carries its own time |
| `camera` | one streaming interface, two openings, another program, resets, one status packet | `ClaimsAgree`, `DriverBack`, `ReopenWorks` | the library and the kernel agree on claims, a closed camera is its driver's again, a leftover claim refuses nothing |
| `devices` | one port, two device objects, two contexts, three changes of the bus | `NothingDangles`, `NoLeak`, `ListMatchesPlugged`, `NoDeviceMissed` | owners have references, none is forgotten, the list follows the bus, no arrival is missed |
| `descriptors` | three cameras, one with two streams, and what is left of each with one thing wrong (for one of them two) | `TreeIsPrefix`, `WellFormedIsKept`, `FormatsAreKept`, `NothingLeaks` | good cameras lose nothing in either parser, bad ones leave a prefix and no memory |
| `negotiation` | four cameras, four sizes, three kinds of format, failing requests | `OfferedIsFoundAscending`, `AvailableIsOffered`, `AnswerIsAsked`, `RunningFits` | what is offered is found, what is agreed is what was asked, packets and transfers fit it |
| `controls` | each control but the iris, and every two that could be taken for each other, three calls, two packets, every fault | `GetIsSet`, `CallbackIsRegistered`, `StatusGoesOn` | getters read what their setters wrote, replaced callbacks rest, status packets go on |
| `pulled_close` | pulled while it streams, then closed | `ClosedIsQuiet`, violated | the close frees a handle in use (finding 1) |

Each property of a passing run has a mutant in `PROJECT.json`: a bug of the code that it notices.

**Bounds.** Every bound is a constant named in its module; what they must let happen is:

- Three slots are a first, a middle and a last one in the loops of start and stop; the
  interesting faults need two. Two starts let the leftovers of one meet the next.
- Four sequence numbers and six frames make the numbers wrap, with a held, a filled and a polled
  frame at different values.
- Three URBs are a first, a middle and a last one.
- Two cameras are one to open or close while the other is used; one control transfer beside the
  event thread and a stream is enough contention for the lock, and with a second opening it also
  runs without an event thread.
- Four frames of two payloads: a frame whose end is lost, one lost as a whole so that the frame
  id is the same again, and a frame on either side of them, with a stop in between. A buffer of
  four payloads can overflow, because two frames may run into each other.
- A second opening meets what the first one left; the other program can take an interface before
  an opening, between a release and the driver's return, and in the middle of a reset. One packet
  is enough beside the URBs that releases kill, which wait to be reaped like it.
- Two device objects are one that left and one that arrived on its port; three changes of the bus
  are an arrival, a departure and an arrival while none of them has been read; a second context
  meets the references of the first.
- Of each camera every descriptor is once dropped, doubled, lowered, miscounted, exchanged with
  the next, or the last one there. The first camera is isochronous with several settings, the
  second is bulk with its blocks behind the endpoint, the third has two streams with formats and
  frames of their own, and is there once more with a control block that libuvc does not know. The
  places where two things go wrong together are the pairs that involve an exchange. What
  `uvc_parse_vc` refuses (`device.c:1175`) loses its streams, and `FormatsAreKept` says nothing of
  it.
- Lists and ranges of intervals, one and two interfaces, iso and bulk, a camera that
  takes a frame of its own, one that answers with fewer bytes. Sizes that it has, has in another
  format, and has not; a kind of frame that the table of `stream.c:80` does not know. A second
  of 12 units has intervals that divide it and some that do not.
- Bytes have eight values; the values given are the ends of each type, 0 and 1 (`EdgeValues`). A
  setter, a second setter and a getter are three calls. Controls of different unit or width cannot
  take each other's place, so pairs of like ones are enough. The iris is not among them
  (finding 10).

**Deadlock** is checked in `negotiation`, where every request has an answer, and in
`descriptors`, which ends in a step that stutters. In the other systems the application may stop
calling, the camera may send nothing, and everything may be closed.

## 4. Fairness

- `StreamLifecycle`: threads in the library run on and a transfer in flight completes once it
  is cancelled; the application is not obliged to start or stop and the camera to send.
- `FrameHandoff`: only the reader is fair.
- `UrbTransfer`: only the event thread is fair (`WF_vars(EventStep)`); URBs complete if and
  when the device likes, discarded ones come back at once.
- `EventLoop`: every thread runs on and the camera answers control transfers. Two assumptions
  are stronger: `open_devs_lock` starves nobody, and the camera does not for ever complete URBs
  faster than they are reaped, because `op_handle_events` loops until there is none. The
  timeouts of `poll()` and of the timed wait are not assumed for `ControlReturns`. They are for
  `OpenCloseReturn`: the event thread can test `kill_handler_thread` just before it is set and
  poll just after the pipe was emptied, and then `uvc_close` waits for its 60 seconds.
- `VideoControls`: the camera answers a control transfer or its timeout does (`Completes`), and
  the event thread runs, callbacks return (`Handles`). The application need not call nor the
  camera report.

The other modules state no fairness and have no liveness property: a camera, a cable and an
application owe nothing there.

## 5. Proofs

All proofs hold for every value of the constants, with the named assumption of the module.

`StreamLifecycle_proofs`. `TypeOK` and `NoDanglingSlot` are not inductive alone: the slot of a
transfer in a callback, the transfers that a start has allocated but not submitted, and those that
no start has allocated yet must be described too. The invariant `IInv` adds for that `Counted` (the
bounds of the loop index and the counters), `InCallback`, `ToSubmit` and `Unborn`. `LastHeld` says
that a transfer of the last start that is in use is still in its slot and `Drained` that after the
scan of `uvc_stream_stop` no slot is left; together they give `StopReturnsQuiet`
(`StopEndsLastStart`) under any faults. Without faults and pollers `CleanInv` adds `Reliable`
(`running` is cleared only by a stop), `AllHeld` (the same as `LastHeld`, for every start) and
`Rested` (a stopped stream has no activity), from which `ClosedIsQuiet` follows (`CloseIsSafe`).

For the refinement `MapInv` is `CleanInv` with `Placed` (where the application thread can be in
each session); each action of `StreamLifecycle` is shown to be a step of `StreamService` or to
stutter (`StreamImplementsService`).

`Frames_proofs` is about `FrameHandoff` and `PayloadAssembler`, two ends of one frame; the
specification of the first is `HandoffSpec`, so that one module can extend both. For
`FrameHandoff`, `HandoffInv` consists of `HandoffTypeOK`, `FrameIntact`, `HeldFinished` (the held
buffer is empty or finished, and what was lost of it is in `hold_bfh_err`, for `FlagTells` says the
same of the one being filled), `InOrder` (shown, held and filled frames are in this order),
`PollUnseen` and `CallUnseen` (a sequence number that differs belongs to a frame not shown yet).
A frame that an earlier start cut short has lost its flag: `FrameIntact` does not call it whole,
and `FrameWhole`, which does, is false (finding 7). The action properties `NeverBackwards`,
`PollNeverRepeats` and `OncePerFrameUnlessSpoiled` follow from it step by step.

`EventLoop_proofs`. `Locks` says at which places of the loop, and of the main thread's chore, a
thread holds `events_lock`; `Chores` ties `pollfd_modify` and the control pipe to how far the
chore is; `Asleep` keeps sleepers at their wait; `Polled` says which descriptors are in
`pollfds` while a camera is being opened or closed; `Spawned` that without a camera no event
thread runs. None of the three properties is inductive without them: that nobody polls while the
set of descriptors shrinks (`PollsWhatIsOpen`, `PollerUpToDate`) is a fact about the lock, and
that a sleeper has a broadcast to come (`NoLostWakeup`, `SleepersAreWoken`) one about the places
between an unlock and its broadcast. `CamerasAreServed` is `ServedUntilLastClose`.

The other half of `Frames_proofs`. The handlers of `PayloadAssembler` see only `fid`, `got_bytes`
and the header, and the properties speak of camera frames. `Assembled` is the bridge: what lies in
an unmarked buffer is, but for parts that were skipped, of one frame id and complete from its first
part up to where the camera is, and `fid` tells whether the camera is still in that frame. From it
every frame that is handed over, on EOF or on a toggled id, is as `HandedOK` says. Two frames can
share an unmarked buffer only when the frame between them was skipped, for neighbours have
different ids (`UnmarkedIsOneFrame`); the time stamp is that of the first header because a toggle
swaps before it reads the next one (`TimeStampFits`). `CompleteUnlessSkipped` draws the conclusion
for cameras without the error bit and transfers that are not retried: then nothing is skipped and
an unmarked frame is complete from its first part on (`UnmarkedIsComplete`, false otherwise,
finding 12). `OneFrameAlwaysFits` needs another invariant, `Room`: of the frame the camera is in,
the buffer has no more than was sent of it, so what has no room is behind another frame.

`CameraHandle_proofs`. `ClaimsAgree`, `DriverBack` and `ReopenWorks` need one another. `IInv` says
for each place of a call what has been done so far (`Calls`), what an open and a closed handle have
(`Handles`), that a stream, a setting with bandwidth, a claim need each other (`Streams`,
`Bandwidth`, `Agreed`, with what a reset has between its release and its claim: `Between`), where
the URB of the status transfer can be (`Urbs`), why a claim was refused (`Refusals`), and that each
interface is its driver's, another program's, ours and claimed, or left over from an earlier handle
(`Owners`). `ReopenWorks` then rests on the retry in `libusb_claim_interface`, which releases what
was left over. `NoFreedReapHolds` is about the desktop build only: closing the file discards the
URB there, so finding 8 is one of Android.

`UrbTransfer_proofs`. `NoStaleCancel` holds for every kind of transfer, with `Marks` (a cancelling
`reap_action` or the mark of a timeout is of this submission) and `Statuses` (a result is what the
action makes of it). The other theorems assume `"split" \notin Kinds`: when the kernel does not
chain bulk URBs they are false (finding 5). Their invariant `TransferInv` accounts for every URB
of a submission: `Accounts` (the reaped, the reapable and those in the kernel add up to
`NumUrbs`), `InTurn` (they follow each other in that order while nothing was recalled), `Recalled`
(after a recall the kernel has none), `Flight` (a transfer with URBs flies, a reported one has
none). With them the last URB to be reaped is the one that reports the transfer, so each action
is a step of `TransferService` or stutters (`TransferKeepsPromise`). `NoSilentError` needs to know
who is to blame when a URB ends cancelled: `Blame` (the recall of its neighbours behind another
end), `ShortOnly` (nothing but short, full and recalled URBs behind a short one), and `Honest` (the
status keeps the first real error) give `ErrorsAreReported`.

`DeviceList_proofs`. `NothingDangles` compares a counter with the number of its owners. The owners
are places in lists and messages in a pipe, so the invariant first says that no list has a device
twice (`Lists`, which holds `InOrder`: the pipe announces a departure once, after the list lost
the device, and of each arrival the device is still listed or its departure comes later). Then the
count is that of a few facts, and `Counted` compares it with `refcnt`, exactly but for strays.
`Numbers`, `Quiet` and `Calling` say how objects are numbered, what a context that is not ready
lacks, and what a call in progress holds; `Hears` is `NoDeviceMissed` before the pipe is read, and
`Counters`, `Monitored` describe the phases of contexts and monitor. From these follow
`NobodyHasFreedDevice`, `NothingIsLeaked`, `CallbackHearsAll` and `UsersKeepContext`.
`ListMatchesPlugged` speaks of an empty socket only. `Watched` says what the socket holds before:
for each port the last uevent about it tells whether a camera is plugged there (`Told`), one that
will correct the list is there wherever the list is wrong, and no port has two devices
(`OnePerPort`); reading, scanning, and an open that finds the file gone keep it (`ListFollowsBus`).

`Requests_proofs` is about `Negotiation` and `VideoControls`. For the first, the assumption says
what the standard asks of descriptors (`CameraOK`: no list is empty, no interval and no step is 0)
and that an interval made of a rate is not of a higher one than asked for (`RateOK`; with the
10000000 of the code it is so up to 3198 frames). `Questions` keeps a format to try while a
question is asked. `Searched` is `OfferedIsFoundAscending` and `AvailableIsOffered` for the formats
given up so far; a step of the search adds one format, whose frames before the first wider one were
all looked at and whose frames behind it are wider because they ascend. `Agreed` follows a find
through the probe requests (`AnswerIsAsked`). `RunningFits` needs that a stream is for what its
interface is committed to and that a running one is not committed again (`Streaming`). The loops of
the search take the first of a list, which is the least of a set of places: that `<` is
well-founded on `Nat` gives it, for lists of any length.

For `VideoControls` (whose specification is `ControlsSpec`) the proof goes from the table of the
functions to the camera. The parameters of each function lie side by side in its `data[]` and
leave no byte (`FieldsOK`, shown row by row), so each byte is of one parameter; the bytes of
a number add up to it modulo what fits into them (`BytesAdd`, by division with a remainder for a
`Byte` of any size), and a getter of the same sign makes it the number again
(`DecodedIsEncoded`). `Kept` then says that the camera has the bytes of what was set. Two
hypotheses are needed, and findings 10 and 11 are what happens without them: no two functions in
use are of one control (`OwnControls`), and what is given to a setter fits into the bytes it sends
(`GivenFits`). `CallbackIsRegistered` is inductive.

`CameraDescriptors_proofs`. From the configuration descriptor to the end of the scan the parser is
behind that descriptor, and the array has the settings of the interfaces that were begun and of no
others (`BaseInv`). The settings are the interface descriptors that were passed, in order, each
with the blocks behind it (`TreeInv`), for what is in front of the parser is either skipped, and
then unknown, or added: `TreeIsAPrefix`. What is allocated can be found from the interfaces that
are counted or from a stream, but for controls that a second input header made forgotten
(`MemoryInv`); a parser that gives up counts every interface that has something, and what counts
nothing has nothing: `NothingIsLeaked`. With descriptors as USB wants them an endpoint is wanted
exactly when one comes, so no error return can be taken (`KeptInv`, `WellFormedIsAlwaysKept`). With
blocks as UVC wants them a stream has the formats and frames of the blocks of its interface that
are not left to parse, and a frame finds the format before it (`ScannedInv`,
`FormatsAreAlwaysKept`). `BlobAssumption` says which fields a descriptor has; how many there are,
and of what sizes, is not limited.

Type invariants are proved for every module but the abstract ones; they are not among the
properties that runs list, and TLC confirms them on their instances, as it does `AutoIsOfUvc15` and
`UserThreadsLeave`. Every safety invariant and every action property of a passing run is stated by
a theorem.

Only model-checked: every liveness property (`StopTerminates`, `HeldFrameSeen`, `CancelAnswered`,
`ControlReturns`, `OpenCloseReturn`, `StatusGoesOn`), for liveness under fairness and `ENABLED`
are beyond the prover. The instances stand for these. No module has a recursive operator.

## 6. Findings

Where the code disagrees with its own comments, or with what they ask of libusb's users. The first
is a run; each of the others but the last is found by TLC with the module, the constants and the
property given. The runs leave these cases out by the condition of a property or by their
constants, and say so there.

1. A camera that is pulled while it streams clears `running`, and `uvc_stream_close` then frees the
   stream without ending its threads and transfers (`stream.c:1871`): `pulled_close`.
2. A resubmission that fails is not noticed, and `uvc_stream_stop` waits for it for ever
   (`stream.c:1007`, against `stream.c:1798`): `StopTerminates` in `MCStreamLifecycle`, as in
   `pulled_close`.
3. A poller between its test of `running` and its wait is not cancelled (`stream.c:1740`, against
   `stream.c:1798`): `PollersCancelled` in the same module, `NumPollers = 1`, `Faults = {}`.
4. `hold_bfh_err` is read again outside the mutex, and the callback can run with an old frame or
   with none (`stream.c:1659`; `UVC.cpp:65`: "runs once per frame"): `OncePerFrame` in
   `MCFrameHandoff`, `SeqMod = 4`, `MaxCaptured = 3`, `MaxStarted = 1`, `Mode = "callback"`.
5. Without bulk continuation a transfer can be reported before all its URBs are reaped
   (`android_usbfs.c:2683`): `NoUrbLeftBehind` in `MCUrbTransfer`, `NumUrbs = 3`,
   `Kinds = {"split"}`, `MaxSubmits = 1`.
6. `kill_handler_thread` is never cleared, and a camera opened after the last was closed has no
   event thread (`device.c:335`, `init.c:106`): `FirstDeviceServed` in `MCEventLoop`,
   `Devices = {d1}`, `MaxOpens = 2`, `MaxCalls = 1`, `Streaming = {}`.
7. `got_bytes` survives a stop, and the rest of the last frame is handed over after the next start
   (`stream.c:1403`; `stream.c:740` speaks of one frame), without the error it may have had:
   `PublishedIsOfThisStart` in `MCPayloadAssembler`, as in `payloads` with `Faults = {}`, and
   `FrameWhole` in `MCFrameHandoff`, as in `handoff`.
8. `uvc_free_devh` frees the status transfer while its URB is in the kernel or waits to be reaped
   (`device.c:1540`; `libusb/io.c:1348`: "It is not legal to free an active transfer"), and on
   Android the next handle reaps it: `NoFreedReap` in `MCCameraHandle`, as in `camera` with
   `MaxOthers = 0`, `MaxEvents = 0`.
9. The search for a frame stops at the first one that is wider, so a camera that lists its
   frames otherwise offers sizes that are not found (`stream.c:460`, against the comment at
   `stream.c:550`): `OfferedIsFound` in `MCNegotiation`, as in `negotiation` with
   `Cameras <- OneUnsorted`.
10. The functions for the iris use the selectors of the focus (`ctrl.c:511`, `529`, `546`, `566`,
    against the comment at `ctrl.c:43`): `GetIsSet` in `MCVideoControls`, `Byte = 8`,
    `Uses <- IrisFocus`, `Given <- EdgeValues`, `Reported = {}`, `Events = {}`, `MaxSent = 0`,
    `MaxCalls = 3`, `Faults = {}`.
11. `uvc_set_exposure_rel` takes a step as an int, sends one byte of it, and
    `uvc_get_exposure_rel` reads that byte without a sign: a step of -1 comes back as 255
    (`ctrl.c:335`, `324`, against the comment at `ctrl.c:43`): `GetIsSet` as in 10 with
    `Uses <- Exposure`, `Given <- Backwards`.
12. The iso handler skips a payload that has the error bit, and the callback resubmits a transfer
    that timed out or stalled, without an error mark (`stream.c:870`, `998`; `stream.c:1687`: "set
    actual_bytes to zero when erro bits is on"): `UnmarkedIsComplete` in `MCPayloadAssembler`, as
    in `payloads` with `MaxStarts = 1` and `Faults = {"error_bit"}` or `{"retried"}`.
13. The iso handler asserts that data fits (`stream.c:936`), where the bulk handler tests it. When
    a whole frame is lost the next one has the id of the last, and without EOF it is appended to
    it: `AssertionHolds` in the same module, `MaxStarts = 1`, `Faults = {"status"}`.
14. A packet with an error status marks the frame in the buffer. When it is the first of the next
    frame and the one before still waits for its end, the mark goes to the wrong frame
    (`stream.c:832`): `UnmarkedIsWhole` with the constants of 13.
15. A reset that fails leaves `claimed_interfaces` as it was (`android_usbfs.c:1847`), and a later
    `libusb_claim_interface` "just returns 0" (`libusb/core.c:1579`) for an interface that was
    released: `ClaimedIsClaimed` in `MCCameraHandle`, `MaxOpens = 1`, `MaxOthers = 0`,
    `MaxEvents = 0`. A reset that succeeds may not get an interface back; it clears the claim and
    answers NOT_FOUND, as documented, while the stream of libuvc stays open on it (`lost`).
16. The release at `uvc_close` kills the status transfer, its callback submits it again, the
    kernel claims the interface for it, and the driver does not come back (`device.c:1782`, against
    `libusb/core.c:1973`): `DriverAlwaysBack` with the constants of 15.
17. `stream.c:286` says that a stream may be reconfigured "whether or not the stream is running";
    `uvc_stream_ctrl` answers BUSY while it runs (`stream.c:299`, with a todo). `MayConfigure` in
    `Negotiation` is what the code does, and `RunningFits` rests on it.

## 7. Not modelled, and the plan

Nothing to check: `frame.c`, `diag.c`, `misc.c` (loops over pixels and printing that keep no
state), error texts, build files, list macros, the user interface and Android's dialogue for the
permission. A model of a pixel loop would be the loop.

Left out of modelled parts: the generic `uvc_get_ctrl` and `uvc_set_ctrl` of extension units and
the request error codes; answers of zero bytes to a control request (`ctrl.c:177`); string, BOS
and capability descriptors; timerfd, the external poll API, and errors of `poll()`; the error path
of a synchronous transfer that cancels and polls on; changing the configuration, bulk streams and
clearing a halt, which libuvc does not use or which change no state of the library; freed memory
that is read (`init.c:190`); a discard that fails (`android_usbfs.c:2100`). The hazards in
`PROJECT.json` say which of these are exposed.

What is left, in order:

1. `PayloadAssembler` and `FrameHandoff` composed, with the writer of the second refined by the
   handlers of the first.
2. The application's session: `startUVC`, `stopUVC` and the loss of the permission over
   `StreamService` and `CameraHandle`.
