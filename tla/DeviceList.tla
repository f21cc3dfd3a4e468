----------------------------- MODULE DeviceList -----------------------------
(***************************************************************************)
(* The devices a libusb context knows (libusb/core.c, hotplug.c, the end   *)
(* of io.c that reads the hotplug pipe, os/android_usbfs.c and             *)
(* os/android_netlink.c): contexts, device objects and their reference     *)
(* counts, the list usb_devs, arrivals and departures, a hotplug callback, *)
(* and the opening of a device that may have left.                         *)
(*                                                                         *)
(* Two builds share this code.  On Android nobody watches the bus: the     *)
(* devices are those of the first scan and those the application makes     *)
(* from a descriptor that Java opened.  Elsewhere a thread reads the       *)
(* kernel's uevents.  A device's session id is its port, since it is made  *)
(* of bus number and address.  What happens to an open device is the       *)
(* subject of EventLoop and CameraHandle.                                  *)
(***************************************************************************)
EXTENDS Integers, Sequences, FiniteSets, SequencesExt

CONSTANTS Ports,      \* bus number and address
          MaxDevs,    \* bound: device objects
          MaxInits,   \* bound: calls of libusb_init2
          MaxUevents, \* bound: times a camera is plugged, unplugged or changed
          MaxHeld     \* bound: references of the application to a device

ASSUME DeviceListAssumption == /\ MaxDevs \in Nat /\ MaxInits \in Nat
                               /\ MaxUevents \in Nat /\ MaxHeld \in Nat

VARIABLES
    build,        \* "android" or "netlink"
    plugged,      \* ports with a camera
    uevents,      \* the netlink socket: <<"add" or "remove", port>>
    monitor,      \* the thread that reads it runs
    ctx,          \* the context: "none", "listed", "scanning", "scanned", "ready"
    counts,       \* inits, uevents; default_context_refcnt; successful inits not undone
    born, base,   \* number of device objects made so far, and before this context
    refcnt, attached, port, fd,   \* fields of the objects; fd: descriptor from Java
    usb_devs,     \* the list, newest first
    hotplug_pipe, \* messages <<event, device>>; <<"free", 0>> only wakes the reader
    held,         \* references of the application
    handles,      \* number of open handles of a device
    opening,      \* libusb_open in progress: [dev, at]
    cb,           \* a hotplug callback: "none", "armed", "marked" (needs_free)
    registering,  \* libusb_hotplug_register_callback: [at, listing], the devices still to be told
    heard,        \* devices of which the callback heard the arrival last
    refused,      \* ports whose camera could not be initialized
    strays        \* devices with a reference that nobody will drop

objects == <<born, base, refcnt, attached, port, fd, usb_devs, hotplug_pipe>>
users   == <<held, handles, opening>>
calls   == <<cb, registering, heard>>
bus     == <<plugged, uevents, monitor>>
vars    == <<build, bus, ctx, counts, objects, users, calls, refused, strays>>

Devs   == 1..MaxDevs
Live   == {d \in 1..born : refcnt[d] > 0}
Listed == Range(usb_devs)
Idle   == [dev |-> 0, at |-> "idle"]
Unregistering == [at |-> "no", listing |-> <<>>]

Init ==
    /\ build \in {"android", "netlink"}
    /\ plugged \in SUBSET Ports /\ uevents = <<>> /\ monitor = FALSE
    /\ ctx = "none"
    /\ counts = [inits |-> 0, uevents |-> 0, defaults |-> 0, users |-> 0]
    /\ born = 0 /\ base = 0
    /\ refcnt = [d \in Devs |-> 0] /\ attached = {} /\ fd = {}
    /\ port = <<>>
    /\ usb_devs = <<>> /\ hotplug_pipe = <<>>
    /\ held = [d \in Devs |-> 0] /\ handles = [d \in Devs |-> 0] /\ opening = Idle
    /\ cb = "none" /\ registering = Unregistering /\ heard = {}
    /\ refused = {} /\ strays = {}

------------------------------------------------------------------------------
(* Pieces; a ...Variant is the definition after it with a bug a run must notice. *)

\* The list is searched from its front.
Known(p)      == \E d \in Listed : port[d] = p
FoundAt(i, p) == port[usb_devs[i]] = p /\ \A j \in 1..(i - 1) : port[usb_devs[j]] # p

\* Messages are written only once the pipe is there.
Posted(message) == IF ctx = "ready" THEN Append(hotplug_pipe, message) ELSE hotplug_pipe

\* android_enumerate_device, android_generate_device: usbi_alloc_device, initialization,
\* and usbi_connect_device, or libusb_unref_device if the initialization failed.
NewDevice(p, refs, withFd, ok) ==
    /\ born < MaxDevs
    /\ born' = born + 1 /\ UNCHANGED base
    /\ port' = Append(port, p)
    /\ fd' = IF withFd /\ ok THEN fd \cup {born'} ELSE fd
    /\ refcnt' = [refcnt EXCEPT ![born'] = IF ok THEN refs ELSE 0]
    /\ attached' = IF ok THEN attached \cup {born'} ELSE attached
    /\ usb_devs' = IF ok THEN <<born'>> \o usb_devs ELSE usb_devs
    /\ hotplug_pipe' = IF ok THEN Posted(<<"arrived", born'>>) ELSE hotplug_pipe

Enumerate(p, ok) ==
    /\ IF Known(p)
       THEN UNCHANGED objects
       ELSE NewDevice(p, 1, FALSE, ok)
    /\ refused' = IF Known(p) \/ ok THEN refused \ {p} ELSE refused \cup {p}

\* usbi_disconnect_device, of the device at place i of the list.  The reference of the list goes
\* to the message; without a pipe it is lost.
Disconnect(i, d) ==
    /\ attached' = attached \ {d}
    /\ usb_devs' = RemoveAt(usb_devs, i)
    /\ hotplug_pipe' = Posted(<<"left", d>>)
    /\ strays' = IF ctx = "ready" THEN strays ELSE strays \cup {d}
    /\ UNCHANGED <<born, base, port, fd>>

\* android_device_disconnected: the device that is found under the session id.
Disconnected(p) ==
    IF Known(p) THEN \E i \in DOMAIN usb_devs : FoundAt(i, p) /\ Disconnect(i, usb_devs[i])
                ELSE UNCHANGED <<attached, usb_devs, hotplug_pipe, strays, born, base, port, fd>>

------------------------------------------------------------------------------
(* The bus, and the thread that watches it *)

Bus(kind, p) ==
    /\ counts.uevents < MaxUevents
    /\ counts' = [counts EXCEPT !.uevents = @ + 1]
    /\ uevents' = IF monitor THEN Append(uevents, <<kind, p>>) ELSE uevents
    /\ UNCHANGED <<build, monitor, ctx, objects, users, calls, refused, strays>>

Plug(p)   == p \notin plugged /\ Bus("add", p) /\ plugged' = plugged \cup {p}
Unplug(p) == p \in plugged /\ Bus("remove", p) /\ plugged' = plugged \ {p}
Change(p) == p \in plugged /\ Bus("add", p) /\ UNCHANGED plugged

\* android_netlink_read_message, by the thread or by android_netlink_hotplug_poll.
ReadUevent(ok) ==
    /\ uevents # <<>> /\ ctx # "scanning"
    /\ uevents' = Tail(uevents)
    /\ LET p == Head(uevents)[2]
       IN  \/ /\ Head(uevents)[1] = "add"
              /\ Enumerate(p, ok) /\ UNCHANGED strays
           \/ /\ Head(uevents)[1] = "remove" /\ ok
              /\ Disconnected(p) /\ UNCHANGED <<refused, refcnt>>
    /\ UNCHANGED <<build, plugged, monitor, ctx, counts, users, calls>>

------------------------------------------------------------------------------
(* libusb_init2 and libusb_exit *)

\* Another user of the default context.
SharedVariant(n) == n
Shared(n)        == n + 1

InitReuse ==
    /\ ctx = "ready" /\ counts.inits < MaxInits
    /\ counts' = [counts EXCEPT !.inits = @ + 1, !.users = @ + 1,
                                !.defaults = Shared(@)]
    /\ UNCHANGED <<build, bus, ctx, objects, users, calls, refused, strays>>

\* A new context becomes the default one and enters active_contexts_list.
InitBegin ==
    /\ ctx = "none" /\ opening = Idle /\ counts.inits < MaxInits
    /\ counts' = [counts EXCEPT !.inits = @ + 1, !.defaults = @ + 1]
    /\ ctx' = "listed" /\ base' = born
    /\ UNCHANGED <<build, bus, born, refcnt, attached, port, fd, usb_devs, hotplug_pipe, users, calls, refused, strays>>

\* op_init2 starts the monitor.  That it fails to start is not noticed; the netlink build is
\* then like the other, without GetWithFd.
StartMonitor ==
    /\ ctx = "listed" /\ ~monitor /\ build = "netlink"
    /\ monitor' = TRUE
    /\ UNCHANGED <<build, plugged, uevents, ctx, counts, objects, users, calls, refused, strays>>

\* android_scan_devices, under android_hotplug_lock: the bus may change meanwhile, but nobody
\* else enumerates.
ScanBegins ==
    /\ ctx = "listed" /\ monitor = (build = "netlink")
    /\ ctx' = "scanning"
    /\ UNCHANGED <<build, bus, counts, objects, users, calls, refused, strays>>

ScanOne(p, ok) ==
    /\ ctx = "scanning" /\ p \in plugged /\ ~Known(p) /\ p \notin refused
    /\ Enumerate(p, ok)
    /\ UNCHANGED <<build, bus, ctx, counts, users, calls, strays>>

ScanEnds ==
    /\ ctx = "scanning"
    /\ \A p \in plugged : Known(p) \/ p \in refused \/ <<"add", p>> \in Range(uevents)
    /\ ctx' = "scanned"
    /\ UNCHANGED <<build, bus, counts, objects, users, calls, refused, strays>>

\* usbi_io_init makes the pipes.
InitDone ==
    /\ ctx = "scanned"
    /\ ctx' = "ready"
    /\ counts' = [counts EXCEPT !.users = @ + 1]
    /\ UNCHANGED <<build, bus, objects, users, calls, refused, strays>>

\* The context ends: the list drops its references, and so do the messages in the pipe if
\* they are read, which takes place only while no device is open.
LeftMessages(d) == Cardinality({i \in 1..Len(hotplug_pipe) : hotplug_pipe[i] = <<"left", d>>})

ReadsPipeVariant == FALSE
ReadsPipe        == \A d \in Devs : handles[d] = 0

\* android_netlink_stop_event_monitor, the last thing of usbi_backend->exit.
StopMonitor == monitor' = FALSE /\ uevents' = <<>>

EndContext(drained) ==
    /\ ctx' = "none" /\ refused' = {}
    /\ StopMonitor
    /\ refcnt' = [d \in Devs |-> refcnt[d] - (IF d \in Listed THEN 1 ELSE 0)
                                           - (IF drained THEN LeftMessages(d) ELSE 0)]
    /\ usb_devs' = <<>> /\ hotplug_pipe' = <<>>
    /\ cb' = "none" /\ heard' = {}
    /\ UNCHANGED <<build, plugged, born, base, attached, port, fd, held, opening, registering>>

\* The scan or usbi_io_init fails.  default_context_refcnt keeps its value.
InitFails ==
    /\ ctx \in {"scanning", "scanned"}
    /\ EndContext(TRUE)
    /\ UNCHANGED <<counts, handles, strays>>

\* A user of the context ends.
Exit ==
    /\ ctx = "ready" /\ counts.users > 0 /\ opening = Idle /\ registering = Unregistering
    /\ counts' = [counts EXCEPT !.users = @ - 1, !.defaults = @ - 1]
    /\ IF counts.defaults - 1 > 0
       THEN UNCHANGED <<build, bus, ctx, objects, users, calls, refused, strays>>
       ELSE /\ EndContext(ReadsPipe)
            /\ handles' = [d \in Devs |-> 0]
            /\ strays' = IF \A d \in Devs : handles[d] = 0 THEN strays
                         ELSE strays \cup {d \in Devs : handles[d] + LeftMessages(d) > 0}

------------------------------------------------------------------------------
(* The application, on one thread *)

AppIdle == opening = Idle /\ registering = Unregistering

\* libusb_get_device_with_fd makes an object of its own for a descriptor, whatever is listed;
\* uvc_get_device_with_fd references it.
GetWithFd(p, ok) ==
    /\ AppIdle /\ build = "android" /\ ctx = "ready"
    /\ NewDevice(p, 2, TRUE, ok)
    /\ held' = IF ok THEN [held EXCEPT ![born'] = 1] ELSE held
    /\ UNCHANGED <<build, bus, ctx, counts, handles, opening, calls, refused, strays>>

Keeps(d, n, m) ==
    /\ refcnt' = [refcnt EXCEPT ![d] = @ + n]
    /\ held' = [held EXCEPT ![d] = @ + m]
    /\ UNCHANGED <<build, bus, ctx, counts, born, base, attached, port, fd, usb_devs, hotplug_pipe,
                   handles, calls, refused>>

\* libusb_get_device_list makes ReadUevent happen (op_hotplug_poll), references what is listed
\* for discovered_devs and again for the caller, and drops the former.  uvc_get_device_list
\* wraps each camera of it in a reference of its own and drops the list.
TakeList ==
    /\ AppIdle /\ ctx = "ready" /\ Listed # {} /\ \A d \in Listed : held[d] < MaxHeld
    /\ refcnt' = [d \in Devs |-> refcnt[d] + (IF d \in Listed THEN 1 ELSE 0)]
    /\ held' = [d \in Devs |-> held[d] + (IF d \in Listed THEN 1 ELSE 0)]
    /\ UNCHANGED <<build, bus, ctx, counts, born, base, attached, port, fd, usb_devs, hotplug_pipe,
                   handles, opening, calls, refused, strays>>

\* uvc_find_device: takes the list, references the one that fits, drops the list.
FindDevice(d) ==
    /\ AppIdle /\ ctx = "ready" /\ d \in Listed /\ held[d] < MaxHeld
    /\ Keeps(d, 1, 1) /\ UNCHANGED <<opening, strays>>

\* uvc_find_device2, of a listed device with a descriptor from Java: the reference of
\* libusb_find_device is never dropped.
FindDevice2(d) ==
    /\ AppIdle /\ build = "android" /\ ctx = "ready" /\ d \in Listed \ strays /\ held[d] < MaxHeld
    /\ refcnt' = [refcnt EXCEPT ![d] = @ + 2]
    /\ held' = [held EXCEPT ![d] = @ + 1]
    /\ fd' = fd \cup {d}
    /\ strays' = strays \cup {d}
    /\ UNCHANGED <<build, bus, ctx, counts, born, base, attached, port, usb_devs, hotplug_pipe,
                   handles, opening, calls, refused>>

\* uvc_unref_device, of a device by itself or of each of a list.
UnrefDevice(d) ==
    /\ AppIdle /\ held[d] > 0
    /\ Keeps(d, -1, -1) /\ UNCHANGED <<opening, strays>>

\* libusb_open until op_open, of a device of this context: who is not attached is refused.
HandleRefVariant == 0
HandleRef        == 1

Open(d) ==
    /\ AppIdle /\ ctx = "ready"
    /\ d > base /\ held[d] > 0 /\ handles[d] = 0 /\ d \in attached
    /\ Keeps(d, HandleRef, 0)
    /\ opening' = [dev |-> d, at |-> "path"]
    /\ UNCHANGED strays

\* _get_usbfs_fd: the descriptor from Java, or the file of whatever is at the port.
Opened ==
    /\ opening.at = "path"
    /\ opening.dev \in fd \/ port[opening.dev] \in plugged
    /\ handles' = [handles EXCEPT ![opening.dev] = @ + 1] /\ opening' = Idle
    /\ UNCHANGED <<build, bus, ctx, counts, objects, held, calls, refused, strays>>

\* No rights for the file.
OpenRefused ==
    /\ opening.at = "path" /\ opening.dev \notin fd /\ port[opening.dev] \in plugged
    /\ Keeps(opening.dev, -1, 0) /\ opening' = Idle /\ UNCHANGED strays

NoSuchFile ==
    /\ opening.at = "path"
    /\ opening.dev \notin fd /\ port[opening.dev] \notin plugged
    /\ opening' = [opening EXCEPT !.at = "gone"]
    /\ UNCHANGED <<build, bus, ctx, counts, objects, held, handles, calls, refused, strays>>

\* op_open under android_hotplug_lock: the monitor may have been faster.
StillAttachedVariant(d) == TRUE
StillAttached(d)        == d \in attached

OpenGone ==
    /\ opening.at = "gone"
    /\ IF StillAttached(opening.dev)
       THEN Disconnected(port[opening.dev])
       ELSE UNCHANGED <<attached, usb_devs, hotplug_pipe, strays, born, base, port, fd>>
    /\ refcnt' = [refcnt EXCEPT ![opening.dev] = @ - 1]
    /\ opening' = Idle
    /\ UNCHANGED <<build, bus, ctx, counts, held, handles, calls, refused>>

\* The end of do_close.
Close(d) ==
    /\ AppIdle /\ ctx = "ready" /\ handles[d] > 0
    /\ handles' = [handles EXCEPT ![d] = @ - 1]
    /\ refcnt' = [refcnt EXCEPT ![d] = @ - 1]
    /\ UNCHANGED <<build, bus, ctx, counts, born, base, attached, port, fd, usb_devs, hotplug_pipe,
                   held, opening, calls, refused, strays>>

------------------------------------------------------------------------------
(* A hotplug callback that wants every event, with LIBUSB_HOTPLUG_ENUMERATE *)

\* libusb_hotplug_register_callback: the callback enters the list before the devices are
\* listed.
ArmedFirstVariant == FALSE
ArmedFirst        == TRUE

Register ==
    /\ AppIdle /\ ctx = "ready" /\ cb = "none"
    /\ cb' = IF ArmedFirst THEN "armed" ELSE "none"
    /\ heard' = {}
    /\ registering' = [at |-> "added", listing |-> <<>>]
    /\ UNCHANGED <<build, bus, ctx, counts, objects, users, refused, strays>>

ListForCallback ==
    /\ registering.at = "added"
    /\ registering' = [at |-> "listed", listing |-> usb_devs]
    /\ refcnt' = [d \in Devs |-> refcnt[d] + (IF d \in Listed THEN 1 ELSE 0)]
    /\ UNCHANGED <<build, bus, ctx, counts, born, base, attached, port, fd, usb_devs, hotplug_pipe,
                   users, cb, heard, refused, strays>>

TellListed ==
    /\ registering.at = "listed" /\ registering.listing # <<>>
    /\ heard' = heard \cup {Head(registering.listing)}
    /\ registering' = [registering EXCEPT !.listing = Tail(@)]
    /\ refcnt' = [refcnt EXCEPT ![Head(registering.listing)] = @ - 1]
    /\ UNCHANGED <<build, bus, ctx, counts, born, base, attached, port, fd, usb_devs, hotplug_pipe,
                   users, cb, refused, strays>>

Registered ==
    /\ registering.at = "listed" /\ registering.listing = <<>>
    /\ registering' = Unregistering
    /\ cb' = "armed"
    /\ UNCHANGED <<build, bus, ctx, counts, objects, users, heard, refused, strays>>

\* libusb_hotplug_deregister_callback marks it and wakes the event thread.
Deregister ==
    /\ AppIdle /\ ctx = "ready" /\ cb = "armed"
    /\ cb' = "marked"
    /\ hotplug_pipe' = Posted(<<"free", 0>>)
    /\ UNCHANGED <<build, bus, ctx, counts, born, base, refcnt, attached, port, fd, usb_devs, users,
                   registering, heard, refused, strays>>

\* handle_events reads one message; usbi_hotplug_match calls the callback, frees it if it was
\* marked or is done, and a device that left loses the reference of the list.
HandleMessage(done) ==
    /\ ctx = "ready" /\ hotplug_pipe # <<>>
    /\ done => cb = "armed" /\ registering = Unregistering
    /\ hotplug_pipe' = Tail(hotplug_pipe)
    /\ LET event == Head(hotplug_pipe)[1]
           d     == Head(hotplug_pipe)[2]
       IN  /\ done => event # "free"
           /\ cb' = IF cb = "marked" \/ done THEN "none" ELSE cb
           /\ heard' = CASE cb = "armed" /\ event = "arrived" -> heard \cup {d}
                         [] cb = "armed" /\ event = "left"    -> heard \ {d}
                         [] OTHER                             -> heard
           /\ refcnt' = IF event = "left" THEN [refcnt EXCEPT ![d] = @ - 1] ELSE refcnt
    /\ UNCHANGED <<build, bus, ctx, counts, born, base, attached, port, fd, usb_devs, users,
                   registering, refused, strays>>

------------------------------------------------------------------------------
BusStep ==
    \/ \E p \in Ports : Plug(p) \/ Unplug(p) \/ Change(p)
    \/ \E ok \in BOOLEAN : ReadUevent(ok)

ContextStep ==
    \/ InitReuse \/ InitBegin \/ StartMonitor \/ ScanBegins
    \/ \E p \in Ports, ok \in BOOLEAN : ScanOne(p, ok)
    \/ ScanEnds \/ InitDone \/ InitFails \/ Exit

AppStep ==
    \/ \E p \in Ports, ok \in BOOLEAN : GetWithFd(p, ok)
    \/ \E d \in 1..born : FindDevice(d) \/ FindDevice2(d) \/ UnrefDevice(d) \/ Open(d) \/ Close(d)
    \/ TakeList
    \/ Opened \/ OpenRefused \/ NoSuchFile \/ OpenGone
    \/ Register \/ ListForCallback \/ TellListed \/ Registered \/ Deregister

Next == BusStep \/ ContextStep \/ AppStep \/ \E done \in BOOLEAN : HandleMessage(done)

Spec == Init /\ [][Next]_vars

------------------------------------------------------------------------------
(* Properties *)

TypeOK ==
    /\ build \in {"android", "netlink"} /\ plugged \subseteq Ports /\ monitor \in BOOLEAN
    /\ uevents \in Seq({"add", "remove"} \X Ports)
    /\ ctx \in {"none", "listed", "scanning", "scanned", "ready"}
    /\ counts \in [inits : 0..MaxInits, uevents : 0..MaxUevents, defaults : 0..MaxInits,
                   users : 0..MaxInits]
    /\ born \in 0..MaxDevs /\ base \in 0..born /\ refcnt \in [Devs -> Nat]
    /\ attached \subseteq Devs /\ fd \subseteq Devs /\ port \in Seq(Ports)
    /\ usb_devs \in Seq(Devs)
    /\ hotplug_pipe \in Seq({"arrived", "left", "free"} \X (0..MaxDevs))
    /\ held \in [Devs -> Nat] /\ handles \in [Devs -> {0, 1}]
    /\ opening \in [dev : 0..MaxDevs, at : {"idle", "path", "gone"}]
    /\ cb \in {"none", "armed", "marked"}
    /\ registering \in [at : {"no", "added", "listed"}, listing : Seq(Devs)]
    /\ heard \subseteq Devs /\ refused \subseteq Ports /\ strays \subseteq Devs

\* Who may still use a device: the list, a departure not read yet, the application, a handle,
\* an opening in progress, a registration in progress.
Owners(d) == Cardinality({i \in 1..Len(usb_devs) : usb_devs[i] = d})
             + LeftMessages(d) + held[d] + handles[d]
             + (IF opening.dev = d THEN 1 ELSE 0)
             + Cardinality({i \in 1..Len(registering.listing) : registering.listing[i] = d})

\* Nobody has a freed device in hand: every owner has a reference, and a message of an arrival,
\* which has none, is read before the device can go.
NothingDangles ==
    /\ \A d \in 1..born : refcnt[d] >= Owners(d)
    /\ \A i \in 1..Len(hotplug_pipe) : hotplug_pipe[i][1] = "arrived" => refcnt[hotplug_pipe[i][2]] > 0

\* When the last user of the context is gone, what is left of the devices is what the
\* application holds or uvc_find_device2 forgot, or what lost its last message: that of a
\* departure before the pipe was made, or behind a device that was left open.
NoLeak == ctx = "none" => \A d \in Live : held[d] > 0 \/ d \in strays

\* Once the monitor has read every uevent, each plugged camera is listed once and nothing else
\* is, however uevents, the first scan and failed openings met.
ListMatchesPlugged ==
    monitor /\ uevents = <<>> /\ ctx \in {"scanned", "ready"} =>
        \A p \in Ports : Cardinality({i \in 1..Len(usb_devs) : port[usb_devs[i]] = p})
                             = IF p \in plugged \ refused THEN 1 ELSE 0

\* Once everything is read, a callback has heard of every device in the list.
NoDeviceMissed ==
    cb = "armed" /\ registering = Unregistering /\ hotplug_pipe = <<>> => Listed \subseteq heard

\* A context is not destroyed under a user of it.
UsersHaveContext == counts.users > 0 => ctx = "ready"
=============================================================================
