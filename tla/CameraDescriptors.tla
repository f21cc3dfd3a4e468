------------------------- MODULE CameraDescriptors -------------------------
(***************************************************************************)
(* From the bytes the kernel read from a camera to what uvc_open knows of  *)
(* it: op_get_config_descriptor finds the first configuration,             *)
(* libusb/descriptor.c makes a tree of interfaces, alternate settings and  *)
(* endpoints of it, and libuvc/device.c looks in the class-specific blocks *)
(* of that tree for units, streams, formats and frame sizes.               *)
(*                                                                         *)
(* The bytes are a sequence of descriptors, and a place is an index into   *)
(* it.  A buffer may end within a descriptor: "byte" when one byte of it   *)
(* is there, "header" when its length can be read, and is too long.  The   *)
(* loops that skip descriptors libusb does not know are the operator Skip. *)
(***************************************************************************)
EXTENDS Integers, Sequences, FiniteSets, FiniteSetsExt, SequencesExt

CONSTANTS Blobs,            \* what cameras and kernels may give: see BlobAssumption
          USB_MAXINTERFACES,
          USB_MAXENDPOINTS

Pieces == {"none", "byte", "header"}
\* "low": a descriptor whose length is less than its own header.
Types  == {"device", "config", "interface", "endpoint", "association", "unknown", "low"}

\* bDescriptorSubtype (libuvc_internal.h): 1 is UVC_VC_HEADER in the control interface and
\* UVC_VS_INPUT_HEADER in a streaming one, and so on.
Units == {2, 5, 6}      \* UVC_VC_INPUT_TERMINAL, _PROCESSING_UNIT, _EXTENSION_UNIT
Ignored == {3, 4}       \* UVC_VC_OUTPUT_TERMINAL, _SELECTOR_UNIT
Formats == {4, 6, 16}   \* UVC_VS_FORMAT_UNCOMPRESSED, _MJPEG, _FRAME_BASED
FrameSizes == {5, 7, 17} \* UVC_VS_FRAME_UNCOMPRESSED, _MJPEG, _FRAME_BASED

\* The fields of a descriptor that the parsers read.  The total of a configuration counts itself.
DescriptorOK(d) ==
    /\ d.type \in Types
    /\ d.type = "config" => d.count \in Nat /\ d.total \in Nat \ {0} /\ d.piece \in Pieces
    /\ d.type = "interface" => d.number \in Nat /\ d.endpoints \in Nat
    /\ d.type = "unknown" => /\ d.subtype \in Nat /\ d.version \in BOOLEAN
                             /\ d.subtype = 1 /\ d.version => d.streaming \in Seq(Nat)

ASSUME BlobAssumption ==
    /\ USB_MAXINTERFACES \in Nat /\ USB_MAXENDPOINTS \in Nat
    /\ \A b \in Blobs : /\ b.sysfs \in BOOLEAN /\ b.tail \in Pieces /\ Len(b.descs) \in Nat
                        /\ \A p \in 1..Len(b.descs) : DescriptorOK(b.descs[p])

VARIABLES
    blob,     \* [descs, tail, sysfs]
    window,   \* [last, piece]: the end of the buffer that libusb parses
    pc,       \* what the thread of uvc_open is at
    pos,      \* buffer: the place of the next descriptor
    header,   \* the type in `header', which is read again after the last descriptor
    parsed,   \* parsed_if
    config,   \* libusb_config_descriptor: [count, interfaces, extra]
    info,     \* uvc_device_info: [control, units, streams]
    todo,     \* blocks to parse: [control, queue, stream]
    heap      \* allocated memory

vars == <<blob, window, pc, pos, header, parsed, config, info, todo, heap>>

Desc(p) == blob.descs[p]
Places  == 1..Len(blob.descs)
PlacesOf(type) == {p \in Places : Desc(p).type = type}
LastPlace == Len(blob.descs)

Init == /\ blob \in Blobs
        /\ window = [last |-> 0, piece |-> "none"]
        /\ pc = "start" /\ pos = 0 /\ parsed = 0 /\ header \in {"interface", "association"}
        /\ config = [count |-> 0, interfaces |-> [i \in {} |-> <<>>], extra |-> {}]
        /\ info = [control |-> 0, units |-> {}, streams |-> <<>>]
        /\ todo = [control |-> {}, queue |-> <<>>, stream |-> {}]
        /\ heap = {}

-----------------------------------------------------------------------------
\* Memory: what clear_configuration finds, and with it what uvc_free_device_info frees.
Allocated(kind, n) == <<kind, n>>
InConfig(c) ==
    {Allocated("interfaces", 0), Allocated("config_extra", 0), Allocated("associations", 0)}
    \union UNION {{Allocated("altsettings", i)} \union
                  UNION {{Allocated("extra", a.at), Allocated("endpoints", a.at)} \union
                         {Allocated("extra", e.at) : e \in ToSet(a.endpoints)}
                         : a \in ToSet(c.interfaces[i])} : i \in 0..(c.count - 1)}
InInfo(i) == UNION {{Allocated("stream", k), Allocated("controls", i.streams[k].controls)}
                    : k \in DOMAIN i.streams}

\* The end of parse_configuration and of uvc_scan_control when something was wrong.
Fail(result) == /\ pc' = result
                /\ heap' = heap \ (InConfig(config) \union InInfo(info))

-----------------------------------------------------------------------------
(***************************************************************************)
(* op_get_config_descriptor for index 0, called by                         *)
(* libusb_get_config_descriptor with a buffer of wTotalLength, which is    *)
(* `total' descriptors and a piece of the next one here.                   *)
(***************************************************************************)
First == Min(PlacesOf("config"))
NextConfigs == {p \in PlacesOf("config") : p > First}
\* seek_to_next_config: with sysfs the length is the way to the next configuration.
Extent == IF blob.sysfs /\ NextConfigs # {} THEN Min(NextConfigs) - 1 ELSE LastPlace
Overflows == blob.sysfs /\ NextConfigs = {} /\ blob.tail # "none"
TotalEnd == First + Desc(First).total - 1

Window == [last  |-> Min({TotalEnd, Extent}),
           piece |-> IF TotalEnd < Extent THEN Desc(First).piece
                     ELSE IF Extent = LastPlace THEN blob.tail ELSE "none"]

NoConfig == /\ pc = "start"
            /\ PlacesOf("config") # {} => Overflows \/ Desc(First).count > USB_MAXINTERFACES
            /\ pc' = "io_error"
            /\ UNCHANGED <<blob, window, pos, header, parsed, config, info, todo, heap>>

\* parse_configuration up to its loop: an array of bNumInterfaces zeroed interfaces.
GetConfig ==
    /\ pc = "start" /\ PlacesOf("config") # {} /\ ~Overflows
    /\ Desc(First).count <= USB_MAXINTERFACES
    /\ window' = Window
    /\ pos' = First + 1
    /\ config' = [count |-> Desc(First).count, extra |-> {},
                  interfaces |-> [i \in 0..(Desc(First).count - 1) |-> <<>>]]
    /\ heap' = {Allocated("interfaces", 0)}
    /\ pc' = "configuration"
    /\ UNCHANGED <<blob, header, parsed, info, todo>>

-----------------------------------------------------------------------------
\* What the next descriptor is: "over" when it is longer than the rest, "none" when fewer
\* bytes than a header are left.
Kind(p) == IF p <= window.last THEN Desc(p).type
           ELSE IF window.piece = "header" THEN "over" ELSE "none"
More == pos <= window.last \/ window.piece # "none"
Skip(p) == IF p > window.last THEN p ELSE Min({q \in p..(window.last + 1) : Kind(q) # "unknown"})
Skipped(p) == p..(Skip(p) - 1)
\* At least INTERFACE_DESC_LENGTH bytes: only an endpoint alone is shorter.
NineBytes(p) == \/ p < window.last
                \/ p = window.last /\ (Desc(p).type # "endpoint" \/ window.piece = "header")

Loops == pc = "configuration" /\ parsed < config.count /\ More

ParsingDone == /\ pc = "configuration" /\ ~(parsed < config.count /\ More)
               /\ pc' = "parsed"
               /\ UNCHANGED <<blob, window, pos, header, parsed, config, info, todo, heap>>

\* A length that cannot be: the configuration is given up.
BadLength == /\ Loops /\ Kind(Skip(pos)) = "low"
             /\ Fail("io_error")
             /\ UNCHANGED <<blob, window, pos, header, parsed, config, info, todo>>

\* The buffer ends within a descriptor: what is parsed until here is kept.
ShortConfiguration ==
    /\ Loops /\ Kind(Skip(pos)) = "over"
    /\ config' = [config EXCEPT !.count = parsed]
    /\ pc' = "parsed"
    /\ UNCHANGED <<blob, window, pos, header, parsed, info, todo, heap>>

\* `header' after the loop that skips: with nothing left to read it is what it was before.
Header == IF Kind(Skip(pos)) # "none" THEN Kind(Skip(pos))
          ELSE IF Skipped(pos) # {} THEN "unknown" ELSE header
SavesExtra(c) == [c EXCEPT !.extra = @ \union Skipped(pos)]
ExtraHeap == IF Skipped(pos) = {} THEN {} ELSE {Allocated("config_extra", 0)}

\* parse_association, without a descriptor, before a bad length, or as it should be.
AfterAssociationVariant == parsed + 1  \* the loop counts every descriptor
AfterAssociation == parsed

ParseAssociation ==
    LET q == Skip(pos)
        n == Skip(q + 1)
    IN  /\ Loops /\ Kind(q) \notin {"low", "over"} /\ Header = "association"
        /\ header' = Header
        /\ \/ /\ Kind(q) = "none" \/ Kind(n) = "low"
              /\ Fail("io_error")
              /\ UNCHANGED <<pos, config>>
           \/ /\ Kind(q) = "association" /\ Kind(n) # "low"
              /\ pos' = n
              /\ config' = LET c == SavesExtra(config)
                           IN  IF Kind(n) = "over" THEN c
                               ELSE [c EXCEPT !.extra = @ \union ((q + 1)..(n - 1))]
              /\ heap' = heap \union ExtraHeap \union {Allocated("associations", 0)} \union
                         (IF config'.extra = {} THEN {} ELSE {Allocated("config_extra", 0)})
              /\ pc' = pc
        /\ parsed' = IF pc' = pc THEN AfterAssociation ELSE parsed
        /\ UNCHANGED <<blob, window, info, todo>>

\* parse_interface finds something else, or nothing: its array of settings is allocated when
\* there are bytes enough, and the interface is counted.
CountedVariant == parsed  \* without the interface that failed
Counted == parsed + 1

NoInterface ==
    LET q == Skip(pos)
    IN  /\ Loops /\ Kind(q) \notin {"low", "over", "interface"} /\ Header # "association"
        /\ header' = Header
        /\ config' = [SavesExtra(config) EXCEPT !.count = Counted]
        /\ heap' = heap \union ExtraHeap \union
                   (IF NineBytes(q) THEN {Allocated("altsettings", parsed)} ELSE {})
        /\ pos' = q /\ parsed' = parsed + 1
        /\ pc' = "parsed"
        /\ UNCHANGED <<blob, window, info, todo>>

-----------------------------------------------------------------------------
\* parse_interface: the setting at place p, up to its endpoints.

AddSetting(c, p) ==
    LET a == [at |-> p, extra |-> IF Kind(Skip(p + 1)) = "over" THEN {} ELSE Skipped(p + 1),
              bNumEndpoints |-> Desc(p).endpoints,
              allocated |-> Kind(Skip(p + 1)) # "over" /\ Desc(p).endpoints > 0,
              endpoints |-> <<>>]
    IN  [c EXCEPT !.interfaces[parsed] = Append(@, a)]

ParseSetting(c, p) ==
    LET n == Skip(p + 1)
        bad == Desc(p).endpoints > USB_MAXENDPOINTS \/ Kind(n) = "low"
        added == AddSetting(c, p)
    IN  /\ pos' = n
        /\ config' = added
        /\ \/ /\ bad
              /\ Fail("io_error")
           \/ /\ ~bad /\ Kind(n) = "over"  \* its extra blocks and its endpoints are given up
              /\ heap' = heap \union {Allocated("altsettings", parsed)}
              /\ pc' = "interface_done"
           \/ /\ ~bad /\ Kind(n) # "over"
              /\ heap' = heap \union {Allocated("altsettings", parsed)} \union
                         (IF n = p + 1 THEN {} ELSE {Allocated("extra", p)}) \union
                         (IF Desc(p).endpoints = 0 THEN {} ELSE {Allocated("endpoints", p)})
              /\ pc' = "endpoints"

ParseInterface ==
    /\ Loops /\ Kind(Skip(pos)) = "interface"
    /\ header' = "interface"
    /\ ParseSetting(SavesExtra(config), Skip(pos))
    /\ UNCHANGED <<blob, window, parsed, info, todo>>

Setting == LET as == config.interfaces[parsed] IN as[Len(as)]
SetSetting(a) == LET as == config.interfaces[parsed]
                 IN  [config EXCEPT !.interfaces[parsed] = [as EXCEPT ![Len(as)] = a]]
Wanted == pc = "endpoints" /\ Len(Setting.endpoints) < Setting.bNumEndpoints

\* parse_endpoint: with fewer bytes than a header left it is an error, with another
\* descriptor it is the end of the endpoints.
ParseEndpoint ==
    /\ Wanted /\ Kind(pos) = "endpoint" /\ Kind(Skip(pos + 1)) # "low"
    /\ LET saved == Kind(Skip(pos + 1)) # "over" /\ Skipped(pos + 1) # {}
           e == [at |-> pos, extra |-> IF saved THEN Skipped(pos + 1) ELSE {}]
       IN  /\ config' = SetSetting([Setting EXCEPT !.endpoints = Append(@, e)])
           /\ heap' = heap \union (IF saved THEN {Allocated("extra", pos)} ELSE {})
    /\ pos' = Skip(pos + 1)
    /\ UNCHANGED <<blob, window, pc, header, parsed, info, todo>>

EndpointFails == /\ Wanted
                 /\ \/ Kind(pos) = "none"
                    \/ Kind(pos) = "endpoint" /\ Kind(Skip(pos + 1)) = "low"
                 /\ Fail("io_error")
                 /\ UNCHANGED <<blob, window, pos, header, parsed, config, info, todo>>

EndpointsMissing ==
    /\ Wanted /\ Kind(pos) \notin {"endpoint", "none"}
    /\ config' = SetSetting([Setting EXCEPT !.bNumEndpoints = Len(Setting.endpoints)])
    /\ UNCHANGED <<blob, window, pc, pos, header, parsed, info, todo, heap>>

\* The next setting of the same interface, or back to parse_configuration.
IsSameVariant(p) == TRUE
IsSame(p) == Desc(p).number = Desc(config.interfaces[parsed][1].at).number
Alternates == Kind(pos) = "interface" /\ IsSame(pos)

ParseAlternate ==
    /\ pc = "endpoints" /\ ~Wanted /\ Alternates
    /\ ParseSetting(config, pos)
    /\ UNCHANGED <<blob, window, header, parsed, info, todo>>

InterfaceDone ==
    /\ \/ pc = "endpoints" /\ ~Wanted /\ ~Alternates
       \/ pc = "interface_done"
    /\ parsed' = parsed + 1
    /\ pc' = "configuration"
    /\ UNCHANGED <<blob, window, pos, header, config, info, todo, heap>>
-----------------------------------------------------------------------------
(***************************************************************************)
(* uvc_get_device_info.  An interface whose settings are a null pointer,   *)
(* endpoints that are one, a streaming interface beyond the array and a    *)
(* frame before any format are read all the same: the program crashes.     *)
(***************************************************************************)
Settings(i) == IF i \in DOMAIN config.interfaces THEN config.interfaces[i] ELSE <<>>
IsNull(i) == Settings(i) = <<>> /\ Allocated("altsettings", i) \notin heap
Controls == {i \in 0..(config.count - 1) :
                 Settings(i) # <<>> /\ Desc(Settings(i)[1].at).class = "control"}
NullBefore(i) == \E n \in 0..(i - 1) : IsNull(n)
NoEndpoint(a) == a.bNumEndpoints > 0 /\ ~a.allocated

Crash == /\ pc' = "crashed"
         /\ UNCHANGED <<blob, window, pos, header, parsed, config, info, todo, heap>>

ScanCrashes ==
    /\ pc = "parsed"
    /\ IF Controls = {} THEN NullBefore(config.count)
       ELSE NullBefore(Min(Controls)) \/ NoEndpoint(Settings(Min(Controls))[1])
    /\ Crash

NoControl == /\ pc = "parsed" /\ Controls = {} /\ ~NullBefore(config.count)
             /\ Fail("refused")
             /\ UNCHANGED <<blob, window, pos, header, parsed, config, info, todo>>

\* uvc_scan_control
ScanControl ==
    /\ pc = "parsed" /\ Controls # {} /\ ~NullBefore(Min(Controls))
    /\ ~NoEndpoint(Settings(Min(Controls))[1])
    /\ info' = [info EXCEPT !.control = Min(Controls)]
    /\ todo' = [todo EXCEPT !.control = Settings(Min(Controls))[1].extra]
    /\ pc' = "control"
    /\ UNCHANGED <<blob, window, pos, header, parsed, config, heap>>

Block == Min(IF pc = "control" THEN todo.control ELSE todo.stream)
NextBlock(subtypes) == pc = "control" /\ todo.control # {} /\ Desc(Block).subtype \in subtypes
KnownVersion(p) == Desc(p).subtype = 1 /\ Desc(p).version  \* bcdUVC is 1.0, 1.0a, 1.1 or 1.5
RestOf(places) == places \ {Min(places)}

\* uvc_parse_vc: terminals and units are kept, selectors and output terminals are not.
ParseUnit ==
    /\ \/ NextBlock(Units) /\ info' = [info EXCEPT !.units = @ \union {Block}]
       \/ NextBlock(Ignored) /\ info' = info
    /\ todo' = [todo EXCEPT !.control = RestOf(@)]
    /\ UNCHANGED <<blob, window, pc, pos, header, parsed, config, heap>>

ParseFails == /\ NextBlock(Nat \ (Units \union Ignored)) /\ ~KnownVersion(Block)
              /\ Fail("refused")
              /\ UNCHANGED <<blob, window, pos, header, parsed, config, info, todo>>

\* uvc_parse_vc_header: the streaming interfaces are scanned before the next block.
ParseHeader ==
    /\ NextBlock({1}) /\ KnownVersion(Block)
    /\ todo' = [todo EXCEPT !.control = RestOf(@), !.queue = Desc(Block).streaming]
    /\ pc' = "streaming"
    /\ UNCHANGED <<blob, window, pos, header, parsed, config, info, heap>>

\* uvc_scan_streaming: some cameras have the blocks behind the endpoint.
StreamBlocksVariant(a) == a.extra
StreamBlocks(a) == IF a.extra = {} /\ a.endpoints # <<>> THEN a.endpoints[1].extra ELSE a.extra

ScanStreaming ==
    /\ pc = "streaming" /\ todo.queue # <<>> /\ Settings(Head(todo.queue)) # <<>>
    /\ LET a == Settings(Head(todo.queue))[1]
       IN  /\ todo' = [todo EXCEPT !.queue = Tail(@), !.stream = StreamBlocks(a)]
           /\ info' = [info EXCEPT !.streams = Append(@, [at |-> a.at, number |-> Desc(a.at).number,
                                                          controls |-> 0, formats |-> <<>>])]
    /\ heap' = heap \union {Allocated("stream", Len(info'.streams))}
    /\ pc' = "blocks"
    /\ UNCHANGED <<blob, window, pos, header, parsed, config>>

NoStreaming == /\ pc = "streaming" /\ todo.queue # <<>> /\ Settings(Head(todo.queue)) = <<>>
               /\ Crash

StreamsScanned == /\ pc = "streaming" /\ todo.queue = <<>>
                  /\ pc' = "control"
                  /\ UNCHANGED <<blob, window, pos, header, parsed, config, info, todo, heap>>

StreamBlock(subtypes) == pc = "blocks" /\ todo.stream # {} /\ Desc(Block).subtype \in subtypes
Stream == info.streams[Len(info.streams)]
SetStream(s) == info' = [info EXCEPT !.streams[Len(info.streams)] = s]

\* uvc_parse_vs_input_header: a second one forgets the bmaControls of the first.
ParseInputHeader == /\ StreamBlock({1})
                    /\ SetStream([Stream EXCEPT !.controls = Block])
                    /\ heap' = heap \union {Allocated("controls", Block)}

ParseFormat == /\ StreamBlock(Formats)
               /\ SetStream([Stream EXCEPT !.formats = Append(@, [at |-> Block, frames |-> <<>>])])
               /\ heap' = heap

\* uvc_parse_vs_frame_uncompressed and _frame: a frame of the last format.
AddFrame(formats, f) == [formats EXCEPT ![Len(formats)].frames = Append(@, f)]
ParseFrame == /\ StreamBlock(FrameSizes) /\ Stream.formats # <<>>
              /\ SetStream([Stream EXCEPT !.formats = AddFrame(@, Block)])
              /\ heap' = heap

ParseOther == StreamBlock(Nat \ ({1} \union Formats \union FrameSizes)) /\ UNCHANGED <<info, heap>>

ParseStreamBlock ==
    /\ ParseInputHeader \/ ParseFormat \/ ParseFrame \/ ParseOther
    /\ todo' = [todo EXCEPT !.stream = RestOf(@)]
    /\ UNCHANGED <<blob, window, pc, pos, header, parsed, config>>

FrameWithoutFormat == StreamBlock(FrameSizes) /\ Stream.formats = <<>> /\ Crash

StreamScanned == /\ pc = "blocks" /\ todo.stream = {}
                 /\ pc' = "streaming"
                 /\ UNCHANGED <<blob, window, pos, header, parsed, config, info, todo, heap>>

ScanDone == /\ pc = "control" /\ todo.control = {}
            /\ pc' = "open"
            /\ UNCHANGED <<blob, window, pos, header, parsed, config, info, todo, heap>>

\* uvc_close: uvc_free_device_info, which ends with clear_configuration.
Close == /\ pc = "open"
         /\ pc' = "closed"
         /\ heap' = heap \ (InConfig(config) \union InInfo(info))
         /\ UNCHANGED <<blob, window, pos, header, parsed, config, info, todo>>

Ended == pc \in {"io_error", "refused", "crashed", "closed"} /\ UNCHANGED vars

ParseConfiguration == \/ NoConfig \/ GetConfig \/ ParsingDone \/ BadLength \/ ShortConfiguration
                      \/ ParseAssociation \/ NoInterface \/ ParseInterface \/ ParseEndpoint
                      \/ EndpointFails \/ EndpointsMissing \/ ParseAlternate \/ InterfaceDone
GetDeviceInfo == \/ ScanCrashes \/ NoControl \/ ScanControl \/ ParseUnit \/ ParseFails
                 \/ ParseHeader \/ ScanStreaming \/ NoStreaming \/ StreamsScanned
                 \/ ParseStreamBlock \/ FrameWithoutFormat \/ StreamScanned \/ ScanDone

Next == ParseConfiguration \/ GetDeviceInfo \/ Close \/ Ended

Spec == Init /\ [][Next]_vars

-----------------------------------------------------------------------------
\* What the bytes say, without a parser.
InWindow == {p \in Places : First < p /\ p <= window.last}
In(type) == {p \in InWindow : Desc(p).type = type}
Interfaces == In("interface")
Numbered(n) == {p \in Interfaces : Desc(p).number = n}
Between(p, q) == {r \in InWindow : p < r /\ r < q}
\* The unknown descriptors that follow the one at p.
Following(p) == {q \in InWindow : p < q /\ \A r \in (p + 1)..q : Desc(r).type = "unknown"}
NextKnown(p, types) == Min({q \in InWindow : q > p /\ Desc(q).type \in types} \union {window.last + 1})
EndpointsOf(p) == {q \in Between(p, NextKnown(p, {"interface", "association"})) : Desc(q).type = "endpoint"}
\* A sequence of places in order, all of these and no others.
AreInOrder(seq, places) ==
    /\ ToSet(seq) = places
    /\ \A j, k \in DOMAIN seq : j < k => seq[j] < seq[k]
Ats(seq) == [k \in DOMAIN seq |-> seq[k].at]

\* A configuration as USB wants it: whole, its interfaces numbered as they come, each setting
\* with the endpoints it announces.
WellFormed ==
    /\ pc # "start" /\ window.last > 0 /\ window.piece = "none" /\ TotalEnd = Extent
    /\ In("low") \union In("device") \union In("config") = {}
    /\ \A p \in Interfaces : Cardinality(EndpointsOf(p)) = Desc(p).endpoints
                             /\ Desc(p).endpoints <= USB_MAXENDPOINTS
    /\ \A p \in In("endpoint") : \E q \in Interfaces : p \in EndpointsOf(q)
    /\ {Desc(p).number : p \in Interfaces} = 0..(Desc(First).count - 1)
    /\ \A p, q \in Interfaces : p < q => Desc(p).number <= Desc(q).number
    /\ \A a \in In("association") : \A p, q \in Interfaces :
           p < a /\ a < q => Desc(p).number # Desc(q).number

\* One as UVC wants it: headers name interfaces that are there, frames follow a format.
Streamed == UNION {ToSet(Desc(p).streaming) : p \in {q \in In("unknown") : KnownVersion(q)}}
FormatsIn(places) == {p \in places : Desc(p).subtype \in Formats}
BlocksOf(n) == LET p == Min(Numbered(n))
               IN  IF Following(p) = {} /\ EndpointsOf(p) # {} THEN Following(Min(EndpointsOf(p)))
                   ELSE Following(p)
VideoClass ==
    /\ Streamed \subseteq 0..(Desc(First).count - 1)
    /\ \A n \in Streamed : \A f \in {p \in BlocksOf(n) : Desc(p).subtype \in FrameSizes} :
           \E g \in FormatsIn(BlocksOf(n)) : g < f

-----------------------------------------------------------------------------
EndpointTypes  == [at : PlacesOf("endpoint"), extra : SUBSET PlacesOf("unknown")]
SettingTypes   == [at : PlacesOf("interface"), extra : SUBSET PlacesOf("unknown"),
                   bNumEndpoints : Nat, allocated : BOOLEAN, endpoints : Seq(EndpointTypes)]
FormatTypes    == [at : Places, frames : Seq(Places)]
StreamTypes    == [at : Places, number : Nat, controls : Nat, formats : Seq(FormatTypes)]
InfoTypes      == [control : Nat, units : SUBSET Places, streams : Seq(StreamTypes)]
TodoTypes      == [control : SUBSET PlacesOf("unknown"), queue : Seq(Nat), stream : SUBSET PlacesOf("unknown")]
AllocatedTypes == {"interfaces", "config_extra", "associations", "altsettings", "extra", "endpoints",
                   "stream", "controls"} \X Nat

TypeOK == /\ window \in [last : 0..LastPlace, piece : Pieces]
          /\ pc \in {"start", "configuration", "endpoints", "interface_done", "parsed", "control",
                     "streaming", "blocks", "open", "closed", "io_error", "refused", "crashed"}
          /\ pos \in 0..(LastPlace + 1) /\ parsed \in 0..USB_MAXINTERFACES
          /\ header \in Types
          /\ config \in [count : 0..USB_MAXINTERFACES, interfaces : {config.interfaces},
                         extra : SUBSET PlacesOf("unknown")]
          /\ \E n \in 0..USB_MAXINTERFACES : config.interfaces \in [0..(n - 1) -> Seq(SettingTypes)]
          /\ info \in InfoTypes /\ todo \in TodoTypes
          /\ heap \subseteq AllocatedTypes

\* Whatever the bytes are, the tree of libusb is a prefix of them: no interface descriptor is
\* passed over, settings of one element have one number, endpoints are those that follow their
\* setting, and saved blocks are all the blocks behind a descriptor or, at the end of a buffer
\* that is too short, none (descriptor.c: parse_interface, parse_endpoint).
TreeIsPrefix ==
    pc = "parsed" =>
        LET trees == {config.interfaces[i] : i \in 0..(config.count - 1)}
            all == UNION {ToSet(t) : t \in trees}
            placed == {a.at : a \in all}
        IN  /\ placed \subseteq Interfaces
            /\ \A p \in placed, q \in Interfaces : q < p => q \in placed
            /\ \A i, j \in 0..(config.count - 1) : i < j =>
                   \A a \in ToSet(config.interfaces[i]), b \in ToSet(config.interfaces[j]) : a.at < b.at
            /\ \A a \in all :
                   /\ a.extra = Following(a.at) \/ (a.extra = {} /\ window.piece = "header")
                   /\ \A b \in all : (\E t \in trees : {a, b} \subseteq ToSet(t)) => Desc(a.at).number = Desc(b.at).number
                   /\ {e.at : e \in ToSet(a.endpoints)} \subseteq EndpointsOf(a.at)
                   /\ \A e \in ToSet(a.endpoints) : e.extra = Following(e.at) \/ (e.extra = {} /\ window.piece = "header")

\* A camera with descriptors as USB wants them loses nothing: libusb keeps every setting and
\* every endpoint, in order, under the number libuvc looks for it (interface[bInterfaceNumber]).
WellFormedIsKept ==
    pc \in {"parsed", "io_error"} /\ WellFormed =>
        /\ pc = "parsed"
        /\ config.count = Desc(First).count
        /\ \A n \in 0..(config.count - 1) :
               /\ AreInOrder(Ats(Settings(n)), Numbered(n))
               /\ \A a \in ToSet(Settings(n)) : AreInOrder(Ats(a.endpoints), EndpointsOf(a.at))

\* The formats of these blocks, and the frames of each, up to the next format.
FormatsKept(fs, blocks) ==
    /\ AreInOrder(Ats(fs), FormatsIn(blocks))
    /\ \A j \in DOMAIN fs :
           AreInOrder(fs[j].frames,
                      {f \in blocks : /\ Desc(f).subtype \in FrameSizes /\ f > fs[j].at
                                      /\ \A g \in FormatsIn(blocks) : g > fs[j].at => f < g})

\* With the blocks as UVC wants them as well, uvc_open does not crash, and knows each format
\* and frame of each streaming interface once, each frame under the format before it.  A camera
\* with a control block that uvc_parse_vc does not know is not opened at all (device.c:1175).
FormatsAreKept ==
    pc \in {"open", "crashed"} /\ WellFormed /\ VideoClass =>
        /\ pc = "open"
        /\ \A k \in DOMAIN info.streams :
               LET s == info.streams[k]
               IN  FormatsKept(s.formats, BlocksOf(s.number))

\* Whatever the bytes were and wherever the parsing was given up, nothing stays allocated once
\* uvc_open has failed or uvc_close is done, but for the bmaControls of a streaming interface
\* that has more than one input header.
NothingLeaks ==
    pc \in {"io_error", "refused", "closed"} =>
        \A m \in heap : m[1] = "controls" /\
            \E k \in DOMAIN info.streams : info.streams[k].controls > m[2]
=============================================================================
