-------------------------- MODULE PayloadAssembler --------------------------
(***************************************************************************)
(* How the payloads of a camera become frames (libuvc/stream.c):           *)
(* _uvc_process_payload for bulk streams, _uvc_process_payload_iso for the *)
(* packets of isochronous ones, and the iSight cameras, which send a       *)
(* header alone and then data without headers.                             *)
(*                                                                         *)
(* The camera sends each frame in Parts payloads of one unit of data, with *)
(* a frame id that alternates, and may mark the end of a frame with EOF.   *)
(* A frame buffer is the set of <<frame, part>> it holds; as the camera    *)
(* sends in order, the set says in which order they lie in it.  What       *)
(* readers then do with a finished frame is the subject of FrameHandoff:   *)
(* its Fill, Spoil and SwapBuffers are what the handlers here do.          *)
(***************************************************************************)
EXTENDS Integers, FiniteSets

CONSTANTS MaxFrames,  \* bound: frames the camera sends
          MaxStarts,  \* bound: starts of the stream
          Parts,      \* payloads with data of a frame
          SizeBuf,    \* size_buf, in payloads
          Faults      \* what may happen to a payload, a subset of FaultKinds

\* "status": an iso packet comes with an error status.  "error_bit": its header has
\* UVC_STREAM_ERR.  "bogus": its header claims to be longer than it is.  "short": its header
\* has UVC_STREAM_PTS but no room for it.  "retried": its transfer ended with a status
\* after which the transfer is submitted again but its payload is not looked at.
FaultKinds == {"status", "error_bit", "bogus", "short", "retried"}

ASSUME PayloadAssumption == /\ MaxFrames \in Nat
                            /\ MaxStarts \in Nat
                            /\ Parts \in Nat /\ Parts > 0
                            /\ SizeBuf \in Nat /\ SizeBuf > Parts
                            /\ Faults \subseteq FaultKinds

VARIABLES
    stream,     \* what stays as it is: [iso, isight, eof]
    starts,     \* number of starts of the stream
    base,       \* the first frame the camera sends after the last start
    sent, part, \* the frame the camera is sending, and the next part of it
    asm,        \* fid, got_bytes, outbuf, bfh_err and pts of the stream handle
    published,  \* the frames handed over while the last payload was handled
    overrun,    \* the data of the last payload had no room: "no", "dropped" or "aborted"
    skipped     \* the parts that the code passed over, and knew it, without marking the frame

vars == <<stream, starts, base, sent, part, asm, published, overrun, skipped>>

Frames  == 1..(MaxFrames + 2)
Places  == Frames \X (1..Parts)
Streams == [iso : BOOLEAN, isight : BOOLEAN, eof : {"never", "last", "trailer"}]
Fid(f)  == f % 2

Before(q, r) == q[1] < r[1] \/ (q[1] = r[1] /\ q[2] < r[2])

Init ==
    /\ stream \in Streams
    /\ starts = 1
    /\ sent \in {1, 2} /\ base = sent /\ part = 1
    /\ asm = [fid |-> 0, got |-> 0, image |-> {}, err |-> FALSE, pts |-> 0]
    /\ published = {} /\ overrun = "no" /\ skipped = {}

------------------------------------------------------------------------------
(* Pieces of the two handlers; a ...Variant is the definition after it with a bug a run must
   notice. *)

\* _uvc_swap_buffers: what readers get, and the fields it clears.
Handed(s)         == [image |-> s.image, err |-> s.err, pts |-> s.pts]
SwappedVariant(s) == [s EXCEPT !.image = {}, !.err = FALSE, !.pts = 0]
Swapped(s)        == [s EXCEPT !.got = 0, !.image = {}, !.err = FALSE, !.pts = 0]

\* The frame id differs from that of the data in outbuf: its EOF did not come.
FlipsVariant(s, f) == FALSE
Flips(s, f)        == s.fid # Fid(f) /\ s.got # 0

\* What a header leaves in the handle: a swap, the frame id, the time stamp (0 without room).
Headed(s, f, short) ==
    [(IF Flips(s, f) THEN Swapped(s) ELSE s) EXCEPT
        !.fid = Fid(f), !.pts = IF short THEN 0 ELSE f]

\* Bytes go to outbuf + got_bytes.
Appended(s, q) == [s EXCEPT !.got = @ + 1, !.image = @ \cup {q}]

\* Bulk: data that does not fit is dropped and the frame marked.
Fits(s) == s.got + 1 < SizeBuf
StoredBulk(s, q) == IF Fits(s) THEN Appended(s, q) ELSE [s EXCEPT !.err = TRUE]

MarkedVariant(s) == s
Marked(s)        == [s EXCEPT !.err = TRUE]

\* Where the time stamp of a header comes from relative to the swap it causes.
HandedAtFlipVariant(s, f, short) == Handed([s EXCEPT !.pts = IF short THEN 0 ELSE f])
HandedAtFlip(s, f, short)        == Handed(s)

\* The handler ends in state t, having swapped what `before' was at a flip, and, if `ends',
\* what t is.
Settle(before, f, short, t, ends) ==
    /\ asm' = IF ends THEN Swapped(t) ELSE t
    /\ published' = (IF Flips(before, f) THEN {HandedAtFlip(before, f, short)} ELSE {})
                    \cup (IF ends THEN {Handed(t)} ELSE {})

------------------------------------------------------------------------------
(* The camera *)

\* The payload that comes next has data, or is a header alone; EOF is in the last part, or in
\* a header alone that follows it, or nowhere.
HasEof(data) ==
    \/ data /\ stream.eof = "last" /\ part = Parts
    \/ ~data /\ stream.eof = "trailer" /\ part = Parts + 1

Sends(data) ==
    /\ overrun # "aborted"
    /\ part <= Parts \/ ~data
    /\ part' = IF data THEN part + 1 ELSE part
    /\ UNCHANGED <<stream, starts, base, sent>>

Place == <<sent, part>>

NewFrame ==
    /\ part = Parts + 1 /\ sent < MaxFrames /\ overrun # "aborted"
    /\ sent' = sent + 1 /\ part' = 1
    /\ published' = {} /\ overrun' = "no"
    /\ UNCHANGED <<stream, starts, base, asm, skipped>>

\* The stream is stopped and started again: uvc_stream_start_bandwidth clears fid, pts and
\* bfh_err but neither got_bytes nor outbuf; the camera begins with a new frame.
Restart ==
    /\ starts < MaxStarts /\ sent < MaxFrames /\ overrun # "aborted"
    /\ starts' = starts + 1
    /\ \E f \in {sent + 1, sent + 2} : sent' = f /\ base' = f
    /\ part' = 1
    /\ asm' = [asm EXCEPT !.fid = 0, !.err = FALSE, !.pts = 0]
    /\ published' = {} /\ overrun' = "no"
    /\ UNCHANGED <<stream, skipped>>

------------------------------------------------------------------------------
(* Handling of one payload *)

\* A good payload, or one whose header lacks the room for its time stamp.
BulkPayload(data, short) ==
    /\ ~stream.iso /\ ~stream.isight /\ Sends(data)
    /\ LET h == Headed(asm, sent, short)
           t == IF data THEN StoredBulk(h, Place) ELSE h
       IN  /\ Settle(asm, sent, short, t, data /\ HasEof(data))
           /\ overrun' = IF data /\ ~Fits(h) THEN "dropped" ELSE "no"
    /\ UNCHANGED skipped

\* That the data fits is an assertion here: where it does not hold the program ends.
IsoPayload(data, short) ==
    /\ stream.iso /\ ~stream.isight /\ Sends(data)
    /\ LET h    == Headed(asm, sent, short)
           fits == data => Fits(h)
           t    == IF data /\ fits THEN Appended(h, Place) ELSE h
       IN  /\ Settle(asm, sent, short, t, fits /\ HasEof(data) /\ t.got # 0)
           /\ overrun' = IF fits THEN "no" ELSE "aborted"
    /\ UNCHANGED skipped

\* iSight: a header comes alone; its frame id ends the frame before it.
IsightHeader(short) ==
    /\ stream.isight /\ part = 1 /\ Sends(FALSE)
    /\ Settle(asm, sent, short, Headed(asm, sent, short), FALSE)
    /\ overrun' = "no"
    /\ UNCHANGED skipped

\* iSight: data without a header.  The iso handler reads the EOF bit from the second byte all
\* the same, which here is a byte of the picture.
IsightData ==
    /\ stream.isight /\ part <= Parts /\ Sends(TRUE)
    /\ \/ /\ ~stream.iso
          /\ asm' = StoredBulk(asm, Place) /\ published' = {}
          /\ overrun' = IF Fits(asm) THEN "no" ELSE "dropped"
       \/ /\ stream.iso /\ Fits(asm)
          /\ \E eof \in BOOLEAN :
                LET t == Appended(asm, Place)
                IN  /\ asm' = IF eof THEN Swapped(t) ELSE t
                    /\ published' = IF eof THEN {Handed(t)} ELSE {}
          /\ overrun' = "no"
       \/ /\ stream.iso /\ ~Fits(asm)
          /\ overrun' = "aborted" /\ published' = {}
          /\ UNCHANGED asm
    /\ UNCHANGED skipped

\* An iso packet with an error status: nobody knows what was in it.
BadStatus(data) ==
    /\ "status" \in Faults /\ stream.iso /\ Sends(data)
    /\ asm' = Marked(asm) /\ published' = {} /\ overrun' = "no"
    /\ UNCHANGED skipped

\* A header longer than the packet.  Bulk: noticed first.  Iso: noticed after the frame id and
\* the time stamp were taken from it.
Bogus ==
    /\ "bogus" \in Faults /\ ~stream.isight /\ Sends(part <= Parts)
    /\ \/ /\ ~stream.iso
          /\ asm' = Marked(asm) /\ published' = {}
       \/ /\ stream.iso
          /\ Settle(asm, sent, FALSE, Marked(Headed(asm, sent, FALSE)), FALSE)
    /\ overrun' = "no"
    /\ UNCHANGED skipped

\* The payload is passed over, its frame id and EOF with it, and the frame is not marked.
Skip(data) ==
    /\ Sends(data)
    /\ skipped' = IF data THEN skipped \cup {Place} ELSE skipped
    /\ published' = {} /\ overrun' = "no"
    /\ UNCHANGED asm

\* The error bit of an iso packet.  (A bulk payload is handled as if it were good.)
ErrorBit(data) == "error_bit" \in Faults /\ stream.iso /\ ~stream.isight /\ Skip(data)

\* _uvc_stream_callback submits a transfer with an error status again without a look at what
\* it brought.
Retried(data) == "retried" \in Faults /\ Skip(data)

Next ==
    \/ NewFrame
    \/ Restart
    \/ \E data \in BOOLEAN, short \in {FALSE, "short" \in Faults} :
          BulkPayload(data, short) \/ IsoPayload(data, short)
    \/ \E short \in {FALSE, "short" \in Faults} : IsightHeader(short)
    \/ IsightData
    \/ \E data \in BOOLEAN : BadStatus(data) \/ ErrorBit(data) \/ Retried(data)
    \/ Bogus

Spec == Init /\ [][Next]_vars

------------------------------------------------------------------------------
(* Properties *)

TypeOK ==
    /\ stream \in Streams /\ starts \in 1..(MaxStarts + 1)
    /\ base \in Frames /\ sent \in Frames /\ part \in 1..(Parts + 1)
    /\ asm \in [fid : {0, 1}, got : 0..(SizeBuf - 1), image : SUBSET Places, err : BOOLEAN,
                pts : 0..(MaxFrames + 2)]
    /\ published \subseteq [image : SUBSET Places, err : BOOLEAN, pts : 0..(MaxFrames + 2)]
    /\ overrun \in {"no", "dropped", "aborted"}
    /\ skipped \subseteq Places

\* The data of a payload has no room only where data of an earlier frame is still in the
\* buffer: no camera frame overruns outbuf by itself, whatever was lost, skipped and restarted
\* before it.
OneFrameFits ==
    overrun # "no" => \E h \in published \cup {Handed(asm)} : \E q \in h.image : q[1] # sent

\* assert(strmh->got_bytes + odd_bytes < strmh->size_buf): it fails where frames run together,
\* with any camera (an iSight is left out, to have a trace with headers).
AssertionHolds == ~stream.isight => overrun # "aborted"

OfThisStart(image) == \A q \in image : q[1] >= base

\* A frame without the error mark has every part from its first one to the end of its last
\* camera frame, except those that the code skipped: what a bad or bogus packet, or data
\* without room, takes away from the middle or the end of a frame is marked.
GapsAreMarkedOrSkipped ==
    \A h \in published : ~h.err /\ ~stream.isight /\ OfThisStart(h.image) =>
        \A q, l \in h.image : \A r \in Places :
            Before(q, r) /\ r[1] <= l[1] => r \in h.image \cup skipped

\* Two camera frames are in one unmarked frame only if everything between them was skipped:
\* the frame id tells neighbours apart.
UnmarkedIsOneFrame ==
    \A h \in published : ~h.err /\ ~stream.isight /\ OfThisStart(h.image) =>
        \A q, l \in h.image : q[1] < l[1] => {q[1] + 1} \X (1..Parts) \subseteq skipped

\* The time stamp of an unmarked frame is 0 or that of a camera frame that is in it, or of one
\* of which all data was skipped: it does not come from the header that ended it.
TimeStampFits ==
    \A h \in published : ~h.err /\ ~stream.isight /\ OfThisStart(h.image) =>
        \/ h.pts = 0
        \/ \E q \in h.image : q[1] = h.pts
        \/ {h.pts} \X (1..Parts) \subseteq skipped

\* A frame without the error mark is one camera frame, complete from its first part on, and has
\* its time stamp or none.  "Set actual_bytes to zero when error bits is on" (stream.c:1687)
\* promises it; it holds where no packet comes with the error bit and no transfer is retried.
UnmarkedIsComplete ==
    \A h \in published : ~h.err /\ ~stream.isight /\ OfThisStart(h.image) =>
        \A q \in h.image :
            /\ h.pts \in {0, q[1]}
            /\ \A l \in h.image : q[1] = l[1]
            /\ \A r \in Places : Before(q, r) /\ r[1] = q[1] => r \in h.image

\* It need not be complete from the first part of the camera frame on: when that is lost while
\* the frame before it waits for its end, the mark goes to that frame.
UnmarkedIsWhole ==
    \A h \in published : ~h.err /\ ~stream.isight /\ OfThisStart(h.image) =>
        \A q \in h.image : {q[1]} \X (1..Parts) \subseteq h.image

\* What the FID test says of the data it hands over, and the EOF test of the frame: it is the
\* rest of the frame the camera was sending, of this start.
PublishedIsOfThisStart == \A h \in published : OfThisStart(h.image)
=============================================================================
