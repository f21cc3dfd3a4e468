----------------------------- MODULE Negotiation -----------------------------
(***************************************************************************)
(* How an application and a camera agree on a format and how a stream is   *)
(* dimensioned for it (libuvc/stream.c): uvc_get_stream_ctrl_format_size   *)
(* looks a size and a rate up in the descriptors and asks the camera about *)
(* it with probe requests, uvc_stream_open_ctrl commits the camera to what *)
(* the control block holds, uvc_stream_start_bandwidth chooses the         *)
(* alternate setting and the transfers.  The application is the one of     *)
(* UVC.cpp, which asks a second time with the size that the search left in *)
(* maxAvailableWidth and maxAvailableHeight, and any other one that makes  *)
(* these calls from one thread.                                            *)
(*                                                                         *)
(* A camera is a record of its streaming interfaces, numbered from 1; of   *)
(* an interface there are its alternate settings (the bytes per packet of  *)
(* the streaming endpoint, 0 without it) and its formats; of a format its  *)
(* kind and its frames, whose index is their place in the list.            *)
(***************************************************************************)
EXTENDS Integers, FiniteSets, SequencesExt

CONSTANTS Cameras,    \* the cameras that may be plugged in
          Asked,      \* the formats an application asks for
          Sizes,      \* the sizes it asks for, pairs of width and height
          Rates,      \* the greatest frame rates it asks for; the least one is 1
          Divisors,   \* of the bandwidth: 1, or 1/bandwidth_factor
          Second,     \* intervals are fractions of it (10000000 in the code)
          MaxPackets, \* packets of a transfer (32 in the code)
          LinkFails   \* a transfer may fail, an interface be refused

\* A camera as the standard wants it: each interface has a setting and a format, each format a
\* frame, and intervals and steps are not 0.
FrameDescs == [size : Nat \X Nat, intervals : Seq(Nat \ {0}), least : Nat, most : Nat,
               step : Nat \ {0}, max : Nat, payload : Nat]
NonEmpty(S) == Seq(S) \ {<<>>}
CameraOK(cam) ==
    /\ cam.ifs \in Seq([alts : NonEmpty(Nat),
                        formats : NonEmpty([kind : STRING, frames : NonEmpty(FrameDescs)])])
    /\ {cam.obeys, cam.silent, cam.short} \subseteq BOOLEAN

\* In whole frames per second an interval made of a rate is of no higher rate than those asked
\* for, as it is up to 3198 frames with the second of the code.
RateOK(fps) == fps \in 1..Second /\ \A n \in 1..fps : Second \div (Second \div n) <= fps

ASSUME NegotiationAssumption ==
    /\ \A cam \in Cameras : CameraOK(cam)
    /\ Asked \subseteq STRING /\ Sizes \subseteq Nat \X Nat /\ Second \in Nat \ {0}
    /\ \A fps \in Rates : RateOK(fps)
    /\ Divisors \subseteq Nat \ {0} /\ MaxPackets \in Nat \ {0} /\ LinkFails \in BOOLEAN

VARIABLES
    camera,     \* the camera that is open
    probed,     \* what it agreed to in the last probe request
    committed,  \* what each interface is committed to
    claimed,    \* its claimed interfaces
    streams,    \* the stream of each interface
    ctrl,       \* the control block of the application
    available,  \* maxAvailableWidth and maxAvailableHeight
    ask,        \* the last question
    rest,       \* the <<interface, format>> not given up yet
    todo,       \* the probe requests that _prepare_stream_ctrl still has to make
    pc, res     \* where the application is; the answer to the question

vars == <<camera, probed, committed, claimed, streams, ctrl, available, ask, rest, todo, pc, res>>
callVars == <<ask, rest, todo, res>>
deviceVars == <<camera, probed, committed>>

NoStream == [open |-> FALSE]
Nothing  == [fmt |-> 0, frm |-> 0, interval |-> 0, max |-> 0, payload |-> 0]

Block(i, s) == [if |-> i, fmt |-> s.fmt, frm |-> s.frm, interval |-> s.interval,
                max |-> s.max, payload |-> s.payload]
ZeroCtrl == Block(0, Nothing)
Unasked  == [kind |-> "none", size |-> <<0, 0>>, fps |-> 0, faulty |-> FALSE]

Interfaces(cam) == DOMAIN cam.ifs
Formats(i)      == camera.ifs[i].formats
Setting(c)      == [f \in DOMAIN Nothing |-> c[f]]

------------------------------------------------------------------------------
(* Descriptors *)

\* _uvc_frame_format_matches_guid: the kinds of frame a format stands for.  One that is not in
\* the table matches nothing.
Children(kind) ==
    CASE kind = "uncompressed" -> {"yuyv", "uyvy", "gray8"}
      [] kind = "compressed"   -> {"mjpeg"}
      [] kind = "any"          -> {"yuyv", "uyvy", "gray8", "mjpeg"}
      [] kind \in {"yuyv", "uyvy", "gray8", "by8", "mjpeg"} -> {kind}
      [] OTHER                 -> {}

\* uvc_frame_format_for_guid: what is not in the table has no frame format.
HasFrameFormat(kind) == kind \in Children("any") \cup {"by8"}

\* _uvc_find_frame_desc_stream_if
HasFrame(i, s) == s.fmt \in DOMAIN Formats(i) /\ s.frm \in DOMAIN Formats(i)[s.fmt].frames
Frame(i, s)    == Formats(i)[s.fmt].frames[s.frm]

\* uvc_find_frame_desc, for a camera that leaves dwMaxVideoFrameSize 0: the interface is not
\* looked at, the first one with these indices is taken.
FixedUp(s) ==
    LET holders == {i \in Interfaces(camera) : HasFrame(i, s)}
    IN  IF s.max # 0 \/ holders = {} THEN s
        ELSE [s EXCEPT !.max = Frame(Min(holders), s).max]

\* A frame can be sent at these rates: it lists its intervals, or gives their range.
RateFits(iv, fps) == Second \div iv >= 1 /\ Second \div iv <= fps
OnStep(f, n)      == /\ Second \div n >= f.least /\ Second \div n <= f.most
                     /\ (Second \div n - f.least) % f.step = 0

\* The interval that the search takes for at most fps frames: the first that fits of a list,
\* or that of the highest rate.  0: none.
IntervalFor(f, fps) ==
    IF f.intervals # <<>>
    THEN LET k == SelectInSeq(f.intervals, LAMBDA iv : RateFits(iv, fps))
         IN  IF k = 0 THEN 0 ELSE f.intervals[k]
    ELSE LET rates == {n \in 1..fps : OnStep(f, n)}
         IN  IF rates = {} THEN 0 ELSE Second \div Max(rates)

------------------------------------------------------------------------------
(* The camera *)

Answered(i, fmt, frm, interval) ==
    LET f == Formats(i)[fmt].frames[frm]
    IN  [fmt |-> fmt, frm |-> frm, interval |-> interval,
         max |-> IF camera.silent THEN 0 ELSE f.max, payload |-> f.payload]

\* What it may answer after SET_CUR: an obedient camera takes what it offers; another one
\* takes a frame of its own.  Before that, it answers with its first frame.
Negotiated(i, s) ==
    IF camera.obeys THEN {Answered(i, s.fmt, s.frm, s.interval)}
    ELSE {Answered(i, s.fmt, k, s.interval) : k \in DOMAIN Formats(i)[s.fmt].frames}

Least(i)    == Answered(i, 1, 1, Second)
Greatest(i) == LET n == Len(Formats(i)) IN Answered(i, n, Len(Formats(i)[n].frames), 1)

Plugged(cam) ==
    /\ camera' = cam
    /\ committed' = [i \in Interfaces(cam) |-> Nothing]
    /\ probed' = Nothing
    /\ streams' = [i \in Interfaces(cam) |-> NoStream]

Init ==
    /\ camera \in Cameras
    /\ committed = [i \in Interfaces(camera) |-> Nothing]
    /\ probed = Nothing
    /\ streams = [i \in Interfaces(camera) |-> NoStream]
    /\ claimed = {} /\ ctrl = ZeroCtrl /\ available = <<0, 0>>
    /\ ask = Unasked /\ rest = {} /\ todo = <<>> /\ pc = "idle" /\ res = "none"

ForgetAnswer == ask' = Unasked /\ res' = "none" /\ UNCHANGED <<rest, todo>>

\* uvc_close, and uvc_open for this or another camera.  The globals keep their values.
Reopen(cam) ==
    /\ pc = "idle"
    /\ Plugged(cam)
    /\ claimed' = {} /\ ctrl' = ZeroCtrl
    /\ ForgetAnswer
    /\ UNCHANGED <<available, pc>>

------------------------------------------------------------------------------
(* A control transfer: uvc_query_stream_ctrl *)

\* A camera that sends less than its version asks for never succeeds.
Refused   == LinkFails \/ camera.short
Delivered == ~camera.short

\* GET_CUR, GET_MIN and GET_MAX before a question is decided, decoded.
Reply(i, req) == Block(i, FixedUp(IF req = "max" THEN Greatest(i) ELSE Least(i)))

------------------------------------------------------------------------------
(* A question: uvc_get_stream_ctrl_format_size_fps *)

\* The formats of a kind, and the one that is tried: the first in the lists not given up yet.
Described      == UNION {{i} \X DOMAIN Formats(i) : i \in Interfaces(camera)}
Matching(kind) == {c \in Described : Formats(c[1])[c[2]].kind \in Children(kind)}
Tried == CHOOSE c \in rest : \A d \in rest : c[1] < d[1] \/ (c[1] = d[1] /\ c[2] <= d[2])

Ends(answer) == pc' = "idle" /\ res' = answer /\ rest' = {} /\ todo' = <<>>

Asks(kind, size, fps) ==
    /\ pc = "idle"
    /\ ask' = [kind |-> kind, size |-> size, fps |-> fps, faulty |-> FALSE]
    /\ ctrl' = ZeroCtrl
    /\ IF Matching(kind) = {} THEN Ends("invalid_mode")
       ELSE /\ pc' = "claim" /\ rest' = Matching(kind)
            /\ res' = "none" /\ UNCHANGED todo
    /\ UNCHANGED <<deviceVars, claimed, streams, available>>

Ask == \E kind \in Asked, size \in Sizes, fps \in Rates : Asks(kind, size, fps)

\* UVC.cpp: the size is not there, so it asks for the one the search left.
AskAvailable == res = "invalid_mode" /\ Asks(ask.kind, available, ask.fps)

\* A format is given up: the interface is released, whoever claimed it, and the next is tried.
NextFormat(faulty) ==
    /\ claimed' = claimed \ {Tried[1]}
    /\ ask' = [ask EXCEPT !.faulty = @ \/ faulty]
    /\ IF rest = {Tried} THEN Ends("invalid_mode")
       ELSE /\ rest' = rest \ {Tried} /\ pc' = "claim" /\ todo' = <<>>
            /\ UNCHANGED res

Claim ==
    /\ pc = "claim"
    /\ LET i == Tried[1]
       IN  /\ \/ /\ claimed' = claimed \cup {i}
                 /\ todo' = <<"cur", "min", "max", "cur", "min", "max">> /\ pc' = "prepare"
                 /\ UNCHANGED <<ask, rest, res>>
              \/ /\ LinkFails /\ i \notin claimed
                 /\ NextFormat(TRUE)
           /\ ctrl' = [ctrl EXCEPT !.if = i]
    /\ UNCHANGED <<deviceVars, streams, available>>

\* _prepare_stream_ctrl, which is called twice: a failure ends the first call and is forgotten.
Prepare ==
    /\ pc = "prepare"
    /\ \/ /\ Delivered
          /\ ctrl' = Reply(Tried[1], todo[1])
          /\ todo' = Tail(todo)
          /\ pc' = IF Len(todo) = 1 THEN "search" ELSE pc
          /\ UNCHANGED <<ask, rest, res, claimed>>
       \/ /\ Refused
          /\ IF Len(todo) > 3
             THEN /\ todo' = SubSeq(todo, Len(todo) - 2, Len(todo))
                  /\ UNCHANGED <<ask, rest, res, claimed, pc>>
             ELSE NextFormat(TRUE)
          /\ UNCHANGED ctrl
    /\ UNCHANGED <<deviceVars, streams, available>>

\* The frame loop ends before the first frame that is wider than what is asked for.
WiderVariant(f) == f.size[1] >= ask.size[1]
Wider(f)        == f.size[1] > ask.size[1]

\* A frame of this size with an interval that fits is what is looked for.
IsFrameVariant(f) == f.size[1] = ask.size[1] /\ IntervalFor(f, ask.fps) # 0
IsFrame(f)        == f.size = ask.size /\ IntervalFor(f, ask.fps) # 0

\* What the loop leaves in the globals: the frame it looked at last.
LastLookedAtVariant(frames, last) == frames[Min({last + 1, Len(frames)})].size
LastLookedAt(frames, last)        == IF last = 0 THEN available ELSE frames[last].size

Search ==
    /\ pc = "search"
    /\ LET fmt    == Tried[2]
           frames == Formats(Tried[1])[fmt].frames
           wider  == SelectInSeq(frames, Wider)
           passed == IF wider = 0 THEN Len(frames) ELSE wider - 1
           found  == SelectInSeq(SubSeq(frames, 1, passed), IsFrame)
       IN  /\ available' = LastLookedAt(frames, IF found = 0 THEN passed ELSE found)
           /\ IF found = 0
              THEN NextFormat(FALSE) /\ UNCHANGED ctrl
              ELSE /\ ctrl' = [ctrl EXCEPT !.fmt = fmt, !.frm = found,
                                           !.interval = IntervalFor(frames[found], ask.fps)]
                   /\ pc' = "set"
                   /\ UNCHANGED <<callVars, claimed>>
    /\ UNCHANGED <<deviceVars, streams>>

\* uvc_probe_stream_ctrl: the interface is claimed already.
SetProbe ==
    /\ pc = "set"
    /\ \/ /\ Delivered
          /\ probed' \in Negotiated(ctrl.if, ctrl)
          /\ pc' = "get"
          /\ UNCHANGED callVars
       \/ /\ Refused /\ Ends("error")
          /\ UNCHANGED <<ask, probed>>
    /\ UNCHANGED <<camera, committed, claimed, streams, ctrl, available>>

GetProbe ==
    /\ pc = "get"
    /\ \/ Delivered /\ Ends("ok") /\ ctrl' = Block(ctrl.if, FixedUp(probed))
       \/ Refused /\ Ends("error") /\ UNCHANGED ctrl
    /\ probed' = Nothing
    /\ UNCHANGED <<camera, committed, claimed, streams, ask, available>>

------------------------------------------------------------------------------
(* Streams *)

\* uvc_stream_open_ctrl: busy, no such interface, not claimed, or on to the commit request.
OpenStream ==
    /\ pc = "idle" /\ ctrl.if \in Interfaces(camera)
    /\ ~streams[ctrl.if].open
    /\ claimed' = claimed \cup {ctrl.if}
    /\ pc' = "commit" /\ ForgetAnswer
    /\ UNCHANGED <<deviceVars, streams, ctrl, available>>

\* uvc_stream_ctrl is refused for a running stream and for a block of another interface.
MayConfigureVariant(i) == ctrl.if = i
MayConfigure(i)        == ctrl.if = i /\ ~streams[i].running

Reconfigure(i) ==
    /\ pc = "idle" /\ streams[i].open /\ MayConfigure(i)
    /\ pc' = "commit" /\ ForgetAnswer
    /\ UNCHANGED <<deviceVars, claimed, streams, ctrl, available>>

Stopped(setting) == [open |-> TRUE, running |-> FALSE, cur |-> setting,
                     alt |-> 0, packets |-> 0, div |-> 1]

\* The commit request of either; without it no stream comes to be, and its interface stays
\* claimed.
Commit ==
    /\ pc = "commit"
    /\ \/ /\ Delivered
          /\ committed' = [committed EXCEPT ![ctrl.if] = Setting(ctrl)]
          /\ streams' = [streams EXCEPT ![ctrl.if] =
                            IF streams[ctrl.if].open
                            THEN [streams[ctrl.if] EXCEPT !.cur = Setting(ctrl)]
                            ELSE Stopped(Setting(ctrl))]
       \/ Refused /\ UNCHANGED <<committed, streams>>
    /\ pc' = "idle"
    /\ UNCHANGED <<camera, probed, claimed, ctrl, available, callVars>>

\* The bytes per packet to look for; a bandwidth factor that leaves none is not used.
Needed(payload, div) == IF payload \div div = 0 THEN payload ELSE payload \div div

\* The first alternate setting that suffices, or the last one if it has the endpoint.  0: none.
Suffices(bytes, need) == bytes >= need
AltFor(alts, need) ==
    SelectInSubSeq(alts, 1, Len(alts), LAMBDA b : b # 0 /\ Suffices(b, need))

LastAlt(alts) == IF alts[Len(alts)] # 0 THEN Len(alts) ELSE 0

ChosenAlt(alts, need) == IF AltFor(alts, need) # 0 THEN AltFor(alts, need) ELSE LastAlt(alts)

\* Transfers hold a frame, in as many packets as it takes, up to MaxPackets.
FrameSize(i, s) == IF s.max <= Frame(i, s).max THEN s.max ELSE Frame(i, s).max
PacketsFor(size, bytes) == (size + bytes - 1) \div bytes
Packets(size, bytes)    == Min({MaxPackets, PacketsFor(size, bytes)})

\* A stream that can run with this setting: described, in the table of formats, and, if it is
\* isochronous, with bytes to send in a setting that has the endpoint.
CanRun(i, s, div) ==
    /\ HasFrame(i, s) /\ HasFrameFormat(Formats(i)[s.fmt].kind)
    /\ LET alts == camera.ifs[i].alts
       IN  Len(alts) > 1 =>
              /\ s.payload # 0
              /\ ChosenAlt(alts, Needed(s.payload, div)) # 0
              /\ FrameSize(i, s) # 0

Start(i, div) ==
    /\ pc = "idle" /\ streams[i].open /\ ~streams[i].running
    /\ LET s    == streams[i].cur
           alts == camera.ifs[i].alts
           alt  == ChosenAlt(alts, Needed(s.payload, div))
       IN  /\ CanRun(i, s, div)
           /\ streams' = [streams EXCEPT ![i] =
                IF Len(alts) > 1
                THEN [@ EXCEPT !.running = TRUE, !.div = div, !.alt = alt,
                               !.packets = Packets(FrameSize(i, s), alts[alt])]
                ELSE [@ EXCEPT !.running = TRUE, !.div = div]]
    /\ UNCHANGED <<deviceVars, claimed, ctrl, available, callVars, pc>>

Stop(i) ==
    /\ pc = "idle" /\ streams[i].open /\ streams[i].running
    /\ streams' = [streams EXCEPT ![i] = Stopped(@.cur)]
    /\ UNCHANGED <<deviceVars, claimed, ctrl, available, callVars, pc>>

CloseStream(i) ==
    /\ pc = "idle" /\ streams[i].open
    /\ streams' = [streams EXCEPT ![i] = NoStream]
    /\ claimed' = claimed \ {i}
    /\ UNCHANGED <<deviceVars, ctrl, available, callVars, pc>>

Next ==
    \/ \E cam \in Cameras : Reopen(cam)
    \/ Ask \/ AskAvailable
    \/ Claim \/ Prepare \/ Search \/ SetProbe \/ GetProbe
    \/ OpenStream \/ Commit
    \/ \E i \in Interfaces(camera) :
          \/ Reconfigure(i) \/ Stop(i) \/ CloseStream(i)
          \/ \E div \in Divisors : Start(i, div)

Spec == Init /\ [][Next]_vars

------------------------------------------------------------------------------
(* Properties *)

Settings == [fmt : Nat, frm : Nat, interval : Nat, max : Nat, payload : Nat]
Blocks   == [if : Nat, fmt : Nat, frm : Nat, interval : Nat, max : Nat, payload : Nat]
Streams  == [open : {TRUE}, running : BOOLEAN, cur : Settings, alt : Nat, packets : 0..MaxPackets,
             div : Divisors \cup {1}]

TypeOK ==
    /\ camera \in Cameras /\ claimed \subseteq Interfaces(camera)
    /\ probed \in Settings /\ committed \in [Interfaces(camera) -> Settings]
    /\ streams \in [Interfaces(camera) -> Streams \cup {NoStream}]
    /\ ctrl \in Blocks /\ available \in Nat \X Nat
    /\ ask \in [kind : Asked \cup {"none"}, size : Nat \X Nat, fps : Rates \cup {0}, faulty : BOOLEAN]
    /\ rest \subseteq Described
    /\ pc \in {"idle", "claim", "prepare", "search", "set", "get", "commit"}
    /\ res \in {"none", "ok", "invalid_mode", "error"}
    /\ pc \in {"claim", "prepare", "search"} => rest # {}

\* The frames that the camera sends in a format that the table knows for the kind that was asked
\* for: what has no entry there (RGB565, say) is offered by the camera and found by nobody.
CandidateFrames == UNION {Range(Formats(c[1])[c[2]].frames) : c \in Matching(ask.kind)}

\* It sends this frame, at 1 to fps frames.
Offers(f) ==
    /\ f.size = ask.size
    /\ IF f.intervals # <<>> THEN \E k \in DOMAIN f.intervals : RateFits(f.intervals[k], ask.fps)
                             ELSE \E n \in 1..ask.fps : OnStep(f, n)

\* "find a matching frame descriptor and interval" (stream.c): a size and rate that the camera
\* offers are found, unless a transfer failed.
OfferedIsFound ==
    res = "invalid_mode" /\ ~ask.faulty => \A f \in CandidateFrames : ~Offers(f)

Ascending == \A i \in Interfaces(camera) : \A k \in DOMAIN Formats(i) :
                LET frames == Formats(i)[k].frames
                IN  \A m, n \in DOMAIN frames : m < n => frames[m].size[1] <= frames[n].size[1]

\* The same for a camera that lists its frames in ascending order of their widths, which the
\* search takes for granted.
OfferedIsFoundAscending == Ascending => OfferedIsFound

\* After such a question, what UVC.cpp asks for next is a size of this camera in the format it
\* asked for and no wider, unless all of them are wider.
AvailableIsOffered ==
    /\ res = "invalid_mode" /\ ~ask.faulty /\ Ascending
    /\ \E f \in CandidateFrames : f.size[1] <= ask.size[1]
    => \E f \in CandidateFrames : f.size = available /\ available[1] <= ask.size[1]

\* What a camera that takes what it is asked for agrees to is what the application asked for:
\* the kind, the size and the rate, through six probe requests, the search and two more.
AnswerIsAsked ==
    res = "ok" /\ camera.obeys /\ pc = "idle" =>
        /\ <<ctrl.if, ctrl.fmt>> \in Matching(ask.kind) /\ HasFrame(ctrl.if, ctrl)
        /\ Frame(ctrl.if, ctrl).size = ask.size
        /\ Second \div ctrl.interval \in 1..ask.fps

\* A running stream is dimensioned for what the camera is committed to: its packets hold the
\* payload if any alternate setting does and the bandwidth is not cut, and its transfers hold
\* a frame and not one packet more, or MaxPackets packets.
RunningFits ==
    \A i \in Interfaces(camera) : streams[i].open /\ streams[i].running =>
        LET s     == committed[i]
            alts  == camera.ifs[i].alts
            bytes == alts[streams[i].alt]
            held  == streams[i].packets * bytes
        IN  /\ HasFrame(i, s)
            /\ Len(alts) > 1 =>
                  /\ \/ streams[i].div > 1 \/ bytes >= s.payload
                     \/ \A k \in DOMAIN alts : alts[k] < s.payload
                  /\ bytes > 0
                  /\ held >= FrameSize(i, s) \/ streams[i].packets = MaxPackets
                  /\ held - bytes < FrameSize(i, s)
=============================================================================
