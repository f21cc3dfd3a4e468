--------------------------- MODULE MCNegotiation ---------------------------
(***************************************************************************)
(* Cameras for Negotiation.  A second has 12 units, so that intervals of   *)
(* 2, 4 and 12 units are 6, 3 and 1 frames.                                *)
(***************************************************************************)
EXTENDS Negotiation

Listed(size, intervals, max, payload) ==
    [size |-> size, intervals |-> intervals, least |-> 0, most |-> 0, step |-> 1,
     max |-> max, payload |-> payload]
Ranged(size, least, most, step, max, payload) ==
    [size |-> size, intervals |-> <<>>, least |-> least, most |-> most, step |-> step,
     max |-> max, payload |-> payload]
Format(kind, frames)    == [kind |-> kind, frames |-> frames]
Interface(alts, formats) == [alts |-> alts, formats |-> formats]

\* Two formats, frames in ascending order, lists of intervals; isochronous.
Webcam == [ifs |-> <<Interface(<<0, 2, 4>>,
                <<Format("yuyv", <<Listed(<<1, 1>>, <<2, 4>>, 4, 2), Listed(<<2, 1>>, <<4>>, 7, 3),
                                   Listed(<<2, 2>>, <<12>>, 12, 6)>>),
                  Format("mjpeg", <<Listed(<<2, 2>>, <<2>>, 5, 4)>>)>>)>>,
           obeys |-> TRUE, silent |-> FALSE, short |-> FALSE]

\* Two interfaces, one of them bulk; ranges of intervals; leaves dwMax to libuvc.
Stereo == [ifs |-> <<Interface(<<0, 2>>, <<Format("yuyv", <<Ranged(<<1, 1>>, 2, 6, 2, 4, 2)>>),
                                           Format("rgb565", <<Listed(<<2, 2>>, <<4>>, 0, 2)>>)>>),
                     Interface(<<4>>, <<Format("uyvy", <<Ranged(<<2, 1>>, 3, 12, 3, 7, 0)>>)>>)>>,
           obeys |-> TRUE, silent |-> TRUE, short |-> FALSE]

\* Takes a frame of its own; one without a payload; the last setting lacks the endpoint.
Wilful == [ifs |-> <<Interface(<<0, 4, 0>>,
                <<Format("yuyv", <<Listed(<<1, 1>>, <<4>>, 9, 6), Listed(<<2, 1>>, <<4>>, 7, 0),
                                   Listed(<<2, 2>>, <<4>>, 8, 3)>>)>>)>>,
           obeys |-> FALSE, silent |-> FALSE, short |-> FALSE]

\* Answers with fewer bytes than its version has.
Terse == [Webcam EXCEPT !.short = TRUE]

\* Lists its greatest frame first.
Descending == [ifs |-> <<Interface(<<0, 2, 4>>,
                <<Format("yuyv", <<Listed(<<2, 2>>, <<4>>, 12, 4), Listed(<<1, 1>>, <<4>>, 4, 2)>>)>>)>>,
               obeys |-> TRUE, silent |-> FALSE, short |-> FALSE]

AllCameras  == {Webcam, Stereo, Wilful, Terse}
OneUnsorted == {Descending}
AllKinds    == {"yuyv", "any", "rgb565"}
AllSizes    == {<<1, 1>>, <<1, 2>>, <<2, 1>>, <<2, 2>>}
=============================================================================
