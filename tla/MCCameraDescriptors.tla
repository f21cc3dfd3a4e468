------------------------ MODULE MCCameraDescriptors ------------------------
(***************************************************************************)
(* CameraDescriptors for TLC: three cameras, and what is left of them when *)
(* one thing, or two things, are wrong with their descriptors.             *)
(***************************************************************************)
EXTENDS CameraDescriptors

\* An isochronous camera, with an association and a companion behind its endpoint.
Configuration(n) == [type |-> "config", count |-> n, total |-> 0, piece |-> "none"]
Interface(n, e, c) == [type |-> "interface", number |-> n, endpoints |-> e, class |-> c]
Unknown(s) == [type |-> "unknown", subtype |-> s, version |-> FALSE]
VideoHeader(ns) == [type |-> "unknown", subtype |-> 1, version |-> TRUE, streaming |-> ns]
Other(t) == [type |-> t]

Isochronous == << Configuration(2), Other("association"),
                  Interface(0, 1, "control"), VideoHeader(<<1>>), Unknown(5),
                  Other("endpoint"), Unknown(3),
                  Interface(1, 0, "streaming"), Unknown(1), Unknown(4), Unknown(5),
                  Interface(1, 1, "streaming"), Other("endpoint") >>

\* A bulk camera with its blocks behind the endpoint, an interface before the control one, a
\* descriptor before the configuration and a second configuration.
Bulk == << Other("device"), Configuration(3),
           Interface(0, 0, "other"),
           Interface(1, 0, "control"), VideoHeader(<<2>>), Unknown(3),
           Interface(2, 1, "streaming"), Other("endpoint"), Unknown(4), Unknown(5),
           Unknown(4), Unknown(5),
           Configuration(0) >>

\* Two streams that the header lists in descending order, each with formats of its own, and blocks
\* of no interest among them.
Double == << Configuration(3), Interface(0, 0, "control"), VideoHeader(<<2, 1>>), Unknown(5),
             Interface(1, 0, "streaming"), Unknown(1), Unknown(6), Unknown(7), Unknown(13),
             Interface(2, 0, "streaming"), Unknown(1), Unknown(1),
             Unknown(4), Unknown(5), Unknown(13), Unknown(6), Unknown(7) >>

\* The same with a block in its control interface that uvc_parse_vc does not know: it is not opened.
Foreign == [Double EXCEPT ![4] = Unknown(13)]

\* wTotalLength is what it should be.
Sealed(d) ==
    LET cs == {p \in DOMAIN d : d[p].type = "config"}
        after(p) == Min({q \in cs : q > p} \union {Len(d) + 1})
        sealed == [p \in DOMAIN d |-> IF p \in cs THEN [d[p] EXCEPT !.total = after(p) - p] ELSE d[p]]
    IN  SubSeq(sealed, 1, Len(d))  \* TLC evaluates it once

Dropped(d)  == {Sealed(RemoveAt(d, p)) : p \in DOMAIN d}
Doubled(d)  == {Sealed(InsertAt(d, p, d[p])) : p \in DOMAIN d}
Swapped(d)  == {Sealed([d EXCEPT ![p] = d[p + 1], ![p + 1] = d[p]]) : p \in 1..(Len(d) - 1)}
Lowered(d)  == {Sealed([d EXCEPT ![p] = Other("low")]) :
                    p \in {q \in DOMAIN d : \E c \in 1..(q - 1) : d[c].type = "config"}}
Miscounted(d) ==
    {[d EXCEPT ![p].count = @ + 1] : p \in {q \in DOMAIN d : d[q].type = "config"}} \union
    {[d EXCEPT ![p].endpoints = @ + 1] : p \in {q \in DOMAIN d : d[q].type = "interface"}} \union
    {[d EXCEPT ![p].version = FALSE] : p \in {q \in DOMAIN d : d[q].type = "unknown"}}
Shortened(d) ==
    UNION {{[d EXCEPT ![p].total = t, ![p].piece = c] : t \in 1..(d[p].total - 1), c \in Pieces}
               : p \in {q \in DOMAIN d : d[q].type = "config"}}
Wrong(d) == Dropped(d) \union Doubled(d) \union Swapped(d) \union Miscounted(d) \union Shortened(d)

Blob(d, t, s) == [descs |-> d, tail |-> t, sysfs |-> s]
Whole(ds) == {Blob(d, "none", s) : d \in ds, s \in BOOLEAN}
Cut(d) == {Blob(SubSeq(d, 1, n), t, s) : n \in 1..Len(d), t \in Pieces, s \in BOOLEAN}
Possible(bs) == {b \in bs : Len(b.descs) > 0 /\ \E p \in DOMAIN b.descs : b.descs[p].type = "config"}

\* The kernel removes descriptors with a bad length from what sysfs shows (android_usbfs.c:932).
Cameras == {Sealed(d) : d \in {Isochronous, Bulk, Double}}
OneWrong == UNION {Wrong(d) : d \in Cameras}
TwoWrong == UNION {Wrong(d) : d \in Swapped(Sealed(Isochronous))}
MCBlobs == Possible(Whole(Cameras \union {Sealed(Foreign)} \union OneWrong \union TwoWrong)
                    \union UNION {Cut(d) : d \in Cameras})
           \union {Blob(d, "none", FALSE) : d \in UNION {Lowered(c) : c \in Cameras \union OneWrong}}
           \union {Blob(<<Other("device")>>, "none", s) : s \in BOOLEAN}

=============================================================================
