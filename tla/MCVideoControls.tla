-------------------------- MODULE MCVideoControls --------------------------
(***************************************************************************)
(* Instances of VideoControls: two controls, three calls, so that one can  *)
(* be set, the other one too, and the first one read.                      *)
(***************************************************************************)
EXTENDS VideoControls

Packet(type, originator, event, len) ==
    [type |-> type, originator |-> originator, event |-> event, len |-> len]

\* One for each callback, from either unit, and one for each early return of the two handlers.
AllPackets == {Packet(1, "terminal", 0, 5), Packet(1, "unit", 0, 6), Packet(2, "interface", 0, 4),
               Packet(1, "unit", 1, 5), Packet(1, "unit", 0, 4), Packet(1, "unknown", 0, 5),
               Packet(1, "interface", 0, 5), Packet(2, "interface", 1, 4),
               Packet(2, "interface", 0, 3), Packet(3, "interface", 0, 5)}

\* The iris functions are those of the focus.
ButIris == DOMAIN Controls \ {"iris_abs", "iris_rel"}

\* Two functions can take each other's control only when they are alike: same unit, same number
\* of bytes.
Alike(c, d) == Controls[c].unit = Controls[d].unit /\ Widths[c] = Widths[d]
AlikePairs  == {{c, d} : <<c, d>> \in {p \in ButIris \X ButIris : Alike(p[1], p[2])}}

\* The ends of each type, 0 on both sides, rotated through the parameters of a control.
Edges(f) == IF f.type = "signed" THEN <<-1, Full(f.bytes) \div 2 - 1, -(Full(f.bytes) \div 2), 1>>
                                 ELSE <<3, Full(f.bytes) - 1, 0, 1>>
EdgeValues == [c \in DOMAIN Controls |->
                 {[k \in DOMAIN Fields(c) |-> Edges(Fields(c)[k])[((k + n) % 4) + 1]] : n \in 0..3}]

\* A step of exposure_rel back, which comes back as a greater one forward.
Backwards == [EdgeValues EXCEPT !["exposure_rel"] = {<<-1>>}]
Exposure  == {{"exposure_rel"}}

Autofocus == {{"focus_auto"}}
IrisFocus == {{"iris_abs", "focus_abs"}}
=============================================================================
