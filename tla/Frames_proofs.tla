---------------------------- MODULE Frames_proofs ----------------------------
(***************************************************************************)
(* Proofs about PayloadAssembler and FrameHandoff, for any number of       *)
(* frames, parts and starts, any size of the buffer and sequence numbers   *)
(* of any width.                                                           *)
(*                                                                         *)
(* The assembly.  What is in outbuf is of one frame id, the one the handle *)
(* has, and complete up to where the camera is, but for what the code      *)
(* skipped, unless the frame is marked; the time stamp is of no earlier    *)
(* frame (Assembled).  A frame is handed over when the frame id changes,   *)
(* and then the camera is past every frame that can be in it, or at an     *)
(* EOF, and then it is at the end of its frame (HandedAtFlipOK,            *)
(* HandedAtEndOK).  Two frames of one id are not neighbours, and so the    *)
(* one between them was skipped as a whole.  Of the camera's own frame the *)
(* buffer has at most the parts sent so far, so that it takes an earlier   *)
(* frame to fill it (Room).                                                *)
(*                                                                         *)
(* The hand-off.  The held buffer is never the one being filled, and when  *)
(* something was lost of it hold_bfh_err says so, because bfh_err tells of *)
(* the frame in outbuf and is swapped with it (HeldFinished); as long as   *)
(* no frame was held no reader finds anything new.  Frames are numbered in *)
(* the order the camera sends them, a swap puts a later frame into holdbuf *)
(* than the one it takes out, and what was shown is never ahead of         *)
(* strmh->frame, nor that of holdbuf (InOrder).  A reader whose own        *)
(* sequence number differs from hold_seq has not been given the held frame *)
(* (PollUnseen, CallUnseen), whatever wrapped in between.                  *)
(***************************************************************************)
EXTENDS PayloadAssembler, FrameHandoff, TLAPS

USE PayloadAssumption, HandoffAssumption DEF PayloadAssumption, HandoffAssumption

\* The camera that is at part p of frame f has sent q.
SentAt(q, f, p) == q[1] < f \/ (q[1] = f /\ q[2] < p)

\* No part is missing between the first one of the image and where the camera is.
Complete(image, f, p, lost) ==
    \A q \in image : \A r \in Places : Before(q, r) /\ SentAt(r, f, p) => r \in image \cup lost

\* The handle of a camera other than an iSight, which is at part p of frame f.
Assembled(s, f, p, lost) ==
    /\ s.got = 0 <=> s.image = {}
    /\ s.pts \in 0..f /\ (s.pts # 0 => s.fid = Fid(s.pts))
    /\ \A q \in s.image : SentAt(q, f, p)
    /\ OfThisStart(s.image) =>
          /\ \A q \in s.image : s.fid = Fid(q[1]) /\ (s.pts = 0 \/ q[1] <= s.pts)
          /\ ~s.err => Complete(s.image, f, p, lost)

\* What the properties say of one frame that is handed over.
HandedOK(h, lost) ==
    ~h.err /\ OfThisStart(h.image) =>
        /\ \A q, l \in h.image : \A r \in Places : Before(q, r) /\ r[1] <= l[1] => r \in h.image \cup lost
        /\ \A q, l \in h.image : q[1] < l[1] => {q[1] + 1} \X (1..Parts) \subseteq lost
        /\ \/ h.pts = 0
           \/ \E q \in h.image : q[1] = h.pts
           \/ {h.pts} \X (1..Parts) \subseteq lost

\* The inductive invariant.
IInv ==
    /\ TypeOK
    /\ ~stream.isight => /\ overrun # "aborted" => Assembled(asm, sent, part, skipped)
                         /\ \A h \in published : HandedOK(h, skipped)

------------------------------------------------------------------------------
(* Places and frame ids *)

LEMMA PlaceFacts ==
    /\ \A f \in Frames, p \in 1..Parts :
          <<f, p>> \in Places /\ <<f, p>>[1] = f /\ <<f, p>>[2] = p
    /\ \A q \in Places : q[1] \in Frames /\ q[2] \in 1..Parts /\ q = <<q[1], q[2]>>
    BY DEF Places, Frames

LEMMA FrameNumbers == Frames \subseteq Nat \ {0}
    BY DEF Frames

\* The frame id tells neighbours apart.
LEMMA FidAlternates == \A f \in Nat : Fid(f) \in {0, 1} /\ Fid(f) # Fid(f + 1)
    BY DEF Fid

AsmType == [fid : {0, 1}, got : 0..(SizeBuf - 1), image : SUBSET Places, err : BOOLEAN,
            pts : 0..(MaxFrames + 2)]
HandedType == [image : SUBSET Places, err : BOOLEAN, pts : 0..(MaxFrames + 2)]

------------------------------------------------------------------------------
(* The pieces of the handlers *)

LEMMA HandedTyped == \A s \in AsmType : Handed(s) \in HandedType
    BY DEF AsmType, HandedType, Handed

LEMMA SwappedTyped ==
    \A s \in AsmType : /\ Swapped(s) \in AsmType
                       /\ Swapped(s).got = 0 /\ Swapped(s).image = {} /\ Swapped(s).pts = 0
                       /\ Swapped(s).fid = s.fid
<1>1. 0 \in 0..(SizeBuf - 1) /\ 0 \in 0..(MaxFrames + 2) /\ {} \in SUBSET Places /\ FALSE \in BOOLEAN
    OBVIOUS
<1> HIDE PayloadAssumption
<1>2. QED
    BY <1>1 DEF AsmType, Swapped

LEMMA MarkedTyped ==
    \A s \in AsmType : /\ Marked(s) \in AsmType /\ Marked(s).err
                       /\ Marked(s).got = s.got /\ Marked(s).image = s.image
                       /\ Marked(s).pts = s.pts /\ Marked(s).fid = s.fid
    BY DEF AsmType, Marked

LEMMA AppendedTyped ==
    ASSUME NEW s \in AsmType, NEW q \in Places, Fits(s)
    PROVE  /\ Appended(s, q) \in AsmType
           /\ Appended(s, q).got = s.got + 1 /\ Appended(s, q).image = s.image \cup {q}
           /\ Appended(s, q).err = s.err /\ Appended(s, q).pts = s.pts
           /\ Appended(s, q).fid = s.fid
<1>1. s.got + 1 \in 0..(SizeBuf - 1)
    BY DEF AsmType, Fits
<1>2. s.image \cup {q} \in SUBSET Places
    BY DEF AsmType
<1>3. Appended(s, q) = [s EXCEPT !.got = s.got + 1, !.image = s.image \cup {q}]
    BY DEF Appended
<1>4. QED
    BY <1>1, <1>2, <1>3 DEF AsmType

LEMMA HeadedTyped ==
    ASSUME NEW s \in AsmType, NEW f \in Frames, NEW short \in BOOLEAN
    PROVE  /\ Headed(s, f, short) \in AsmType
           /\ Headed(s, f, short).fid = Fid(f) /\ Headed(s, f, short).pts = (IF short THEN 0 ELSE f)
           /\ Flips(s, f) => Headed(s, f, short).got = 0 /\ Headed(s, f, short).image = {}
           /\ ~Flips(s, f) => /\ Headed(s, f, short).got = s.got
                              /\ Headed(s, f, short).image = s.image
                              /\ Headed(s, f, short).err = s.err
<1> DEFINE t == IF Flips(s, f) THEN Swapped(s) ELSE s
<1>1. t \in AsmType /\ (Flips(s, f) => t.got = 0 /\ t.image = {}) /\ (~Flips(s, f) => t = s)
    BY SwappedTyped
<1>2. Fid(f) \in {0, 1} /\ f \in 0..(MaxFrames + 2)
    BY FidAlternates DEF Frames
<1>3. Headed(s, f, short) = [t EXCEPT !.fid = Fid(f), !.pts = IF short THEN 0 ELSE f]
    BY DEF Headed
<1>4. (IF short THEN 0 ELSE f) \in 0..(MaxFrames + 2)
    BY <1>2
<1> DEFINE n == IF short THEN 0 ELSE f
<1> HIDE DEF t, n
<1>5. n \in 0..(MaxFrames + 2) /\ Headed(s, f, short) = [t EXCEPT !.fid = Fid(f), !.pts = n]
    BY <1>3, <1>4 DEF n
<1>6. /\ Headed(s, f, short) \in AsmType /\ Headed(s, f, short).fid = Fid(f)
      /\ Headed(s, f, short).pts = n /\ Headed(s, f, short).got = t.got
      /\ Headed(s, f, short).image = t.image /\ Headed(s, f, short).err = t.err
    BY <1>1, <1>2, <1>5 DEF AsmType
<1>7. QED
    BY <1>1, <1>6 DEF n

------------------------------------------------------------------------------
(* What they preserve, for a camera that is at part p of frame f *)

\* A swap leaves nothing.
LEMMA SwappedAssembled ==
    ASSUME NEW s \in AsmType, NEW f \in Frames, NEW p \in Nat, NEW lost
    PROVE  Assembled(Swapped(s), f, p, lost)
    BY SwappedTyped, FrameNumbers DEF Assembled, Complete

\* A header starts a frame, or goes on with the one of its frame id.
LEMMA HeadedAssembled ==
    ASSUME NEW s \in AsmType, NEW f \in Frames, NEW p \in Nat, NEW lost, NEW short \in BOOLEAN,
           Assembled(s, f, p, lost)
    PROVE  Assembled(Headed(s, f, short), f, p, lost)
<1> DEFINE h == Headed(s, f, short)
<1>1. h \in AsmType /\ h.fid = Fid(f) /\ h.pts \in {0, f} /\ f \in Nat
    BY HeadedTyped, FrameNumbers
<1>2. CASE Flips(s, f)
    <2>1. h.got = 0 /\ h.image = {}
        BY <1>2, HeadedTyped
    <2>2. QED
        BY <1>1, <2>1 DEF Assembled, Complete
<1>3. CASE ~Flips(s, f)
    <2>1. h.got = s.got /\ h.image = s.image /\ h.err = s.err
        BY <1>3, HeadedTyped
    <2>2. s.image # {} => s.fid = Fid(f)
        BY <1>3 DEF Flips, Assembled
    <2>3. \A q \in s.image : q \in Places /\ q[1] \in Nat /\ q[1] <= f
        BY <1>1, PlaceFacts, FrameNumbers DEF AsmType, Assembled, SentAt
    <2>4. QED
        BY <1>1, <2>1, <2>2, <2>3 DEF Assembled
<1>4. QED
    BY <1>2, <1>3

\* Data goes behind what is there.
LEMMA AppendedAssembled ==
    ASSUME NEW s \in AsmType, NEW f \in Frames, NEW p \in 1..Parts, NEW lost,
           Fits(s), Assembled(s, f, p, lost), s.fid = Fid(f), s.pts \in {0, f}
    PROVE  Assembled(Appended(s, <<f, p>>), f, p + 1, lost)
<1> DEFINE a == Appended(s, <<f, p>>)
<1>1. /\ <<f, p>> \in Places /\ f \in Nat /\ s.image \subseteq Places
      /\ \A q \in Places : q[1] \in Nat /\ q[2] \in Nat /\ q = <<q[1], q[2]>>
      /\ s.got \in Nat
    BY PlaceFacts, FrameNumbers DEF AsmType
<1>2. /\ a.got = s.got + 1 /\ a.image = s.image \cup {<<f, p>>} /\ a.err = s.err
      /\ a.pts = s.pts /\ a.fid = s.fid
    BY <1>1, AppendedTyped
<1> HIDE DEF a
<1>3. a.got # 0 /\ a.image # {}
    BY <1>1, <1>2
<1>4. \A q \in a.image : SentAt(q, f, p + 1)
    BY <1>1, <1>2 DEF Assembled, SentAt
<1>5. ASSUME OfThisStart(a.image)
      PROVE  \A q \in a.image : a.fid = Fid(q[1]) /\ (a.pts = 0 \/ q[1] <= a.pts)
    BY <1>1, <1>2, <1>5 DEF Assembled, OfThisStart
<1>6. ASSUME OfThisStart(a.image), ~a.err, NEW q \in a.image, NEW r \in Places,
             Before(q, r), SentAt(r, f, p + 1)
      PROVE  r \in a.image \cup lost
    <2>1. CASE r = <<f, p>>
        BY <1>2, <2>1
    <2>2. CASE r # <<f, p>>
      <3>1. SentAt(r, f, p)
          BY <1>1, <1>6, <2>2 DEF SentAt
      <3>2. q # <<f, p>>
          BY <1>1, <1>6, <3>1 DEF SentAt, Before
      <3>3. QED
          BY <1>2, <1>6, <3>1, <3>2 DEF Assembled, OfThisStart, Complete
    <2>3. QED
        BY <2>1, <2>2
<1>7. QED
    BY <1>2, <1>3, <1>4, <1>5, <1>6 DEF Assembled, Complete, a

\* A payload is lost, and the frame marked or the payload counted as skipped.
LEMMA LostAssembled ==
    ASSUME NEW s \in AsmType, NEW f \in Frames, NEW p \in 1..Parts, NEW lost,
           Assembled(s, f, p, lost)
    PROVE  /\ Assembled(Marked(s), f, p + 1, lost)
           /\ Assembled(s, f, p + 1, lost \cup {<<f, p>>})
<1>1. /\ f \in Nat /\ s.image \subseteq Places
      /\ \A q \in Places : q[1] \in Nat /\ q[2] \in Nat /\ q = <<q[1], q[2]>>
    BY PlaceFacts, FrameNumbers DEF AsmType
<1>2. \A q \in s.image : SentAt(q, f, p + 1)
    BY <1>1 DEF Assembled, SentAt
<1>3. \A r \in Places : SentAt(r, f, p + 1) => SentAt(r, f, p) \/ r = <<f, p>>
    BY <1>1 DEF SentAt
<1>4. Assembled(Marked(s), f, p + 1, lost)
    BY <1>2, MarkedTyped DEF Assembled
<1>5. Complete(s.image, f, p, lost) => Complete(s.image, f, p + 1, lost \cup {<<f, p>>})
    BY <1>3 DEF Complete
<1>6. QED
    BY <1>2, <1>4, <1>5 DEF Assembled

\* A header alone is lost, or the frame marked.
LEMMA MarkedAssembled ==
    ASSUME NEW s \in AsmType, NEW f, NEW p, NEW lost, Assembled(s, f, p, lost)
    PROVE  Assembled(Marked(s), f, p, lost)
    BY MarkedTyped DEF Assembled

------------------------------------------------------------------------------
(* Frames that are handed over *)

\* What is handed over is right when the camera has sent all of the frames that are in it, and
\* of that of its time stamp.
LEMMA HandedRight ==
    ASSUME NEW s \in AsmType, NEW f \in Frames, NEW p \in 1..(Parts + 1), NEW lost,
           Assembled(s, f, p, lost), s.image # {},
           \A r \in Places : r[1] <= s.pts \/ (\E l \in s.image : r[1] <= l[1]) => SentAt(r, f, p)
    PROVE  HandedOK(Handed(s), lost)
<1> DEFINE h == Handed(s)
<1>1. h.image = s.image /\ h.err = s.err /\ h.pts = s.pts
    BY DEF Handed
<1> HIDE DEF h
<1> SUFFICES ASSUME ~h.err, OfThisStart(h.image)
             PROVE  /\ \A q, l \in h.image : \A r \in Places :
                           Before(q, r) /\ r[1] <= l[1] => r \in h.image \cup lost
                    /\ \A q, l \in h.image : q[1] < l[1] => {q[1] + 1} \X (1..Parts) \subseteq lost
                    /\ \/ h.pts = 0
                       \/ \E q \in h.image : q[1] = h.pts
                       \/ {h.pts} \X (1..Parts) \subseteq lost
    BY DEF HandedOK, h
<1>2. /\ s.image \subseteq Places /\ s.pts \in Nat /\ s.pts <= f /\ f \in Nat
      /\ \A q \in Places : q[1] \in Nat \ {0} /\ q[1] \in Frames
    BY PlaceFacts, FrameNumbers DEF AsmType, Assembled
<1>3. /\ \A q \in s.image : s.fid = Fid(q[1]) /\ (s.pts = 0 \/ q[1] <= s.pts)
      /\ s.pts # 0 => s.fid = Fid(s.pts)
      /\ Complete(s.image, f, p, lost)
    BY <1>1 DEF Assembled
<1>4. \A q, l \in s.image : \A r \in Places : Before(q, r) /\ r[1] <= l[1] => r \in s.image \cup lost
    BY <1>3 DEF Complete
<1>5. ASSUME NEW q \in s.image, NEW l \in s.image, q[1] < l[1], NEW r \in {q[1] + 1} \X (1..Parts)
      PROVE  r \in lost
    <2>1. r[1] = q[1] + 1 /\ r[2] \in 1..Parts /\ r = <<r[1], r[2]>>
        BY <1>5
    <2>2. q[1] + 1 \in Frames /\ q[1] + 1 <= l[1]
        BY <1>2, <1>5 DEF Frames
    <2>3. r \in Places /\ Before(q, r)
        BY <1>2, <2>1, <2>2, PlaceFacts DEF Before
    <2>4. r \notin s.image
        BY <1>2, <1>3, <2>1, FidAlternates
    <2>5. QED
        BY <1>4, <2>1, <2>2, <2>3, <2>4
<1>6. ASSUME s.pts # 0, \A q \in s.image : q[1] # s.pts, NEW r \in {s.pts} \X (1..Parts)
      PROVE  r \in lost
    <2>1. r[1] = s.pts /\ r[2] \in 1..Parts /\ r = <<r[1], r[2]>>
        BY <1>6
    <2>2. s.pts \in Frames
        BY <1>2, <1>6 DEF Frames
    <2>3. r \in Places
        BY <2>1, <2>2, PlaceFacts
    <2>4. PICK q \in s.image : q[1] < s.pts
        BY <1>2, <1>3, <1>6
    <2>5. Before(q, r) /\ SentAt(r, f, p)
        BY <1>2, <2>1, <2>3, <2>4 DEF Before
    <2>6. QED
        BY <1>3, <1>6, <2>1, <2>3, <2>5 DEF Complete
<1>7. QED
    BY <1>1, <1>4, <1>5, <1>6

\* At a change of the frame id, the camera is past all of them.
LEMMA HandedAtFlipOK ==
    ASSUME NEW s \in AsmType, NEW f \in Frames, NEW p \in 1..(Parts + 1), NEW lost,
           Assembled(s, f, p, lost), Flips(s, f)
    PROVE  HandedOK(Handed(s), lost)
<1>1. /\ s.image \subseteq Places /\ s.pts \in Nat /\ f \in Nat
      /\ \A q \in Places : q[1] \in Nat
    BY PlaceFacts, FrameNumbers DEF AsmType
<1>2. s.image # {} /\ s.fid # Fid(f)
    BY DEF Assembled, Flips
<1>3. CASE OfThisStart(s.image)
    <2>1. s.pts < f \/ s.pts = 0
        BY <1>1, <1>2 DEF Assembled
    <2>2. \A q \in s.image : q[1] < f
        BY <1>1, <1>2, <1>3 DEF Assembled, SentAt
    <2>3. \A r \in Places : r[1] <= s.pts \/ (\E l \in s.image : r[1] <= l[1]) => SentAt(r, f, p)
        BY <1>1, <2>1, <2>2, PlaceFacts, FrameNumbers DEF SentAt
    <2>4. QED
        BY <1>2, <2>3, HandedRight
<1>4. CASE ~OfThisStart(s.image)
    BY <1>4 DEF HandedOK, Handed
<1>5. QED
    BY <1>3, <1>4

\* At an EOF, it has sent the whole of its frame.
LEMMA HandedAtEndOK ==
    ASSUME NEW s \in AsmType, NEW f \in Frames, NEW lost,
           Assembled(s, f, Parts + 1, lost), s.image # {}
    PROVE  HandedOK(Handed(s), lost)
<1>1. /\ s.image \subseteq Places /\ s.pts \in 0..f /\ f \in Nat
      /\ \A q \in Places : q[1] \in Nat /\ q[2] \in 1..Parts
    BY PlaceFacts, FrameNumbers DEF AsmType, Assembled
<1>2. \A q \in s.image : q[1] <= f
    BY <1>1 DEF Assembled, SentAt
<1>3. \A r \in Places : r[1] <= s.pts \/ (\E l \in s.image : r[1] <= l[1]) => SentAt(r, f, Parts + 1)
    BY <1>1, <1>2 DEF SentAt
<1>4. Parts + 1 \in 1..(Parts + 1)
    OBVIOUS
<1>5. QED
    BY <1>3, <1>4, HandedRight

------------------------------------------------------------------------------
(* Every step *)

\* What a handler leaves and hands over.
LEMMA Settled ==
    ASSUME asm \in AsmType, sent \in Frames, part \in 1..(Parts + 1),
           NEW short \in BOOLEAN, NEW t \in AsmType, NEW ends \in BOOLEAN,
           NEW p \in 1..(Parts + 1), Settle(asm, sent, short, t, ends)
    PROVE  /\ asm' \in AsmType /\ published' \subseteq HandedType
           /\ asm'.got \in {0, t.got}
           /\ /\ Assembled(asm, sent, part, skipped) /\ Assembled(t, sent, p, skipped)
              /\ ends => t.image # {} /\ p = Parts + 1
              => /\ Assembled(asm', sent, p, skipped)
                 /\ \A h \in published' : HandedOK(h, skipped)
<1>1. /\ asm' = IF ends THEN Swapped(t) ELSE t
      /\ \A h \in published' : \/ Flips(asm, sent) /\ h = Handed(asm)
                               \/ ends /\ h = Handed(t)
    BY DEF Settle, HandedAtFlip
<1>2. asm' \in AsmType /\ asm'.got \in {0, t.got}
    BY <1>1, SwappedTyped
<1>3. published' \subseteq HandedType
    BY <1>1, HandedTyped
<1>4. ASSUME Assembled(asm, sent, part, skipped), Assembled(t, sent, p, skipped),
             ends => t.image # {} /\ p = Parts + 1
      PROVE  /\ Assembled(asm', sent, p, skipped)
             /\ \A h \in published' : HandedOK(h, skipped)
    <2>1. Assembled(asm', sent, p, skipped)
        BY <1>1, <1>4, SwappedAssembled
    <2>2. Flips(asm, sent) => HandedOK(Handed(asm), skipped)
        BY <1>4, HandedAtFlipOK
    <2>3. ends => HandedOK(Handed(t), skipped)
        BY <1>4, HandedAtEndOK
    <2>4. QED
        BY <1>1, <2>1, <2>2, <2>3
<1>5. QED
    BY <1>2, <1>3, <1>4

\* What a step has to bring about.
Sound == /\ asm \in AsmType /\ published \subseteq HandedType /\ part \in 1..(Parts + 1)
         /\ skipped \subseteq Places
         /\ overrun \in {"no", "dropped", "aborted"}
         /\ ~stream.isight => /\ overrun # "aborted" => Assembled(asm, sent, part, skipped)
                              /\ \A h \in published : HandedOK(h, skipped)

Rest == stream \in Streams /\ starts \in 1..(MaxStarts + 1) /\ base \in Frames /\ sent \in Frames

LEMMA IInvParts == IInv <=> Sound /\ Rest
    BY DEF IInv, TypeOK, Sound, Rest, AsmType, HandedType

\* A handler changes neither the start nor the frame of the camera.
LEMMA Carried ==
    ASSUME Rest, UNCHANGED <<stream, starts, base, sent>>
    PROVE  /\ Rest'
           /\ Assembled(asm', sent, part', skipped') => Assembled(asm, sent, part, skipped)'
           /\ (\A h \in published' : HandedOK(h, skipped')) =>
                 (\A h \in published : HandedOK(h, skipped))'
<1>1. Rest'
    BY DEF Rest
<1>2. Assembled(asm', sent, part', skipped') => Assembled(asm, sent, part, skipped)'
    BY DEF Assembled, OfThisStart
<1>3. (\A h \in published' : HandedOK(h, skipped')) => (\A h \in published : HandedOK(h, skipped))'
    BY DEF HandedOK, OfThisStart
<1>4. QED
    BY <1>1, <1>2, <1>3

\* Where the camera is after a payload.
LEMMA SendsFacts ==
    ASSUME Sound, Rest, NEW data \in BOOLEAN, Sends(data)
    PROVE  /\ part' \in 1..(Parts + 1) /\ UNCHANGED <<stream, base, sent>>
           /\ data => part \in 1..Parts /\ part' = part + 1 /\ Place \in Places
           /\ ~data => part' = part
           /\ HasEof(data) => part' = Parts + 1
<1>1. part \in 1..(Parts + 1) /\ sent \in Frames
    BY DEF Sound, Rest
<1>2. data => part \in 1..Parts
    BY <1>1 DEF Sends
<1>3. data => Place \in Places
    BY <1>1, <1>2, PlaceFacts DEF Place
<1>4. QED
    BY <1>1, <1>2, <1>3 DEF Sends, HasEof

\* A new camera frame, a restart of the stream.
LEMMA NewFrameSound == Sound /\ Rest /\ NewFrame => Sound' /\ Rest'
<1> SUFFICES ASSUME Sound, Rest, NewFrame PROVE Sound' /\ Rest'
    OBVIOUS
<1>1. /\ sent \in Frames /\ sent' = sent + 1 /\ sent' \in Frames /\ part = Parts + 1 /\ part' = 1
      /\ published' = {} /\ overrun' = "no" /\ overrun # "aborted"
      /\ UNCHANGED <<stream, starts, base, asm, skipped>>
    BY DEF NewFrame, Sound, Rest, Frames
<1>2. /\ \A q \in Places : SentAt(q, sent, part) => SentAt(q, sent', part')
      /\ \A q \in Places : SentAt(q, sent', part') => SentAt(q, sent, part)
    BY <1>1, PlaceFacts, FrameNumbers DEF SentAt
<1>3. asm.image \subseteq Places /\ asm.pts \in Nat /\ sent \in Nat
    BY <1>1, FrameNumbers DEF Sound, AsmType
<1>4. Assembled(asm, sent, part, skipped) => Assembled(asm, sent, part, skipped)'
    BY <1>1, <1>2, <1>3 DEF Assembled, Complete, OfThisStart
<1>5. QED
    BY <1>1, <1>4 DEF Sound, Rest

LEMMA RestartSound == Sound /\ Rest /\ Restart => Sound' /\ Rest'
<1> SUFFICES ASSUME Sound, Rest, Restart PROVE Sound' /\ Rest'
    OBVIOUS
<1>1. /\ sent \in Frames /\ sent \in Nat /\ sent < sent' /\ sent' \in Frames /\ base' = sent'
      /\ part' = 1 /\ starts' \in 1..(MaxStarts + 1)
      /\ published' = {} /\ overrun' = "no" /\ overrun # "aborted"
      /\ UNCHANGED <<stream, skipped>>
    BY FrameNumbers DEF Restart, Rest, Frames
<1>2. /\ asm' \in AsmType /\ asm'.got = asm.got /\ asm'.image = asm.image /\ asm'.pts = 0
    <2>1. /\ asm \in AsmType /\ asm' = [asm EXCEPT !.fid = 0, !.err = FALSE, !.pts = 0]
          /\ 0 \in {0, 1} /\ 0 \in 0..(MaxFrames + 2) /\ FALSE \in BOOLEAN
        BY DEF Restart, Sound
    <2> HIDE PayloadAssumption
    <2>2. QED
        BY <2>1 DEF AsmType
<1>3. asm.image \subseteq Places /\ \A q \in Places : q[1] \in Nat
    BY PlaceFacts, FrameNumbers DEF Sound, AsmType
<1>4. ASSUME Assembled(asm, sent, part, skipped)
      PROVE  Assembled(asm, sent, part, skipped)'
    <2>1. \A q \in asm.image : q[1] < base'
        BY <1>1, <1>3, <1>4 DEF Assembled, SentAt
    <2>2. OfThisStart(asm.image)' => asm'.image = {}
      <3>1. base' \in Nat /\ \A q \in asm.image : q[1] \in Nat
          BY <1>1, <1>3, FrameNumbers
      <3>2. \A q \in asm.image : ~(q[1] >= base')
          BY <2>1, <3>1
      <3>3. QED
          BY <1>2, <3>2 DEF OfThisStart
    <2>3. \A q \in asm.image : SentAt(q, sent', part')
        BY <1>1, <2>1 DEF SentAt
    <2>4. QED
        BY <1>1, <1>2, <1>4, <2>2, <2>3, FrameNumbers DEF Assembled, Complete
<1>5. QED
    BY <1>1, <1>2, <1>4 DEF Sound, Rest

\* Good payloads.
LEMMA BulkPayloadSound ==
    ASSUME Sound, Rest, NEW data \in BOOLEAN, NEW short \in BOOLEAN, BulkPayload(data, short)
    PROVE  Sound' /\ Rest'
<1> DEFINE h == Headed(asm, sent, short)
           t == IF data THEN StoredBulk(h, Place) ELSE h
<1>1. /\ asm \in AsmType /\ sent \in Frames /\ part \in 1..(Parts + 1)
      /\ ~stream.iso /\ ~stream.isight /\ overrun' \in {"no", "dropped"}
      /\ Assembled(asm, sent, part, skipped)
      /\ UNCHANGED <<stream, starts, base, sent, skipped>>
    BY DEF Sound, Rest, BulkPayload, Sends
<1>2. /\ part' \in 1..(Parts + 1) /\ (data => part \in 1..Parts /\ part' = part + 1 /\ Place \in Places)
      /\ (~data => part' = part) /\ (HasEof(data) => part' = Parts + 1)
    BY SendsFacts DEF BulkPayload
<1>3. /\ h \in AsmType /\ h.fid = Fid(sent) /\ h.pts \in {0, sent}
      /\ Assembled(h, sent, part, skipped)
    BY <1>1, HeadedTyped, HeadedAssembled
<1>4. Settle(asm, sent, short, t, data /\ HasEof(data))
    BY DEF BulkPayload
<1> HIDE DEF h
<1>5. /\ t \in AsmType /\ Assembled(t, sent, part', skipped)
      /\ data => t.image # {}
    <2>1. CASE ~data
        BY <1>2, <1>3, <2>1
    <2>2. CASE data /\ Fits(h)
      <3>1. t = Appended(h, <<sent, part>>)
          BY <2>2 DEF StoredBulk, Place
      <3>2. Fits(h) /\ <<sent, part>> \in Places
          BY <1>2, <2>2 DEF Place
      <3>3. t \in AsmType /\ t.image # {}
          BY <1>3, <3>1, <3>2, AppendedTyped
      <3>4. QED
          BY <1>1, <1>2, <1>3, <2>2, <3>1, <3>3, AppendedAssembled
    <2>3. CASE data /\ ~Fits(h)
      <3>1. t = Marked(h)
          BY <2>3 DEF StoredBulk, Marked
      <3>2. h.image # {}
          BY <1>3, <2>3 DEF Fits, Assembled, AsmType
      <3>3. QED
          BY <1>1, <1>2, <1>3, <2>3, <3>1, <3>2, MarkedTyped, LostAssembled
    <2>4. QED
        BY <2>1, <2>2, <2>3
<1> HIDE DEF t
<1>6. /\ (data /\ HasEof(data)) \in BOOLEAN
      /\ data /\ HasEof(data) => t.image # {} /\ part' = Parts + 1
    BY <1>2, <1>5 DEF HasEof
<1>7. /\ asm' \in AsmType /\ published' \subseteq HandedType
      /\ Assembled(asm', sent, part', skipped)
      /\ \A g \in published' : HandedOK(g, skipped)
    BY <1>1, <1>2, <1>4, <1>5, <1>6, Settled
<1>8. QED
    BY <1>1, <1>2, <1>7, Carried DEF Sound

LEMMA IsoPayloadSound ==
    ASSUME Sound, Rest, NEW data \in BOOLEAN, NEW short \in BOOLEAN, IsoPayload(data, short)
    PROVE  Sound' /\ Rest'
<1> DEFINE h == Headed(asm, sent, short)
           fits == data => Fits(h)
           t == IF data /\ fits THEN Appended(h, Place) ELSE h
           ends == fits /\ HasEof(data) /\ t.got # 0
<1>1. /\ asm \in AsmType /\ sent \in Frames /\ part \in 1..(Parts + 1)
      /\ stream.iso /\ ~stream.isight
      /\ Assembled(asm, sent, part, skipped)
      /\ UNCHANGED <<stream, starts, base, sent, skipped>>
    BY DEF Sound, Rest, IsoPayload, Sends
<1>2. /\ part' \in 1..(Parts + 1) /\ (data => part \in 1..Parts /\ part' = part + 1 /\ Place \in Places)
      /\ (~data => part' = part) /\ (HasEof(data) => part' = Parts + 1)
    BY SendsFacts DEF IsoPayload
<1>3. /\ h \in AsmType /\ h.fid = Fid(sent) /\ h.pts \in {0, sent}
      /\ Assembled(h, sent, part, skipped)
    BY <1>1, HeadedTyped, HeadedAssembled
<1>4. /\ Settle(asm, sent, short, t, ends)
      /\ overrun' = IF fits THEN "no" ELSE "aborted"
    BY DEF IsoPayload
<1> HIDE DEF h
<1>5. t \in AsmType /\ (fits => Assembled(t, sent, part', skipped))
    <2>1. CASE ~data
        BY <1>2, <1>3, <2>1
    <2>2. CASE data /\ fits
      <3>1. t = Appended(h, <<sent, part>>)
          BY <2>2 DEF Place
      <3>2. Fits(h) /\ <<sent, part>> \in Places
          BY <1>2, <2>2 DEF Place
      <3>3. QED
          BY <1>1, <1>2, <1>3, <2>2, <3>1, <3>2, AppendedTyped, AppendedAssembled
    <2>3. CASE ~fits
        BY <1>3, <2>3
    <2>4. QED
        BY <2>1, <2>2, <2>3
<1> HIDE DEF t
<1>6. ends \in BOOLEAN /\ (ends => t.image # {} /\ part' = Parts + 1)
    BY <1>2, <1>5 DEF HasEof, Assembled
<1>7. /\ asm' \in AsmType /\ published' \subseteq HandedType
      /\ overrun' # "aborted" => Assembled(asm', sent, part', skipped)
      /\ \A g \in published' : HandedOK(g, skipped)
    <2>1. CASE fits
        BY <1>1, <1>2, <1>4, <1>5, <1>6, <2>1, Settled
    <2>2. CASE ~fits
      <3>1. /\ asm' \in AsmType /\ published' \subseteq HandedType
            /\ published' \subseteq IF Flips(asm, sent) THEN {Handed(asm)} ELSE {}
          BY <1>1, <1>4, <1>5, <2>2, HandedTyped DEF Settle, HandedAtFlip
      <3>2. \A g \in published' : HandedOK(g, skipped)
          BY <1>1, <3>1, HandedAtFlipOK
      <3>3. QED
          BY <1>4, <2>2, <3>1, <3>2
    <2>3. QED
        BY <2>1, <2>2
<1>8. QED
    BY <1>1, <1>2, <1>4, <1>7, Carried DEF Sound

\* iSight cameras: the header, and the data after it.
LEMMA IsightHeaderSound ==
    ASSUME Sound, Rest, NEW short \in BOOLEAN, IsightHeader(short)
    PROVE  Sound' /\ Rest'
<1> DEFINE h == Headed(asm, sent, short)
<1>1. /\ asm \in AsmType /\ sent \in Frames /\ part \in 1..(Parts + 1) /\ stream.isight
      /\ overrun' = "no" /\ UNCHANGED <<stream, starts, base, sent, skipped>>
    BY DEF Sound, Rest, IsightHeader, Sends
<1>2. part' \in 1..(Parts + 1)
    BY SendsFacts DEF IsightHeader
<1>3. h \in AsmType /\ (h.got = 0 \/ h.got = asm.got)
    BY <1>1, HeadedTyped
<1>4. Settle(asm, sent, short, h, FALSE)
    BY DEF IsightHeader
<1> HIDE DEF h
<1>5. asm' \in AsmType /\ published' \subseteq HandedType /\ asm'.got \in {0, h.got}
    BY <1>1, <1>3, <1>4, Settled
<1>6. QED
    BY <1>1, <1>2, <1>3, <1>5, Carried DEF Sound

LEMMA IsightDataSound == Sound /\ Rest /\ IsightData => Sound' /\ Rest'
<1> SUFFICES ASSUME Sound, Rest, IsightData PROVE Sound' /\ Rest'
    OBVIOUS
<1>1. /\ asm \in AsmType /\ stream.isight /\ Sends(TRUE)
      /\ UNCHANGED <<stream, starts, base, sent, skipped>>
    BY DEF Sound, IsightData, Sends
<1>2. part' \in 1..(Parts + 1) /\ Place \in Places
    BY <1>1, SendsFacts
<1>3. Fits(asm) => Appended(asm, Place) \in AsmType
    BY <1>1, <1>2, AppendedTyped
<1>4. CASE ~stream.iso
    <2>1. /\ asm' = StoredBulk(asm, Place) /\ published' = {}
          /\ overrun' \in {"no", "dropped"}
        BY <1>4 DEF IsightData
    <2>2. asm' \in AsmType
      <3>1. CASE Fits(asm)
          BY <1>3, <2>1, <3>1 DEF StoredBulk
      <3>2. CASE ~Fits(asm)
          BY <1>1, <2>1, <3>2, MarkedTyped DEF StoredBulk, Marked
      <3>3. QED
          BY <3>1, <3>2
    <2>3. QED
        BY <1>1, <1>2, <2>1, <2>2, Carried DEF Sound
<1>5. CASE stream.iso
    <2>1. overrun' \in {"no", "aborted"} /\ (Fits(asm) \/ (asm' = asm /\ published' = {}))
        BY <1>5 DEF IsightData
    <2>2. asm' \in AsmType /\ published' \subseteq HandedType
        BY <1>1, <1>3, <1>5, <2>1, SwappedTyped, HandedTyped DEF IsightData
    <2>3. QED
        BY <1>1, <1>2, <2>1, <2>2, Carried DEF Sound
<1>6. QED
    BY <1>4, <1>5

\* Bad payloads: the frame is marked, or the payload skipped.
LEMMA MarkedSound ==
    ASSUME Sound, Rest, NEW data \in BOOLEAN, Sends(data),
           asm' = Marked(asm), published' = {}, overrun' = "no", UNCHANGED skipped
    PROVE  Sound' /\ Rest'
<1>1. /\ asm \in AsmType /\ sent \in Frames /\ overrun # "aborted"
      /\ UNCHANGED <<stream, starts, base, sent, skipped>>
    BY DEF Sound, Rest, Sends
<1>2. /\ part' \in 1..(Parts + 1) /\ (data => part \in 1..Parts /\ part' = part + 1)
      /\ (~data => part' = part)
    BY SendsFacts
<1>3. asm' \in AsmType /\ asm'.got = asm.got
    BY <1>1, MarkedTyped
<1>4. ~stream.isight => Assembled(asm', sent, part', skipped)
    BY <1>1, <1>2, LostAssembled, MarkedAssembled DEF Sound
<1>5. QED
    BY <1>1, <1>2, <1>3, <1>4, Carried DEF Sound

LEMMA SkipSound ==
    ASSUME Sound, Rest, NEW data \in BOOLEAN, Skip(data)
    PROVE  Sound' /\ Rest'
<1>1. /\ asm \in AsmType /\ sent \in Frames /\ overrun # "aborted" /\ Sends(data)
      /\ skipped' = (IF data THEN skipped \cup {Place} ELSE skipped)
      /\ published' = {} /\ overrun' = "no"
      /\ UNCHANGED <<asm, stream, starts, base, sent>>
    BY DEF Sound, Rest, Skip, Sends
<1>2. /\ part' \in 1..(Parts + 1) /\ (~data => part' = part)
      /\ data => part \in 1..Parts /\ part' = part + 1 /\ Place \in Places
    BY <1>1, SendsFacts
<1>3. skipped' \subseteq Places
    BY <1>1, <1>2 DEF Sound
<1>4. ~stream.isight => Assembled(asm', sent, part', skipped')
    BY <1>1, <1>2, LostAssembled DEF Sound, Place
<1>5. QED
    BY <1>1, <1>2, <1>3, <1>4, Carried DEF Sound

LEMMA BogusSound == Sound /\ Rest /\ Bogus => Sound' /\ Rest'
<1> SUFFICES ASSUME Sound, Rest, Bogus PROVE Sound' /\ Rest'
    OBVIOUS
<1> DEFINE data == part <= Parts
           h    == Headed(asm, sent, FALSE)
<1>1. /\ asm \in AsmType /\ sent \in Frames /\ part \in 1..(Parts + 1)
      /\ data \in BOOLEAN /\ Sends(data) /\ ~stream.isight
      /\ Assembled(asm, sent, part, skipped) /\ overrun' = "no"
      /\ UNCHANGED <<stream, starts, base, sent, skipped>>
    BY DEF Sound, Rest, Bogus, Sends
<1>2. CASE ~stream.iso
    BY <1>1, <1>2, MarkedSound DEF Bogus
<1>3. CASE stream.iso
    <2>1. /\ part' \in 1..(Parts + 1) /\ (data => part \in 1..Parts /\ part' = part + 1)
          /\ (~data => part' = part)
        BY <1>1, SendsFacts
    <2>2. h \in AsmType /\ Assembled(h, sent, part, skipped)
      <3>1. FALSE \in BOOLEAN /\ part \in Nat
          BY <1>1
      <3>2. QED
          BY <1>1, <3>1, HeadedTyped, HeadedAssembled
    <2>3. Settle(asm, sent, FALSE, Marked(h), FALSE)
        BY <1>3 DEF Bogus
    <2> HIDE DEF h
    <2>4. Marked(h) \in AsmType /\ Assembled(Marked(h), sent, part', skipped)
      <3>1. CASE data
          BY <1>1, <2>1, <2>2, <3>1, MarkedTyped, LostAssembled
      <3>2. CASE ~data
          BY <2>1, <2>2, <3>2, MarkedTyped, MarkedAssembled
      <3>3. QED
          BY <3>1, <3>2
    <2>5. /\ asm' \in AsmType /\ published' \subseteq HandedType
          /\ Assembled(asm', sent, part', skipped)
          /\ \A g \in published' : HandedOK(g, skipped)
        BY <1>1, <2>1, <2>3, <2>4, Settled
    <2>6. QED
        BY <1>1, <1>3, <2>1, <2>5, Carried DEF Sound
<1>4. QED
    BY <1>2, <1>3

------------------------------------------------------------------------------
(* The theorems *)

LEMMA InitIInv == Init => IInv
<1> SUFFICES ASSUME Init PROVE Sound /\ Rest
    BY IInvParts
<1>1. /\ 0 \in 0..(SizeBuf - 1) /\ 0 \in 0..(MaxFrames + 2) /\ 0 \in {0, 1} /\ FALSE \in BOOLEAN
      /\ {} \in SUBSET Places
    OBVIOUS
<1>2. asm \in AsmType /\ asm.got = 0 /\ asm.image = {} /\ asm.pts = 0
    BY <1>1 DEF Init, AsmType
<1>3. Rest
    BY DEF Init, Rest, Frames
<1>4. Assembled(asm, sent, part, skipped)
    <2>1. sent \in Nat
        BY <1>3, FrameNumbers DEF Rest
    <2>2. QED
        BY <1>2, <2>1 DEF Assembled, Complete
<1>5. /\ published = {} /\ overrun = "no" /\ skipped \subseteq Places /\ part \in 1..(Parts + 1)
    BY DEF Init
<1> HIDE PayloadAssumption, HandoffAssumption
<1>6. QED
    BY <1>2, <1>3, <1>4, <1>5 DEF Sound

LEMMA IInvStep == IInv /\ [Next]_vars => IInv'
<1> SUFFICES ASSUME Sound, Rest, [Next]_vars PROVE Sound' /\ Rest'
    BY DEF IInv, TypeOK, Sound, Rest, AsmType, HandedType
<1>1. CASE NewFrame
    BY <1>1, NewFrameSound
<1>2. CASE Restart
    BY <1>2, RestartSound
<1>3. ASSUME NEW data \in BOOLEAN, NEW short \in BOOLEAN, BulkPayload(data, short)
      PROVE  Sound' /\ Rest'
    BY <1>3, BulkPayloadSound
<1>4. ASSUME NEW data \in BOOLEAN, NEW short \in BOOLEAN, IsoPayload(data, short)
      PROVE  Sound' /\ Rest'
    BY <1>4, IsoPayloadSound
<1>5. ASSUME NEW short \in BOOLEAN, IsightHeader(short) PROVE Sound' /\ Rest'
    BY <1>5, IsightHeaderSound
<1>6. CASE IsightData
    BY <1>6, IsightDataSound
<1>7. ASSUME NEW data \in BOOLEAN, BadStatus(data) PROVE Sound' /\ Rest'
    BY <1>7, MarkedSound DEF BadStatus
<1>8. ASSUME NEW data \in BOOLEAN, ErrorBit(data) \/ Retried(data) PROVE Sound' /\ Rest'
    BY <1>8, SkipSound DEF ErrorBit, Retried
<1>9. CASE Bogus
    BY <1>9, BogusSound
<1>10. CASE UNCHANGED vars
    <2>1. ~stream.isight /\ overrun' # "aborted" => Assembled(asm, sent, part, skipped)'
        BY <1>10 DEF vars, Sound, Assembled, Complete, OfThisStart
    <2>2. ~stream.isight => \A h \in published' : HandedOK(h, skipped)'
        BY <1>10 DEF vars, Sound, HandedOK, OfThisStart
    <2>3. QED
        BY <1>10, <2>1, <2>2 DEF vars, Sound, Rest
<1>11. {FALSE, "short" \in Faults} \subseteq BOOLEAN
    <2>1. ("short" \in Faults) \in BOOLEAN
        OBVIOUS
    <2>2. QED
        BY <2>1
<1>12. QED
    BY <1>1, <1>2, <1>3, <1>4, <1>5, <1>6, <1>7, <1>8, <1>9, <1>10, <1>11 DEF Next

LEMMA IInvHolds == Spec => []IInv
    BY InitIInv, IInvStep, PTL DEF Spec

\* The fields of the handle keep their types; got_bytes never passes the end of outbuf.
THEOREM TypeCorrect == Spec => []TypeOK
<1>1. IInv => TypeOK
    BY DEF IInv
<1>2. QED
    BY <1>1, IInvHolds, PTL

------------------------------------------------------------------------------
(* The room in the buffer *)

\* Of the frame the camera is sending, the buffer has no more than what was sent of it.
Room(s, f, p) == /\ s.image = {} => s.got = 0
                 /\ \A q \in s.image : q[1] <= f
                 /\ (\A q \in s.image : q[1] = f) => s.got <= p - 1

RoomInv == Room(asm, sent, part) /\ OneFrameFits

LEMMA HeadedRoom ==
    ASSUME NEW s \in AsmType, NEW f \in Frames, NEW p \in 1..(Parts + 1), NEW short \in BOOLEAN,
           Room(s, f, p)
    PROVE  Room(Headed(s, f, short), f, p)
<1>1. CASE Flips(s, f)
    BY <1>1, HeadedTyped DEF Room
<1>2. CASE ~Flips(s, f)
    BY <1>2, HeadedTyped DEF Room
<1>3. QED
    BY <1>1, <1>2

LEMMA AppendedRoom ==
    ASSUME NEW s \in AsmType, NEW f \in Frames, NEW p \in 1..Parts, Fits(s), Room(s, f, p)
    PROVE  Room(Appended(s, <<f, p>>), f, p + 1)
<1>1. /\ Appended(s, <<f, p>>).got = s.got + 1 /\ s.got \in Nat
      /\ Appended(s, <<f, p>>).image = s.image \cup {<<f, p>>} /\ f \in Nat
    BY AppendedTyped, PlaceFacts, FrameNumbers DEF AsmType
<1>2. QED
    BY <1>1 DEF Room

\* The camera goes on, or a swap clears the buffer.
LEMMA LaterRoom ==
    ASSUME NEW s \in AsmType, NEW f \in Frames, NEW p \in 1..(Parts + 1), Room(s, f, p)
    PROVE  /\ Room(s, f, p + 1) /\ Room(Marked(s), f, p) /\ Room(Marked(s), f, p + 1)
           /\ Room(Swapped(s), f, p)
<1>1. s.got \in Nat
    BY DEF AsmType
<1>2. QED
    BY <1>1, SwappedTyped, MarkedTyped DEF Room

\* Where data does not fit there is an earlier frame.
LEMMA FullOfEarlier ==
    ASSUME NEW s \in AsmType, NEW f \in Frames, NEW p \in 1..Parts, ~Fits(s), Room(s, f, p)
    PROVE  \E q \in s.image : q[1] # f
<1>1. s.got \in Nat /\ s.got + 1 >= SizeBuf
    BY DEF AsmType, Fits
<1>2. ~(s.got <= p - 1)
    BY <1>1
<1>3. QED
    BY <1>2 DEF Room

LEMMA SettledRoom ==
    ASSUME NEW short \in BOOLEAN, NEW t \in AsmType, NEW ends \in BOOLEAN,
           NEW p \in 1..(Parts + 1), sent \in Frames,
           Settle(asm, sent, short, t, ends), Room(t, sent, p)
    PROVE  /\ Room(asm', sent, p)
           /\ Handed(t) \in published' \cup {Handed(asm')}
<1>1. asm' = (IF ends THEN Swapped(t) ELSE t) /\ (ends => Handed(t) \in published')
    BY DEF Settle
<1>2. Room(asm', sent, p)
    BY <1>1, LaterRoom
<1>3. QED
    BY <1>1, <1>2

LEMMA RoomStep == Sound /\ Rest /\ RoomInv /\ [Next]_vars => RoomInv'
<1> SUFFICES ASSUME Sound, Rest, RoomInv, [Next]_vars PROVE RoomInv'
    OBVIOUS
<1>0. /\ asm \in AsmType /\ sent \in Frames /\ part \in 1..(Parts + 1) /\ Room(asm, sent, part)
      /\ sent \in Nat /\ part \in Nat /\ asm.got \in Nat /\ asm.image \subseteq Places
      /\ \A q \in Places : q[1] \in Nat
    BY FrameNumbers, PlaceFacts DEF Sound, Rest, RoomInv, AsmType
<1>1. CASE NewFrame
    <2>1. sent' = sent + 1 /\ part' = 1 /\ part = Parts + 1 /\ asm' = asm /\ overrun' = "no"
        BY <1>1 DEF NewFrame
    <2>2. (\A q \in asm.image : q[1] = sent + 1) => asm.image = {}
        BY <1>0 DEF Room
    <2>3. QED
        BY <1>0, <2>1, <2>2 DEF RoomInv, Room, OneFrameFits
<1>2. CASE Restart
    <2>1. /\ sent' \in Nat /\ sent' > sent /\ part' = 1 /\ overrun' = "no"
          /\ asm'.image = asm.image /\ asm'.got = asm.got
        BY <1>0, <1>2 DEF Restart, AsmType
    <2>2. (\A q \in asm.image : q[1] = sent') => asm.image = {}
        BY <1>0, <2>1 DEF Room
    <2>3. QED
        BY <1>0, <2>1, <2>2 DEF RoomInv, Room, OneFrameFits
<1>3. ASSUME NEW data \in BOOLEAN, NEW short \in BOOLEAN, BulkPayload(data, short)
      PROVE  RoomInv'
    <2> DEFINE h == Headed(asm, sent, short)
               t == IF data THEN StoredBulk(h, Place) ELSE h
               ends == data /\ HasEof(data)
    <2>1. /\ Settle(asm, sent, short, t, ends) /\ UNCHANGED sent /\ Sends(data)
          /\ overrun' = IF data /\ ~Fits(h) THEN "dropped" ELSE "no"
        BY <1>3 DEF BulkPayload, Sends
    <2>2. /\ part' \in 1..(Parts + 1) /\ (~data => part' = part)
          /\ data => part \in 1..Parts /\ part' = part + 1 /\ Place \in Places
        BY <2>1, SendsFacts
    <2>3. h \in AsmType /\ Room(h, sent, part)
        BY <1>0, HeadedTyped, HeadedRoom
    <2>4. ends \in BOOLEAN
        BY DEF HasEof
    <2> HIDE DEF h, ends
    <2>5. t \in AsmType /\ Room(t, sent, part')
      <3>1. CASE ~data
          BY <2>2, <2>3, <3>1
      <3>2. CASE data /\ Fits(h)
          BY <1>0, <2>2, <2>3, <3>2, AppendedTyped, AppendedRoom DEF StoredBulk, Place
      <3>3. CASE data /\ ~Fits(h)
          BY <1>0, <2>2, <2>3, <3>3, MarkedTyped, LaterRoom DEF StoredBulk, Marked
      <3>4. QED
          BY <3>1, <3>2, <3>3
    <2>6. data /\ ~Fits(h) => t.image = h.image /\ \E q \in h.image : q[1] # sent
        BY <1>0, <2>2, <2>3, MarkedTyped, FullOfEarlier DEF StoredBulk, Marked
    <2> HIDE DEF t
    <2>7. Room(asm', sent, part') /\ Handed(t) \in published' \cup {Handed(asm')}
        BY <1>0, <2>1, <2>2, <2>4, <2>5, SettledRoom
    <2>8. OneFrameFits'
        BY <2>1, <2>6, <2>7 DEF OneFrameFits, Handed
    <2>9. QED
        BY <2>1, <2>7, <2>8 DEF RoomInv, Room
<1>4. ASSUME NEW data \in BOOLEAN, NEW short \in BOOLEAN, IsoPayload(data, short)
      PROVE  RoomInv'
    <2> DEFINE h == Headed(asm, sent, short)
               fits == data => Fits(h)
               t == IF data /\ fits THEN Appended(h, Place) ELSE h
               ends == fits /\ HasEof(data) /\ t.got # 0
    <2>1. /\ Settle(asm, sent, short, t, ends) /\ UNCHANGED sent /\ Sends(data)
          /\ overrun' = IF fits THEN "no" ELSE "aborted"
        BY <1>4 DEF IsoPayload, Sends
    <2>2. /\ part' \in 1..(Parts + 1) /\ (~data => part' = part)
          /\ data => part \in 1..Parts /\ part' = part + 1 /\ Place \in Places
        BY <2>1, SendsFacts
    <2>3. h \in AsmType /\ Room(h, sent, part)
        BY <1>0, HeadedTyped, HeadedRoom
    <2>4. ends \in BOOLEAN
        BY DEF HasEof
    <2> HIDE DEF h
    <2>5. t \in AsmType /\ Room(t, sent, part')
      <3>1. CASE ~data
          BY <2>2, <2>3, <3>1
      <3>2. CASE data /\ fits
          BY <1>0, <2>2, <2>3, <3>2, AppendedTyped, AppendedRoom DEF Place
      <3>3. CASE ~fits
          BY <1>0, <2>2, <2>3, <3>3, LaterRoom
      <3>4. QED
          BY <3>1, <3>2, <3>3
    <2>6. ~fits => t = h /\ \E q \in h.image : q[1] # sent
        BY <1>0, <2>2, <2>3, FullOfEarlier
    <2> HIDE DEF t, ends, fits
    <2>7. Room(asm', sent, part') /\ Handed(t) \in published' \cup {Handed(asm')}
        BY <1>0, <2>1, <2>2, <2>4, <2>5, SettledRoom
    <2>8. OneFrameFits'
        BY <2>1, <2>6, <2>7 DEF OneFrameFits, Handed
    <2>9. QED
        BY <2>1, <2>7, <2>8 DEF RoomInv, Room
<1>5. ASSUME NEW short \in BOOLEAN, IsightHeader(short) PROVE RoomInv'
    <2> DEFINE h == Headed(asm, sent, short)
    <2>1. asm' = h /\ overrun' = "no" /\ UNCHANGED sent /\ part' = part
        BY <1>5 DEF IsightHeader, Settle, Sends
    <2>2. Room(h, sent, part)
        BY <1>0, HeadedRoom
    <2>3. QED
        BY <2>1, <2>2 DEF RoomInv, OneFrameFits, Room
<1>6. CASE IsightData
    <2>1. /\ part \in 1..Parts /\ part' = part + 1 /\ UNCHANGED sent /\ part + 1 \in 1..(Parts + 1)
        BY <1>0, <1>6 DEF IsightData, Sends
    <2> DEFINE t == Appended(asm, <<sent, part>>)
    <2>2. CASE Fits(asm)
      <3>1. t \in AsmType /\ Room(t, sent, part + 1)
          BY <1>0, <2>1, <2>2, PlaceFacts, AppendedTyped, AppendedRoom
      <3>2. Room(Swapped(t), sent, part + 1)
          BY <1>0, <2>1, <3>1, LaterRoom
      <3>3. (asm' = t \/ asm' = Swapped(t)) /\ overrun' = "no"
          BY <1>6, <2>2 DEF IsightData, StoredBulk, Place
      <3> HIDE DEF t
      <3>4. QED
          BY <2>1, <3>1, <3>2, <3>3 DEF RoomInv, OneFrameFits, Room
    <2>3. CASE ~Fits(asm)
      <3>1. asm' = Marked(asm) \/ asm' = asm
          BY <1>6, <2>3 DEF IsightData, StoredBulk, Marked
      <3>2. Room(asm', sent, part + 1) /\ Handed(asm').image = asm.image
          BY <1>0, <3>1, LaterRoom, MarkedTyped DEF Handed
      <3>3. \E q \in asm.image : q[1] # sent
          BY <1>0, <2>1, <2>3, FullOfEarlier
      <3>4. QED
          BY <2>1, <3>2, <3>3 DEF RoomInv, OneFrameFits, Room
    <2>4. QED
        BY <2>2, <2>3
<1>7. ASSUME NEW data \in BOOLEAN, BadStatus(data) \/ ErrorBit(data) \/ Retried(data) PROVE RoomInv'
    <2>1. /\ Sends(data) /\ overrun' = "no" /\ UNCHANGED sent
          /\ asm' = Marked(asm) \/ asm' = asm
        BY <1>7 DEF BadStatus, ErrorBit, Retried, Skip, Sends
    <2>2. part' \in {part, part + 1}
        BY <2>1 DEF Sends
    <2>3. Room(asm', sent, part')
        BY <1>0, <2>1, <2>2, LaterRoom
    <2>4. QED
        BY <2>1, <2>3 DEF RoomInv, OneFrameFits, Room
<1>8. CASE Bogus
    <2> DEFINE h == Headed(asm, sent, FALSE)
    <2>1. /\ overrun' = "no" /\ UNCHANGED sent /\ part' \in {part, part + 1}
          /\ asm' = Marked(asm) \/ asm' = Marked(h)
        BY <1>8 DEF Bogus, Sends, Settle
    <2>2. h \in AsmType /\ Room(h, sent, part)
        BY <1>0, HeadedTyped, HeadedRoom
    <2> HIDE DEF h
    <2>3. Room(asm', sent, part')
        BY <1>0, <2>1, <2>2, LaterRoom
    <2>4. QED
        BY <2>1, <2>3 DEF RoomInv, OneFrameFits, Room
<1>9. CASE UNCHANGED vars
    BY <1>9 DEF vars, RoomInv, Room, OneFrameFits
<1>10. {FALSE, "short" \in Faults} \subseteq BOOLEAN
    <2>1. ("short" \in Faults) \in BOOLEAN
        OBVIOUS
    <2>2. QED
        BY <2>1
<1>11. QED
    BY <1>1, <1>2, <1>3, <1>4, <1>5, <1>6, <1>7, <1>8, <1>9, <1>10 DEF Next

\* No camera frame overruns outbuf by itself: data has no room only behind that of an earlier
\* frame, whose end was lost or which a start left there.
THEOREM OneFrameAlwaysFits == Spec => []OneFrameFits
<1>1. Init => RoomInv
    BY FrameNumbers DEF Init, RoomInv, Room, OneFrameFits
<1>2. IInv /\ RoomInv /\ [Next]_vars => RoomInv'
    BY RoomStep, IInvParts
<1>3. RoomInv => OneFrameFits
    BY DEF RoomInv
<1>4. QED
    BY <1>1, <1>2, <1>3, IInvHolds, PTL DEF Spec

------------------------------------------------------------------------------
(* What is in a frame *)

\* What bad and bogus packets and data without room take away from the middle or the end of a
\* frame is marked; what is missing from an unmarked frame the code skipped: iso packets with
\* the error bit, transfers with an error status (_uvc_process_payload_iso, _uvc_stream_callback).
THEOREM GapsAreMarked == Spec => []GapsAreMarkedOrSkipped
<1>1. IInv => GapsAreMarkedOrSkipped
    BY DEF IInv, GapsAreMarkedOrSkipped, HandedOK
<1>2. QED
    BY <1>1, IInvHolds, PTL

\* The frame id keeps neighbouring camera frames apart: two are in one unmarked frame only if
\* the one between them was skipped as a whole.
THEOREM UnmarkedIsOneFrameHolds == Spec => []UnmarkedIsOneFrame
<1>1. IInv => UnmarkedIsOneFrame
    BY DEF IInv, UnmarkedIsOneFrame, HandedOK
<1>2. QED
    BY <1>1, IInvHolds, PTL

\* The time stamp of an unmarked frame is not that of the header that ended it.
THEOREM TimeStampFitsHolds == Spec => []TimeStampFits
<1>1. IInv => TimeStampFits
    BY DEF IInv, TimeStampFits, HandedOK
<1>2. QED
    BY <1>1, IInvHolds, PTL

\* Where no packet has the error bit and no transfer is retried, a frame without the error mark
\* is one camera frame, complete from its first part on, with its own time stamp or none.
THEOREM CompleteUnlessSkipped ==
    ASSUME "error_bit" \notin Faults, "retried" \notin Faults
    PROVE  Spec => []UnmarkedIsComplete
<1> DEFINE NoneSkipped == skipped = {}
<1>1. Init => NoneSkipped
    BY DEF Init
<1>2. NoneSkipped /\ [Next]_vars => NoneSkipped'
    BY DEF Next, NewFrame, Restart, BulkPayload, IsoPayload, IsightHeader, IsightData, BadStatus,
       Bogus, ErrorBit, Retried, vars
<1>3. IInv /\ NoneSkipped => UnmarkedIsComplete
    <2> SUFFICES ASSUME IInv, NoneSkipped, NEW h \in published, ~h.err, ~stream.isight,
                        OfThisStart(h.image), NEW q \in h.image
                 PROVE  /\ h.pts \in {0, q[1]}
                        /\ \A l \in h.image : q[1] = l[1]
                        /\ \A r \in Places : Before(q, r) /\ r[1] = q[1] => r \in h.image
        BY DEF UnmarkedIsComplete
    <2>1. /\ \A k, l \in h.image : \A r \in Places : Before(k, r) /\ r[1] <= l[1] => r \in h.image
          /\ \A k, l \in h.image : k[1] < l[1] => {k[1] + 1} \X (1..Parts) \subseteq {}
          /\ \/ h.pts = 0
             \/ \E k \in h.image : k[1] = h.pts
             \/ {h.pts} \X (1..Parts) \subseteq {}
        BY DEF IInv, HandedOK
    <2>2. h.image \subseteq Places /\ \A k \in Places : k[1] \in Nat
        BY PlaceFacts, FrameNumbers DEF IInv, TypeOK
    <2>3. \A n : <<n, 1>> \in {n} \X (1..Parts)
        OBVIOUS
    <2>4. \A k, l \in h.image : ~(k[1] < l[1])
        BY <2>1, <2>3
    <2>5. \A l \in h.image : q[1] = l[1]
        BY <2>2, <2>4
    <2>6. h.pts \in {0, q[1]}
        BY <2>1, <2>3, <2>5
    <2>7. QED
        BY <2>1, <2>2, <2>5, <2>6
<1>4. QED
    BY <1>1, <1>2, <1>3, IInvHolds, PTL DEF Spec
------------------------------------------------------------------------------
(* The hand-off: the invariant *)

\* The flag of the frame in outbuf tells of what was lost of it since the start.
FlagTells == bfhErr <=> flaw = "lost"

\* The held frame was finished before it was swapped in, or none was ever held and no
\* reader takes a sequence number for news; its own flag came with it.
HeldFinished ==
    /\ FlagTells
    /\ buf[Hold].flaw = "lost" => holdErr
    /\ ~buf[Hold].done => holdSeq = 0 /\ lastSeq = 0 /\ lastPolled = 0

\* What was shown is not ahead of strmh->frame, that is not ahead of holdbuf, and what is
\* being filled is ahead of it.
InOrder ==
    /\ \A b \in Buffers : buf[b].number <= captured
    /\ got => buf[Hold].number < buf[out].number
    /\ frame.image.number <= buf[Hold].number
    /\ shown["callback"] <= frame.image.number
    /\ shown["poll"] <= buf[Hold].number

\* A poller to whom the held frame may be news has not been given it.
PollUnseen == lastPolled = holdSeq \/ shown["poll"] < buf[Hold].number

\* During the first start and before any error the user thread has not shown a frame it
\* takes for news or has taken.
CallUnseen ==
    /\ ~spoiled => ~holdErr
    /\ FlagTells
    /\ started = 0 => phase = "stopped" /\ holdSeq = 0 /\ lastSeq = 0
    /\ user # "none" => ~polling
    /\ user # "none" /\ started = 1 /\ ~spoiled =>
         /\ lastSeq = holdSeq \/ shown["callback"] < buf[Hold].number
         /\ user = "taken" =>
              /\ shown["callback"] < frame.image.number
              /\ lastSeq = holdSeq \/ frame.image.number < buf[Hold].number

\* The inductive invariant.
HandoffInv == HandoffTypeOK /\ FrameIntact /\ HeldFinished /\ InOrder /\ PollUnseen /\ CallUnseen

------------------------------------------------------------------------------
(* Types *)

\* The next sequence number is a sequence number again.
LEMMA NextSeqRange == \A n \in Nat : NextSeq(n) \in 0..(SeqMod - 1)
BY SMT DEF NextSeq

LEMMA EmptyContents == Empty \in Contents
BY DEF Empty, Contents, Flaws

LEMMA HandoffTypeInit == HandoffInit => HandoffTypeOK
<1> SUFFICES ASSUME HandoffInit PROVE HandoffTypeOK
    OBVIOUS
<1>1. buf \in [Buffers -> Contents]
      BY EmptyContents DEF HandoffInit
<1>2. frame \in [image : Contents, bytes : BOOLEAN]
      BY EmptyContents DEF HandoffInit
<1>3. shown \in [Readers -> 0..MaxCaptured]
      BY DEF HandoffInit
<1>4. out \in Buffers
      BY DEF HandoffInit, Buffers
<1>5. /\ seq \in 0..(SeqMod - 1) /\ holdSeq \in 0..(SeqMod - 1)
      /\ lastSeq \in 0..(SeqMod - 1) /\ lastPolled \in 0..(SeqMod - 1)
      BY DEF HandoffInit
<1>6. started \in 0..MaxStarted /\ captured \in 0..MaxCaptured
      BY DEF HandoffInit
<1>7. flaw \in Flaws
      BY DEF HandoffInit, Flaws
<1>8. QED
      BY <1>1, <1>2, <1>3, <1>4, <1>5, <1>6, <1>7, Zenon DEF HandoffInit, HandoffTypeOK

LEMMA HandoffTypeStep == HandoffTypeOK /\ [HandoffNext]_handoffVars => HandoffTypeOK'
<1> SUFFICES ASSUME HandoffTypeOK, [HandoffNext]_handoffVars PROVE HandoffTypeOK'
    OBVIOUS
<1>0. Hold \in Buffers /\ Populated \in [image : Contents, bytes : BOOLEAN]
  <2>1. Hold \in Buffers
        BY DEF HandoffTypeOK, Hold, Buffers
  <2>2. QED
        BY <2>1 DEF HandoffTypeOK, Populated
<1> USE DEF HandoffTypeOK
<1>1. CASE Start
  <2>1. polling' \in BOOLEAN
        BY <1>1 DEF Start
  <2>2. started' \in 0..MaxStarted /\ seq' \in 0..(SeqMod - 1)
        BY <1>1 DEF Start
  <2>3. lastSeq' \in 0..(SeqMod - 1) /\ user' \in {"none", "check"}
        BY <1>1 DEF Start
  <2>4. flaw' \in Flaws
        BY <1>1 DEF Start, Flaws
  <2>5. QED
        BY <1>1, <2>1, <2>2, <2>3, <2>4 DEF Start
<1>2. CASE Stop
      BY <1>2 DEF Stop, writerVars, readerVars
<1>3. CASE Stopped
      BY <1>3 DEF Stopped, writerVars
<1>4. CASE Fill
      BY <1>4 DEF Fill, readerVars, Contents
<1>5. CASE Spoil
      BY <1>5 DEF Spoil, readerVars, Flaws
<1>6. CASE SwapBuffers
  <2>1. seq' \in 0..(SeqMod - 1)
        BY <1>6, NextSeqRange DEF SwapBuffers
  <2>2. flaw' \in Flaws
        BY <1>6 DEF SwapBuffers, Flaws
  <2>3. buf' \in [Buffers -> Contents]
        BY <1>6 DEF SwapBuffers, Contents
  <2>4. spoiled' \in BOOLEAN
        BY <1>6, Zenon DEF SwapBuffers
  <2>5. QED
        BY <1>6, <2>1, <2>2, <2>3, <2>4, <1>0 DEF SwapBuffers, SwapOut, HoldErrOfFrame, readerVars
<1>7. CASE Reader
      BY <1>7, <1>0 DEF Reader, UserLeaves, UserTakes, UserCalls, UserSkips, UserReturns,
                  SeenSeq, writerVars, Readers, Contents
<1>8. CASE PollTakes
      BY <1>8, <1>0 DEF PollTakes, writerVars, Contents
<1>9. CASE UNCHANGED handoffVars
      BY <1>9 DEF handoffVars
<1>10. QED
      BY <1>1, <1>2, <1>3, <1>4, <1>5, <1>6, <1>7, <1>8, <1>9 DEF HandoffNext, Writer

\* Every variable of the hand-off stays in its range; sequence numbers wrap.
THEOREM HandoffTypeCorrect == HandoffSpec => []HandoffTypeOK
BY HandoffTypeInit, HandoffTypeStep, PTL DEF HandoffSpec

------------------------------------------------------------------------------
(* The inductive invariant *)

LEMMA HandoffInvInit == HandoffInit => HandoffInv
<1> SUFFICES ASSUME HandoffInit PROVE HandoffInv
    OBVIOUS
<1>1. HandoffTypeOK
      BY HandoffTypeInit
<1>2. FrameIntact
      BY DEF HandoffInit, FrameIntact
<1>3. HeldFinished
      BY DEF HandoffInit, HeldFinished, FlagTells, Hold, Buffers, Empty
<1>4. InOrder
      BY DEF HandoffInit, InOrder, Hold, Buffers, Readers, Empty
<1>5. PollUnseen
      BY DEF HandoffInit, PollUnseen
<1>6. CallUnseen
      BY DEF HandoffInit, CallUnseen, FlagTells
<1>7. QED
      BY <1>1, <1>2, <1>3, <1>4, <1>5, <1>6 DEF HandoffInv

\* A swap exchanges the two buffers and marks the one it hands over; the writer touches
\* no other.
LEMMA SwapFacts ==
    ASSUME HandoffTypeOK, SwapBuffers
    PROVE  /\ Hold' = out /\ out' = Hold /\ out # Hold
           /\ buf'[Hold'].number = buf[out].number /\ buf'[out'] = buf[Hold]
           /\ buf'[Hold'].done /\ buf'[Hold'].flaw = flaw
<1>1. Hold' = out /\ out' = Hold /\ out # Hold
      BY DEF HandoffTypeOK, SwapBuffers, SwapOut, Hold, Buffers
<1>2. buf[out] \in Contents /\ buf[Hold] \in Contents /\ Hold \in Buffers /\ out \in Buffers
      BY DEF HandoffTypeOK, Hold, Buffers
<1>3. buf' = [buf EXCEPT ![out] = [number |-> buf[out].number, done |-> TRUE, flaw |-> flaw]]
      BY DEF SwapBuffers
<1>4. QED
      BY <1>1, <1>2, <1>3 DEF HandoffTypeOK, Contents

LEMMA FillFacts ==
    ASSUME HandoffTypeOK, Fill
    PROVE  /\ Hold' = Hold /\ out' = out /\ out # Hold
           /\ buf'[Hold] = buf[Hold] /\ buf'[out].number = captured + 1
<1>1. Hold' = Hold /\ out' = out /\ out # Hold /\ Hold \in Buffers /\ out \in Buffers
      BY DEF HandoffTypeOK, Fill, Hold, Buffers
<1>2. QED
      BY <1>1 DEF HandoffTypeOK, Fill

LEMMA HeldStep == HandoffTypeOK /\ HeldFinished /\ [HandoffNext]_handoffVars => HeldFinished'
<1> SUFFICES ASSUME HandoffTypeOK, HeldFinished, [HandoffNext]_handoffVars PROVE HeldFinished'
    OBVIOUS
<1> USE DEF HeldFinished, FlagTells
<1>1. CASE Start
      BY <1>1 DEF Start, Hold
<1>2. CASE Fill
      BY <1>2, FillFacts DEF Fill, readerVars
<1>3. CASE SwapBuffers
  <2>1. buf'[Hold'].done /\ buf'[Hold'].flaw = flaw
        BY <1>3, SwapFacts
  <2>2. holdErr' = bfhErr /\ ~bfhErr' /\ flaw' = "none"
        BY <1>3 DEF SwapBuffers, HoldErrOfFrame
  <2>3. QED
        BY <2>1, <2>2
<1>4. CASE Reader
      BY <1>4 DEF Reader, UserLeaves, UserTakes, UserCalls, UserSkips, UserReturns, SeenSeq,
                  HasNew, writerVars, Hold
<1>5. CASE PollTakes
      BY <1>5 DEF PollTakes, Newer, HandoffTypeOK, writerVars, Hold
<1>6. CASE Stop \/ Stopped \/ Spoil \/ UNCHANGED handoffVars
      BY <1>6 DEF Stop, Stopped, Spoil, handoffVars, writerVars, readerVars, Hold
<1>7. QED
      BY <1>1, <1>2, <1>3, <1>4, <1>5, <1>6 DEF HandoffNext, Writer

LEMMA IntactStep == HandoffTypeOK /\ HeldFinished /\ FrameIntact /\ [HandoffNext]_handoffVars => FrameIntact'
<1> SUFFICES ASSUME HandoffTypeOK, HeldFinished, FrameIntact, [HandoffNext]_handoffVars PROVE FrameIntact'
    OBVIOUS
<1> USE DEF FrameIntact
<1>1. CASE UserTakes
  <2>1. buf[Hold].done
        BY <1>1 DEF UserTakes, HasNew, HeldFinished
  <2>2. buf[Hold].flaw = "lost" => holdErr
        BY DEF HeldFinished
  <2>3. frame' = frame \/ (frame'.image = buf[Hold] /\ frame'.bytes = ~holdErr)
        BY <1>1 DEF UserTakes, Populated
  <2>4. QED
        BY <2>1, <2>2, <2>3
<1>2. CASE PollTakes
  <2>1. holdSeq # 0
        BY <1>2 DEF PollTakes, Newer, HandoffTypeOK
  <2>2. buf[Hold].done /\ (buf[Hold].flaw = "lost" => holdErr)
        BY <2>1 DEF HeldFinished
  <2>3. frame'.image = buf[Hold] /\ frame'.bytes = ~holdErr
        BY <1>2 DEF PollTakes, Populated
  <2>4. QED
        BY <2>2, <2>3
<1>3. CASE UNCHANGED frame
      BY <1>3
<1>4. QED
      BY <1>1, <1>2, <1>3 DEF HandoffNext, Start, Stop, Stopped, Writer, Fill, Spoil, SwapBuffers,
           Reader, UserLeaves, UserCalls, UserSkips, UserReturns, readerVars, handoffVars

\* A frame that has a length was finished when a reader took it, and nothing was lost of it
\* but what a start forgot.
THEOREM FramesIntact == HandoffSpec => []FrameIntact
<1> DEFINE Inv == HandoffTypeOK /\ HeldFinished /\ FrameIntact
<1>1. HandoffInit => Inv
      BY HandoffInvInit DEF HandoffInv
<1>2. Inv /\ [HandoffNext]_handoffVars => Inv'
      BY HandoffTypeStep, HeldStep, IntactStep
<1>3. Inv => FrameIntact
      OBVIOUS
<1>4. QED
      BY <1>1, <1>2, <1>3, PTL DEF HandoffSpec

------------------------------------------------------------------------------
(* The order of frames *)

\* The numbers the order is about are natural numbers.
LEMMA HandoffNumbers ==
    ASSUME HandoffTypeOK
    PROVE  /\ \A b \in Buffers : buf[b].number \in Nat
           /\ Hold \in Buffers /\ out \in Buffers /\ out # Hold
           /\ frame.image.number \in Nat /\ captured \in Nat
           /\ shown["callback"] \in Nat /\ shown["poll"] \in Nat
<1>1. Hold \in Buffers /\ out \in Buffers /\ out # Hold
      BY DEF HandoffTypeOK, Hold, Buffers
<1>2. \A b \in Buffers : buf[b].number \in Nat
      BY DEF HandoffTypeOK, Contents
<1>3. frame.image.number \in Nat
      BY DEF HandoffTypeOK, Contents
<1>4. QED
      BY <1>1, <1>2, <1>3 DEF HandoffTypeOK, Readers

LEMMA OrderStep == HandoffTypeOK /\ InOrder /\ [HandoffNext]_handoffVars => InOrder'
<1> SUFFICES ASSUME HandoffTypeOK, InOrder, [HandoffNext]_handoffVars PROVE InOrder'
    OBVIOUS
<1> USE HandoffNumbers
<1>1. CASE Fill
  <2>1. /\ buf'[Hold'] = buf[Hold] /\ buf'[out'].number = captured + 1 /\ captured' = captured + 1
        /\ Hold' = Hold /\ out' = out
        BY <1>1, FillFacts DEF Fill
  <2>2. \A b \in Buffers : b = out \/ b = Hold
        BY DEF Buffers, Hold, HandoffTypeOK
  <2>3. \A b \in Buffers : buf'[b].number <= captured'
        BY <2>1, <2>2 DEF InOrder
  <2>4. buf'[Hold'].number < buf'[out'].number
        BY <2>1 DEF InOrder
  <2>5. frame' = frame /\ shown' = shown
        BY <1>1 DEF Fill, readerVars
  <2>6. QED
        BY <2>1, <2>3, <2>4, <2>5 DEF InOrder
<1>2. CASE SwapBuffers
  <2>1. /\ Hold' = out /\ out' = Hold
        /\ buf'[Hold'].number = buf[out].number /\ buf'[out'] = buf[Hold]
        BY <1>2, SwapFacts
  <2>2. captured' = captured /\ frame' = frame /\ shown' = shown /\ got /\ ~got'
        BY <1>2 DEF SwapBuffers, readerVars
  <2>3. \A b \in Buffers : b = out' \/ b = Hold'
        BY <2>1 DEF Buffers, Hold, HandoffTypeOK
  <2>4. \A b \in Buffers : buf'[b].number <= captured'
        BY <2>1, <2>2, <2>3 DEF InOrder
  <2>5. buf[Hold].number < buf'[Hold'].number
        BY <2>1, <2>2 DEF InOrder
  <2>6. frame.image.number <= buf'[Hold'].number /\ shown["poll"] <= buf'[Hold'].number
        BY <2>1, <2>5 DEF InOrder
  <2>7. QED
        BY <2>2, <2>4, <2>6 DEF InOrder
<1>3. CASE UserTakes
  <2>1. frame' = frame \/ frame'.image = buf[Hold]
        BY <1>3 DEF UserTakes, Populated
  <2>2. UNCHANGED <<buf, out, got, captured, shown>> /\ Hold' = Hold
        BY <1>3 DEF UserTakes, writerVars, Hold
  <2>3. frame'.image.number <= buf[Hold].number /\ shown["callback"] <= frame'.image.number
        BY <2>1 DEF InOrder
  <2>4. QED
        BY <2>2, <2>3 DEF InOrder
<1>4. CASE UserCalls
  <2>1. UNCHANGED <<buf, out, got, captured, frame>> /\ Hold' = Hold
        BY <1>4 DEF UserCalls, writerVars, Hold
  <2>2. shown'["callback"] = frame.image.number /\ shown'["poll"] = shown["poll"]
        BY <1>4 DEF UserCalls, HandoffTypeOK, Readers
  <2>3. QED
        BY <2>1, <2>2 DEF InOrder
<1>5. CASE PollTakes
  <2>1. UNCHANGED <<buf, out, got, captured>> /\ Hold' = Hold
        BY <1>5 DEF PollTakes, writerVars, Hold
  <2>2. frame'.image = buf[Hold]
        BY <1>5 DEF PollTakes, Populated
  <2>3. shown'["callback"] = shown["callback"] /\ shown'["poll"] = buf[Hold].number
        BY <1>5 DEF PollTakes, HandoffTypeOK, Readers
  <2>4. QED
        BY <2>1, <2>2, <2>3 DEF InOrder
<1>6. CASE UNCHANGED <<buf, out, got, captured, frame, shown>>
      BY <1>6 DEF InOrder, Hold
<1>7. QED
      BY <1>1, <1>2, <1>3, <1>4, <1>5, <1>6 DEF HandoffNext, Start, Stop, Stopped, Writer, Spoil,
         Reader, UserLeaves, UserSkips, UserReturns, writerVars, readerVars, handoffVars

\* No reader is given an older frame than before, whatever errors, restarts and wraps of
\* the sequence number came in between.
THEOREM FramesInOrder == HandoffSpec => NeverBackwards
<1> DEFINE Inv == HandoffTypeOK /\ InOrder
           Forward == \A r \in Readers : (Called \/ Polled) => shown'[r] >= shown[r]
<1>1. HandoffInit => Inv
      BY HandoffInvInit DEF HandoffInv
<1>2. Inv /\ [HandoffNext]_handoffVars => Inv'
      BY HandoffTypeStep, OrderStep
<1>3. Inv /\ [HandoffNext]_handoffVars => [Forward]_handoffVars
  <2> SUFFICES ASSUME Inv, [HandoffNext]_handoffVars, Called \/ Polled, NEW r \in Readers
               PROVE  shown'[r] >= shown[r]
      OBVIOUS
  <2>1. shown[r] \in Nat
        BY DEF HandoffTypeOK, Readers
  <2>2. CASE UserCalls
        BY <2>1, <2>2, HandoffNumbers DEF UserCalls, InOrder, HandoffTypeOK, Readers
  <2>3. CASE PollTakes
        BY <2>1, <2>3, HandoffNumbers DEF PollTakes, InOrder, HandoffTypeOK, Readers
  <2>4. CASE UNCHANGED shown
        BY <2>1, <2>4
  <2>5. QED
        BY <2>2, <2>3, <2>4 DEF HandoffNext, Start, Stop, Stopped, Writer, Fill, Spoil, SwapBuffers,
           Reader, UserLeaves, UserTakes, UserSkips, UserReturns, readerVars, handoffVars
<1>4. QED
      BY <1>1, <1>2, <1>3, PTL DEF HandoffSpec, NeverBackwards

------------------------------------------------------------------------------
(* Each frame at most once *)

LEMMA PollStep == HandoffTypeOK /\ InOrder /\ PollUnseen /\ [HandoffNext]_handoffVars => PollUnseen'
<1> SUFFICES ASSUME HandoffTypeOK, InOrder, PollUnseen, [HandoffNext]_handoffVars PROVE PollUnseen'
    OBVIOUS
<1> USE DEF PollUnseen
<1>1. CASE Fill
      BY <1>1, FillFacts DEF Fill, readerVars
<1>2. CASE SwapBuffers
  <2>1. buf'[Hold'].number = buf[out].number /\ shown' = shown /\ got
        BY <1>2, SwapFacts DEF SwapBuffers, readerVars
  <2>2. shown["poll"] < buf'[Hold'].number
        BY <2>1, HandoffNumbers DEF InOrder
  <2>3. QED
        BY <2>1, <2>2
<1>3. CASE UserCalls
  <2>1. UNCHANGED <<buf, out, holdSeq, lastPolled>> /\ shown'["poll"] = shown["poll"]
        BY <1>3 DEF UserCalls, writerVars, HandoffTypeOK, Readers
  <2>2. QED
        BY <2>1 DEF Hold
<1>4. CASE PollTakes
      BY <1>4 DEF PollTakes, writerVars
<1>5. CASE UNCHANGED <<buf, out, holdSeq, lastPolled, shown>>
      BY <1>5 DEF Hold
<1>6. QED
      BY <1>1, <1>2, <1>3, <1>4, <1>5 DEF HandoffNext, Start, Stop, Stopped, Writer, Spoil, Reader,
         UserLeaves, UserTakes, UserSkips, UserReturns, writerVars, readerVars, handoffVars

\* A poller is never given a frame twice, however the sequence number wraps.
THEOREM PolledOnce == HandoffSpec => PollNeverRepeats
<1> DEFINE Inv == HandoffTypeOK /\ InOrder /\ PollUnseen
<1>1. HandoffInit => Inv
      BY HandoffInvInit DEF HandoffInv
<1>2. Inv /\ [HandoffNext]_handoffVars => Inv'
      BY HandoffTypeStep, OrderStep, PollStep
<1>3. Inv /\ [HandoffNext]_handoffVars => [Polled => shown'["poll"] > shown["poll"]]_handoffVars
  <2> SUFFICES ASSUME Inv, [HandoffNext]_handoffVars, Polled PROVE shown'["poll"] > shown["poll"]
      OBVIOUS
  <2>1. CASE PollTakes
    <3>1. shown'["poll"] = buf[Hold].number /\ lastPolled # holdSeq
          BY <2>1 DEF PollTakes, Newer, HandoffTypeOK, Readers
    <3>2. QED
          BY <3>1, HandoffNumbers DEF PollUnseen
  <2>2. CASE Start \/ Stop \/ Stopped \/ Writer \/ Reader \/ UNCHANGED handoffVars
        BY <2>2 DEF Polled, Start, Stop, Stopped, Writer, Fill, Spoil, SwapBuffers, Reader,
           UserLeaves, UserTakes, UserCalls, UserSkips, UserReturns, readerVars, handoffVars
  <2>3. QED
        BY <2>1, <2>2 DEF HandoffNext
<1>4. QED
      BY <1>1, <1>2, <1>3, PTL DEF HandoffSpec, PollNeverRepeats

LEMMA CallStep == HandoffTypeOK /\ InOrder /\ CallUnseen /\ [HandoffNext]_handoffVars => CallUnseen'
<1> SUFFICES ASSUME HandoffTypeOK, InOrder, CallUnseen, [HandoffNext]_handoffVars PROVE CallUnseen'
    OBVIOUS
<1> USE DEF CallUnseen, FlagTells
<1>1. CASE Start
  <2>1. started' = started + 1 /\ started \in Nat /\ user' # "taken"
        BY <1>1 DEF Start, HandoffTypeOK
  <2>2. started' = 1 => started = 0 /\ lastSeq' = holdSeq'
        BY <1>1, <2>1 DEF Start
  <2>3. user' # "none" => ~polling'
        BY <1>1 DEF Start
  <2>4. (~spoiled' => ~holdErr') /\ started' # 0 /\ FlagTells'
        BY <1>1, <2>1 DEF Start
  <2>5. QED
        BY <2>1, <2>2, <2>3, <2>4
<1>2. CASE Fill
      BY <1>2, FillFacts DEF Fill, readerVars
<1>3. CASE SwapBuffers
  <2>1. /\ buf'[Hold'].number = buf[out].number /\ got
        /\ UNCHANGED <<started, polling, phase, user, shown, frame>>
        BY <1>3, SwapFacts DEF SwapBuffers, readerVars
  <2>2. shown["callback"] < buf'[Hold'].number /\ frame.image.number < buf'[Hold'].number
        BY <2>1, HandoffNumbers DEF InOrder
  <2>3. (~spoiled' => ~holdErr' /\ ~spoiled) /\ started # 0 /\ FlagTells'
        BY <1>3 DEF SwapBuffers, HoldErrOfFrame
  <2>4. QED
        BY <2>1, <2>2, <2>3
<1>4. CASE UserTakes
  <2>1. UNCHANGED <<started, spoiled, holdErr, holdSeq, polling, phase, shown, buf, out, flaw,
                    bfhErr>>
        BY <1>4 DEF UserTakes, writerVars
  <2>2. lastSeq' = holdSeq /\ lastSeq # holdSeq /\ user = "check" /\ started # 0
        BY <1>4 DEF UserTakes, SeenSeq, HasNew
  <2>3. started = 1 /\ ~spoiled => frame'.image = buf[Hold] /\ shown["callback"] < buf[Hold].number
        BY <1>4, <2>2 DEF UserTakes, Populated
  <2>4. QED
        BY <2>1, <2>2, <2>3
<1>5. CASE UserCalls
  <2>1. /\ UNCHANGED <<started, spoiled, holdErr, holdSeq, lastSeq, polling, phase, buf, out,
                       flaw, bfhErr>>
        /\ user = "taken" /\ user' = "calling"
        BY <1>5 DEF UserCalls, writerVars
  <2>2. shown'["callback"] = frame.image.number
        BY <1>5 DEF UserCalls, HandoffTypeOK, Readers
  <2>3. QED
        BY <2>1, <2>2 DEF Hold
<1>6. CASE UserSkips
      BY <1>6 DEF UserSkips, writerVars, Hold
<1>7. CASE UserReturns \/ UserLeaves \/ Stopped
      BY <1>7 DEF UserReturns, UserLeaves, Stopped, writerVars, Hold
<1>8. CASE PollTakes
      BY <1>8 DEF PollTakes, writerVars
<1>9. CASE Stop \/ Spoil \/ UNCHANGED handoffVars
      BY <1>9 DEF Stop, Spoil, writerVars, readerVars, handoffVars, Hold
<1>10. QED
      BY <1>1, <1>2, <1>3, <1>4, <1>5, <1>6, <1>7, <1>8, <1>9 DEF HandoffNext, Writer, Reader

\* As long as no frame had an error and the stream was started once, each run of the
\* callback is given a frame it has not had.
THEOREM CalledOnce == HandoffSpec => OncePerFrameUnlessSpoiled
<1> DEFINE Inv == HandoffTypeOK /\ InOrder /\ CallUnseen
           Once == Called /\ ~spoiled /\ started = 1 => Renewed
<1>1. HandoffInit => Inv
      BY HandoffInvInit DEF HandoffInv
<1>2. Inv /\ [HandoffNext]_handoffVars => Inv'
      BY HandoffTypeStep, OrderStep, CallStep
<1>3. Inv /\ [HandoffNext]_handoffVars => [Once]_handoffVars
  <2> SUFFICES ASSUME Inv, [HandoffNext]_handoffVars, Called, ~spoiled, started = 1 PROVE Renewed
      OBVIOUS
  <2>1. UserCalls
        BY DEF Called, HandoffNext, Start, Stop, Stopped, Writer, Fill, Spoil, SwapBuffers, Reader,
           UserLeaves, UserTakes, UserSkips, UserReturns, PollTakes, readerVars, handoffVars
  <2>2. shown'["callback"] = frame.image.number /\ user = "taken"
        BY <2>1 DEF UserCalls, HandoffTypeOK, Readers
  <2>3. QED
        BY <2>2, HandoffNumbers DEF CallUnseen, Renewed
<1>4. QED
      BY <1>1, <1>2, <1>3, PTL DEF HandoffSpec, OncePerFrameUnlessSpoiled
==============================================================================
