--------------------------- MODULE Requests_proofs ---------------------------
(***************************************************************************)
(* Proofs about what libuvc asks of a camera: the agreement on a format    *)
(* (Negotiation), for any cameras with descriptors as the standard wants   *)
(* them, any formats, sizes and rates asked for and any number of packets; *)
(* and the getters and setters of the controls and the status callbacks    *)
(* (VideoControls), for bytes of any size, any values an application gives *)
(* and any packets a camera sends.                                         *)
(*                                                                         *)
(* The argument for Negotiation.  While a question is asked there is a     *)
(* format to try, of the kind asked for (Questions).  The formats that     *)
(* were given up without a failed transfer offer nothing that was asked    *)
(* for, and if one of them has a frame that is not too wide, the globals   *)
(* have the size of such a frame (Searched); a question that is answered   *)
(* with "invalid mode" has given all of them up.  From the search to the   *)
(* answer the control block holds what was asked for, and a camera that    *)
(* obeys what the block holds (Agreed).  A stream is for what its          *)
(* interface is committed to, and is not committed again while it runs, so *)
(* that what it was dimensioned for when it was started stays true         *)
(* (Streaming).  The loops of the search take the first of a list: the     *)
(* least of a set of places, which exists because < is well-founded on Nat *)
(* (WFMin).                                                                *)
(*                                                                         *)
(* The argument for VideoControls.  The parameters of each function of the *)
(* table lie side by side in its data and leave no byte (FieldsOK), so     *)
(* that each byte is of one parameter; and the bytes of a number add up to *)
(* the number, modulo what fits into them (BytesAdd), which a getter of    *)
(* the right sign makes the number again (DecodedIsEncoded).  Then the     *)
(* camera has the bytes of what was set (Kept), of a control that nothing  *)
(* else sets (OwnControls).                                                *)
(***************************************************************************)
EXTENDS Negotiation, VideoControls, SequenceTheorems, FiniteSetTheorems, WellFoundedInduction, TLAPS

------------------------------------------------------------------------------
(* Numbers and lists *)

\* A set of numbers has a least one, which is what Min is.
LEMMA MinFacts ==
    ASSUME NEW T, T \subseteq Nat, T # {}
    PROVE  Min(T) \in T /\ \A y \in T : Min(T) <= y
<1>1. \E x \in T : \A y \in T : ~ (<<y, x>> \in OpToRel(<, Nat))
    BY WFMin, NatLessThanWellFounded, Zenon
<1>2. PICK x \in T : \A y \in T : ~ (<<y, x>> \in OpToRel(<, Nat))
    BY <1>1
<1>3. \A y \in T : x <= y
  <2>1. \A y \in T : ~(y < x)
      BY <1>2 DEF OpToRel
  <2>2. \A y \in T : y \in Nat /\ x \in Nat
      OBVIOUS
  <2>3. QED
      BY <2>1, <2>2
<1>4. \E m : m \in T /\ \A y \in T : m <= y
    BY <1>3
<1>5. QED
    BY <1>4, Zenon DEF Min

\* A bounded set of numbers has a greatest one.
LEMMA MaxFacts ==
    ASSUME NEW n \in Nat, NEW T, T \subseteq 1..n, T # {}
    PROVE  Max(T) \in T /\ \A y \in T : Max(T) >= y
<1> DEFINE D == {n - y : y \in T}
<1>1. D \subseteq Nat /\ D # {}
  <2>1. \A y \in T : n - y \in Nat
      OBVIOUS
  <2>2. QED
      BY <2>1
<1> HIDE DEF D
<1>2. PICK d \in D : \A e \in D : d <= e
    BY <1>1, MinFacts
<1>3. PICK x \in T : d = n - x
    BY DEF D
<1>4. \A y \in T : x >= y
  <2> TAKE y \in T
  <2>1. n - x <= n - y
      BY <1>2, <1>3 DEF D
  <2>2. QED
      BY <2>1
<1>5. QED
    BY <1>4 DEF Max

\* What SelectInSeq and SelectInSubSeq find.
LEMMA FirstFacts ==
    ASSUME NEW I, I \subseteq Nat \ {0}, NEW k, k = IF I # {} THEN Min(I) ELSE 0
    PROVE  /\ k = 0 <=> I = {}
           /\ k # 0 => k \in I /\ \A j \in I : k <= j
<1>1. CASE I = {}
    BY <1>1
<1>2. CASE I # {}
    BY <1>2, MinFacts
<1>3. QED
    BY <1>1, <1>2

\* Division of the numbers of the code, all of them not negative.
LEMMA DivFacts ==
    ASSUME NEW a \in Nat, NEW b \in Nat \ {0}
    PROVE  /\ a \div b \in Nat /\ (a \div b) * b <= a /\ a < (a \div b) * b + b
           /\ b <= a => a \div b >= 1
           /\ a \div b <= a
    OBVIOUS

------------------------------------------------------------------------------
(* Cameras, formats and frames *)

\* The descriptors of a camera are lists of lists, none of them empty.
LEMMA CameraFacts ==
    ASSUME camera \in Cameras
    PROVE  /\ Interfaces(camera) \subseteq Nat \ {0}
           /\ \A i \in Interfaces(camera) :
                 /\ camera.ifs[i].alts \in Seq(Nat) /\ Len(camera.ifs[i].alts) \in Nat \ {0}
                 /\ DOMAIN Formats(i) = 1..Len(Formats(i)) /\ Len(Formats(i)) \in Nat \ {0}
                 /\ \A k \in DOMAIN Formats(i) :
                       /\ Formats(i)[k].frames \in Seq(FrameDescs)
                       /\ DOMAIN Formats(i)[k].frames = 1..Len(Formats(i)[k].frames)
                       /\ Len(Formats(i)[k].frames) \in Nat \ {0}
                       /\ \A n \in DOMAIN Formats(i)[k].frames :
                             Formats(i)[k].frames[n] \in FrameDescs
<1> DEFINE F == [kind : STRING, frames : NonEmpty(FrameDescs)]
           I == [alts : NonEmpty(Nat), formats : NonEmpty(F)]
<1>1. camera.ifs \in Seq(I)
    BY NegotiationAssumption DEF NegotiationAssumption, CameraOK
<1>2. DOMAIN camera.ifs = 1..Len(camera.ifs) /\ Len(camera.ifs) \in Nat
    BY <1>1, LenProperties
<1>3. ASSUME NEW i \in Interfaces(camera)
      PROVE  /\ camera.ifs[i].alts \in NonEmpty(Nat) /\ Formats(i) \in NonEmpty(F)
  <2>1. camera.ifs[i] \in I
      BY <1>1, <1>2, ElementOfSeq DEF Interfaces
  <2>2. QED
      BY <2>1 DEF Formats
<1>4. ASSUME NEW S, NEW s \in NonEmpty(S)
      PROVE  s \in Seq(S) /\ DOMAIN s = 1..Len(s) /\ Len(s) \in Nat \ {0} /\ \A n \in DOMAIN s : s[n] \in S
    BY LenProperties, EmptySeq, ElementOfSeq DEF NonEmpty
<1>5. ASSUME NEW i \in Interfaces(camera), NEW k \in DOMAIN Formats(i)
      PROVE  Formats(i)[k].frames \in NonEmpty(FrameDescs)
  <2>1. Formats(i)[k] \in F
      BY <1>3, <1>4
  <2>2. QED
      BY <2>1
<1>6. Interfaces(camera) \subseteq Nat \ {0}
    BY <1>2 DEF Interfaces
<1> HIDE DEF F, I
<1>7. QED
    BY <1>3, <1>4, <1>5, <1>6

\* What is described is a format of an interface.
LEMMA DescribedFacts ==
    ASSUME camera \in Cameras, NEW c
    PROVE  c \in Described <=> /\ c = <<c[1], c[2]>>
                              /\ c[1] \in Interfaces(camera) /\ c[2] \in DOMAIN Formats(c[1])
    BY DEF Described

\* What is tried is what is still to be tried.
LEMMA TriedFacts ==
    ASSUME camera \in Cameras, rest \subseteq Described, rest # {}
    PROVE  /\ Tried \in rest /\ Tried = <<Tried[1], Tried[2]>>
           /\ Tried[1] \in Interfaces(camera) /\ Tried[2] \in DOMAIN Formats(Tried[1])
<1> DEFINE A == {c[1] : c \in rest}
<1>1. \A c \in rest : c[1] \in Nat /\ c[2] \in Nat
    BY CameraFacts, DescribedFacts
<1>2. PICK i \in A : \A j \in A : i <= j
  <2>1. A \subseteq Nat /\ A # {}
      BY <1>1
  <2> HIDE DEF A
  <2>2. QED
      BY <2>1, MinFacts
<1> DEFINE B == {c[2] : c \in {d \in rest : d[1] = i}}
<1>3. PICK k \in B : \A l \in B : k <= l
  <2>1. B \subseteq Nat /\ B # {}
      BY <1>1
  <2> HIDE DEF B
  <2>2. QED
      BY <2>1, MinFacts
<1>4. PICK c \in rest : c[1] = i /\ c[2] = k
    BY <1>3
<1>5. \A d \in rest : c[1] < d[1] \/ (c[1] = d[1] /\ c[2] <= d[2])
  <2> TAKE d \in rest
  <2>1. i <= d[1] /\ i \in Nat /\ d[1] \in Nat
      BY <1>1, <1>2, <1>4
  <2>2. d[1] = i => k <= d[2]
      BY <1>3
  <2>3. QED
      BY <1>4, <2>1, <2>2
<1>6. \E t : t \in rest /\ \A d \in rest : t[1] < d[1] \/ (t[1] = d[1] /\ t[2] <= d[2])
    BY <1>5
<1>7. Tried \in rest
    BY <1>6, Zenon DEF Tried
<1>8. QED
    BY <1>7, DescribedFacts

\* A frame is offered at a rate of at most fps.
Offered(f, fps) == IF f.intervals # <<>> THEN \E k \in DOMAIN f.intervals : RateFits(f.intervals[k], fps)
                                         ELSE \E n \in 1..fps : OnStep(f, n)

\* The search finds an interval if there is one, and it is of a rate that is asked for.
LEMMA IntervalFacts ==
    ASSUME NEW f \in FrameDescs, NEW fps \in Rates
    PROVE  /\ IntervalFor(f, fps) \in Nat
           /\ IntervalFor(f, fps) # 0 <=> Offered(f, fps)
           /\ IntervalFor(f, fps) # 0 => Second \div IntervalFor(f, fps) \in 1..fps
<1>1. /\ Second \in Nat \ {0} /\ fps \in Nat \ {0} /\ fps <= Second
      /\ \A n \in 1..fps : Second \div (Second \div n) <= fps
    BY NegotiationAssumption DEF NegotiationAssumption, RateOK
<1>2. CASE f.intervals # <<>>
  <2> DEFINE I == {k \in 1..Len(f.intervals) : RateFits(f.intervals[k], fps)}
             p == IF I # {} THEN Min(I) ELSE 0
  <2>1. f.intervals \in Seq(Nat \ {0})
      BY DEF FrameDescs
  <2>2. /\ DOMAIN f.intervals = 1..Len(f.intervals) /\ Len(f.intervals) \in Nat
        /\ \A k \in 1..Len(f.intervals) : f.intervals[k] \in Nat \ {0}
      BY <2>1, LenProperties, ElementOfSeq
  <2>3. I \subseteq Nat \ {0}
      OBVIOUS
  <2>4. IntervalFor(f, fps) = IF p = 0 THEN 0 ELSE f.intervals[p]
      BY <1>2 DEF IntervalFor, SelectInSeq
  <2>5. (p = 0 <=> I = {}) /\ (p # 0 => p \in I)
    <3> DEFINE q == p
    <3>1. q = IF I # {} THEN Min(I) ELSE 0
        OBVIOUS
    <3> HIDE DEF I, q
    <3>2. (q = 0 <=> I = {}) /\ (q # 0 => q \in I)
        BY <2>3, <3>1, FirstFacts
    <3>3. QED
        BY <3>2 DEF q
  <2> HIDE DEF p
  <2>6. I # {} <=> Offered(f, fps)
      BY <1>2, <2>2 DEF Offered
  <2>7. CASE p = 0
      BY <2>4, <2>5, <2>6, <2>7
  <2>8. CASE p # 0
    <3>1. /\ f.intervals[p] \in Nat \ {0} /\ RateFits(f.intervals[p], fps)
          /\ IntervalFor(f, fps) = f.intervals[p]
        BY <2>2, <2>4, <2>5, <2>8
    <3>2. Second \div f.intervals[p] \in 1..fps
        BY <1>1, <3>1, DivFacts DEF RateFits
    <3>3. QED
        BY <2>5, <2>6, <2>8, <3>1, <3>2
  <2>9. QED
      BY <2>7, <2>8
<1>3. CASE f.intervals = <<>>
  <2> DEFINE R == {n \in 1..fps : OnStep(f, n)}
  <2>1. IntervalFor(f, fps) = IF R = {} THEN 0 ELSE Second \div Max(R)
      BY <1>3 DEF IntervalFor
  <2>2. R # {} <=> Offered(f, fps)
      BY <1>3 DEF Offered
  <2>3. CASE R = {}
      BY <2>1, <2>2, <2>3
  <2>4. CASE R # {}
    <3>1. Max(R) \in 1..fps
      <4>1. R \subseteq 1..fps
          OBVIOUS
      <4> HIDE DEF R
      <4>2. QED
          BY <1>1, <2>4, <4>1, MaxFacts
    <3> DEFINE m == Max(R)
               v == Second \div m
    <3> HIDE DEF R, m
    <3>2. m \in Nat \ {0} /\ m <= Second /\ Second \div v <= fps
        BY <1>1, <3>1 DEF m
    <3>3. v \in Nat /\ v >= 1 /\ v <= Second
        BY <1>1, <3>2, DivFacts
    <3> HIDE DEF v
    <3>4. Second \div v \in Nat /\ Second \div v >= 1
        BY <1>1, <3>3, DivFacts
    <3>5. IntervalFor(f, fps) = v
        BY <2>1, <2>4 DEF v, m
    <3>6. QED
        BY <1>1, <2>2, <2>4, <3>2, <3>3, <3>4, <3>5
  <2>5. QED
      BY <2>3, <2>4
<1>4. QED
    BY <1>2, <1>3

------------------------------------------------------------------------------
(* Control blocks *)

\* A frame that a setting names is one of the descriptors.
LEMMA FrameFacts ==
    ASSUME camera \in Cameras, NEW i \in Interfaces(camera), NEW s \in Settings \cup Blocks, HasFrame(i, s)
    PROVE  Frame(i, s) \in FrameDescs /\ Frame(i, s).max \in Nat /\ Frame(i, s).payload \in Nat
<1>1. Frame(i, s) \in FrameDescs
    BY CameraFacts DEF Frame, HasFrame
<1>2. QED
    BY <1>1 DEF FrameDescs

\* Only dwMaxVideoFrameSize is fixed up.
LEMMA FixedUpFacts ==
    ASSUME camera \in Cameras, NEW s \in Settings
    PROVE  /\ FixedUp(s) \in Settings
           /\ FixedUp(s).fmt = s.fmt /\ FixedUp(s).frm = s.frm /\ FixedUp(s).interval = s.interval
<1> DEFINE holders == {i \in Interfaces(camera) : HasFrame(i, s)}
<1>1. CASE s.max # 0 \/ holders = {}
    BY <1>1 DEF FixedUp
<1>2. CASE ~(s.max # 0 \/ holders = {})
  <2>1. holders \subseteq Nat /\ holders # {}
      BY <1>2, CameraFacts
  <2> DEFINE m == Min(holders)
  <2>2. m \in holders
    <3> HIDE DEF holders
    <3>1. QED
        BY <2>1, MinFacts
  <2>3. FixedUp(s) = [s EXCEPT !.max = Frame(m, s).max]
      BY <1>2 DEF FixedUp
  <2> HIDE DEF m
  <2>4. Frame(m, s).max \in Nat
      BY <2>2, FrameFacts
  <2>5. QED
      BY <2>3, <2>4 DEF Settings
<1>3. QED
    BY <1>1, <1>2

\* A control block holds the setting it is made of, for its interface.
LEMMA BlockFacts ==
    ASSUME NEW i \in Nat, NEW s \in Settings
    PROVE  /\ Block(i, s) \in Blocks /\ Block(i, s).if = i
           /\ Block(i, s).fmt = s.fmt /\ Block(i, s).frm = s.frm /\ Block(i, s).interval = s.interval
    BY DEF Block, Blocks, Settings

\* The setting of a control block is a setting.
LEMMA SettingFacts ==
    ASSUME NEW b \in Blocks
    PROVE  Setting(b) \in Settings
<1>1. Setting(b) = [f \in {"fmt", "frm", "interval", "max", "payload"} |-> b[f]]
    BY DEF Setting, Nothing
<1>2. Setting(b) = [fmt |-> b.fmt, frm |-> b.frm, interval |-> b.interval, max |-> b.max, payload |-> b.payload]
    BY <1>1
<1>3. QED
    BY <1>2 DEF Blocks, Settings

\* uvc_get_stream_ctrl_format_size_fps clears the block, which is then empty.
LEMMA NothingFacts == Nothing \in Settings /\ ZeroCtrl \in Blocks
<1>1. Nothing \in Settings
    BY DEF Nothing, Settings
<1>2. QED
    BY <1>1, BlockFacts DEF ZeroCtrl

\* What a camera answers.
LEMMA AnsweredFacts ==
    ASSUME camera \in Cameras, NEW i \in Interfaces(camera), NEW k \in DOMAIN Formats(i),
           NEW n \in DOMAIN Formats(i)[k].frames, NEW v \in Nat
    PROVE  /\ Answered(i, k, n, v) \in Settings
           /\ Answered(i, k, n, v).fmt = k /\ Answered(i, k, n, v).frm = n /\ Answered(i, k, n, v).interval = v
<1>1. Formats(i)[k].frames[n] \in FrameDescs /\ k \in Nat /\ n \in Nat
    BY CameraFacts
<1>2. Formats(i)[k].frames[n].max \in Nat /\ Formats(i)[k].frames[n].payload \in Nat
    BY <1>1 DEF FrameDescs
<1>3. QED
    BY <1>1, <1>2 DEF Answered, Settings

\* What _prepare_stream_ctrl gets is a block of the interface it asks.
LEMMA ReplyFacts ==
    ASSUME camera \in Cameras, NEW i \in Interfaces(camera), NEW req
    PROVE  Reply(i, req) \in Blocks /\ Reply(i, req).if = i
<1>1. Least(i) \in Settings
  <2>1. 1 \in DOMAIN Formats(i) /\ 1 \in DOMAIN Formats(i)[1].frames
      BY CameraFacts
  <2>2. QED
      BY <2>1, AnsweredFacts, NegotiationAssumption DEF Least, NegotiationAssumption
<1>2. Greatest(i) \in Settings
  <2> DEFINE n == Len(Formats(i))
             m == Len(Formats(i)[n].frames)
  <2>1. n \in DOMAIN Formats(i) /\ m \in DOMAIN Formats(i)[n].frames
      BY CameraFacts
  <2>2. Greatest(i) = Answered(i, n, m, 1)
      BY DEF Greatest
  <2> HIDE DEF n, m
  <2>3. QED
      BY <2>1, <2>2, AnsweredFacts
<1>3. i \in Nat
    BY CameraFacts
<1>4. PICK s \in Settings : Reply(i, req) = Block(i, s)
    BY <1>1, <1>2, FixedUpFacts DEF Reply
<1>5. QED
    BY <1>3, <1>4, BlockFacts

------------------------------------------------------------------------------
(* The inductive invariant *)

Trying == pc \in {"claim", "prepare", "search"}
Asking == Trying \/ pc \in {"set", "get"}

FramesOf(c) == Range(Formats(c[1])[c[2]].frames)

\* A question is there, with something to try, until it is answered.
Questions ==
    /\ Asking \/ res \in {"ok", "invalid_mode"} => ask.kind \in Asked /\ ask.fps \in Rates
    /\ IF Asking THEN rest # {} /\ rest \subseteq Matching(ask.kind) ELSE rest = {}
    /\ pc # "idle" => res = "none"

\* What was tried and given up is not what was asked for; the globals have a size of it.
GivenUp == Matching(ask.kind) \ rest
Searched ==
    (Trying \/ res = "invalid_mode") /\ ~ask.faulty /\ Ascending =>
        /\ \A c \in GivenUp : \A f \in FramesOf(c) : ~Offers(f)
        /\ (\E c \in GivenUp : \E f \in FramesOf(c) : f.size[1] <= ask.size[1]) =>
              \E c \in GivenUp : \E f \in FramesOf(c) : f.size = available /\ available[1] <= ask.size[1]

\* The control block holds what was asked for, and the camera has it.
Chosen ==
    /\ <<ctrl.if, ctrl.fmt>> \in Matching(ask.kind) /\ HasFrame(ctrl.if, ctrl)
    /\ Frame(ctrl.if, ctrl).size = ask.size
    /\ Second \div ctrl.interval \in 1..ask.fps
Agreed ==
    /\ pc \in {"prepare", "search"} => ctrl.if = Tried[1]
    /\ pc \in {"set", "get"} \/ (res = "ok" /\ camera.obeys) => Chosen
    /\ pc = "get" /\ camera.obeys =>
          probed.fmt = ctrl.fmt /\ probed.frm = ctrl.frm /\ probed.interval = ctrl.interval

\* A stream is for what the camera is committed to, and a running one is not committed again.
Streaming ==
    /\ \A i \in Interfaces(camera) : streams[i].open => streams[i].cur = committed[i]
    /\ pc = "commit" => ctrl.if \in Interfaces(camera)
                        /\ (streams[ctrl.if].open => ~streams[ctrl.if].running)
    /\ RunningFits

Inv == TypeOK /\ Questions /\ Searched /\ Agreed /\ Streaming

\* The parts of TypeOK that the steps need.
LEMMA TypeFacts ==
    ASSUME TypeOK
    PROVE  /\ camera \in Cameras /\ rest \subseteq Described /\ ctrl \in Blocks /\ probed \in Settings
           /\ ctrl.if \in Nat /\ ctrl.fmt \in Nat /\ ctrl.frm \in Nat /\ ctrl.interval \in Nat
           /\ ctrl.max \in Nat /\ ctrl.payload \in Nat /\ ask.faulty \in BOOLEAN
           /\ ask.size \in Nat \X Nat
    BY DEF TypeOK, Blocks

------------------------------------------------------------------------------
(* What a step leaves alone *)

\* The descriptors of a camera do not change while it is open.
LEMMA SameCamera ==
    ASSUME camera' = camera
    PROVE  /\ Interfaces(camera)' = Interfaces(camera) /\ Described' = Described
           /\ \A k : Matching(k)' = Matching(k)
           /\ \A c : FramesOf(c)' = FramesOf(c)
           /\ Ascending' = Ascending
    BY DEF Interfaces, Described, Formats, Matching, FramesOf, Ascending

\* A question is not disturbed by what it does not depend on.
LEMMA QuestionsKept ==
    ASSUME Inv, UNCHANGED <<camera, probed, ctrl, available, ask, rest, pc, res>>
    PROVE  Questions' /\ Searched' /\ Agreed'
<1>1. /\ Questions /\ Searched /\ Agreed
      /\ (Matching(ask.kind))' = Matching(ask.kind) /\ GivenUp' = GivenUp
    BY DEF Inv, GivenUp, Matching, Described, Interfaces, Formats
<1>2. Questions'
    BY <1>1 DEF Questions, Trying, Asking
<1>3. (\A f : Offers(f)' = Offers(f)) /\ \A c : FramesOf(c)' = FramesOf(c)
    BY SameCamera DEF Offers
<1>4. Ascending' = Ascending
    BY SameCamera
<1>5. Searched'
    BY <1>1, <1>3, <1>4 DEF Searched, Trying
<1>6. Chosen' = Chosen
    BY <1>1 DEF Chosen, HasFrame, Frame, Formats
<1>7. Agreed'
    BY <1>1, <1>6 DEF Agreed, Tried
<1>8. QED
    BY <1>2, <1>5, <1>7

\* Neither are the streams.
LEMMA StreamingKept ==
    ASSUME Inv, UNCHANGED <<camera, committed, streams>>, pc' # "commit"
    PROVE  Streaming'
    BY DEF Inv, Streaming, RunningFits, HasFrame, Frame, FrameSize, Interfaces, Formats

\* Nothing is asked, and nothing was answered.
LEMMA NoQuestion ==
    ASSUME Questions, pc = "idle", ForgetAnswer, pc' \in {"idle", "commit"}
    PROVE  Questions' /\ Searched' /\ Agreed'
    BY DEF Questions, Searched, Agreed, Trying, Asking, ForgetAnswer

------------------------------------------------------------------------------
(* Cameras come and go *)

\* A camera has just been opened.
LEMMA InitInv == Init => Inv
<1> SUFFICES ASSUME Init PROVE Inv
    OBVIOUS
<1>1. TypeOK
  <2>1. /\ camera \in Cameras /\ claimed = {} /\ rest = {} /\ pc = "idle" /\ res = "none"
        /\ probed \in Settings /\ ctrl \in Blocks /\ available \in Nat \X Nat
      BY NothingFacts DEF Init
  <2>2. /\ committed \in [Interfaces(camera) -> Settings]
        /\ streams \in [Interfaces(camera) -> Streams \cup {NoStream}]
      BY NothingFacts DEF Init
  <2>3. ask \in [kind : Asked \cup {"none"}, size : Nat \X Nat, fps : Rates \cup {0}, faulty : BOOLEAN]
      BY DEF Init, Unasked
  <2>4. QED
      BY <2>1, <2>2, <2>3 DEF TypeOK
<1>2. Questions /\ Searched /\ Agreed
    BY DEF Init, Questions, Searched, Agreed, Trying, Asking
<1>3. Streaming
    BY DEF Init, Streaming, RunningFits, NoStream
<1>4. QED
    BY <1>1, <1>2, <1>3 DEF Inv

\* Another camera is opened, or the same one again.
LEMMA ReopenStep ==
    ASSUME Inv, NEW cam \in Cameras, Reopen(cam) PROVE Inv'
<1>1. /\ TypeOK /\ Questions /\ pc = "idle" /\ pc' = pc /\ camera' = cam /\ rest' = rest
      /\ claimed' = {} /\ rest = {} /\ res' = "none" /\ available' = available /\ ForgetAnswer
      /\ committed' = [i \in Interfaces(cam) |-> Nothing]
      /\ streams' = [i \in Interfaces(cam) |-> NoStream] /\ probed' = Nothing /\ ctrl' = ZeroCtrl
    BY DEF Reopen, Plugged, ForgetAnswer, Inv, Questions, Trying, Asking
<1>2. Interfaces(camera)' = Interfaces(cam)
    BY <1>1 DEF Interfaces
<1>3. TypeOK'
  <2>1. /\ committed' \in [Interfaces(cam) -> Settings]
        /\ streams' \in [Interfaces(cam) -> Streams \cup {NoStream}]
      BY <1>1, NothingFacts
  <2>2. ask' \in [kind : Asked \cup {"none"}, size : Nat \X Nat, fps : Rates \cup {0}, faulty : BOOLEAN]
      BY <1>1 DEF ForgetAnswer, Unasked
  <2>3. QED
      BY <1>1, <1>2, <2>1, <2>2, NothingFacts DEF TypeOK
<1>4. Questions' /\ Searched' /\ Agreed'
    BY <1>1, NoQuestion
<1>5. Streaming'
    BY <1>1, <1>2 DEF Streaming, RunningFits, NoStream
<1>6. QED
    BY <1>3, <1>4, <1>5 DEF Inv

------------------------------------------------------------------------------
(* A question *)

\* A question begins with all formats of its kind.
LEMMA AsksStep ==
    ASSUME Inv, NEW kind \in Asked, NEW size \in Nat \X Nat, NEW fps \in Rates, Asks(kind, size, fps)
    PROVE  Inv'
<1>1. /\ TypeOK /\ pc = "idle" /\ ctrl' = ZeroCtrl
      /\ ask' = [kind |-> kind, size |-> size, fps |-> fps, faulty |-> FALSE]
      /\ UNCHANGED <<camera, probed, committed, claimed, streams, available>>
    BY DEF Asks, Inv, deviceVars
<1>2. \/ Matching(kind) = {} /\ pc' = "idle" /\ res' = "invalid_mode" /\ rest' = {}
      \/ Matching(kind) # {} /\ pc' = "claim" /\ res' = "none" /\ rest' = Matching(kind)
    BY DEF Asks, Ends
<1>3. /\ Interfaces(camera)' = Interfaces(camera) /\ Described' = Described
      /\ Matching(kind) \subseteq Described /\ (Matching(ask.kind))' = Matching(kind)
    BY <1>1 DEF Interfaces, Described, Formats, Matching
<1>4. TypeOK'
  <2>1. ask' \in [kind : Asked \cup {"none"}, size : Nat \X Nat, fps : Rates \cup {0}, faulty : BOOLEAN]
      BY <1>1
  <2>2. QED
      BY <1>1, <1>2, <1>3, <2>1, NothingFacts DEF TypeOK
<1>5. Questions' /\ Searched' /\ Agreed'
  <2>1. GivenUp' = {}
      BY <1>2, <1>3 DEF GivenUp
  <2>2. Questions'
      BY <1>1, <1>2, <1>3 DEF Questions, Trying, Asking
  <2>3. Searched'
      BY <2>1 DEF Searched
  <2>4. Agreed'
      BY <1>2 DEF Agreed
  <2>5. QED
      BY <2>2, <2>3, <2>4
<1>6. Streaming'
    BY <1>1, <1>2, StreamingKept
<1>7. QED
    BY <1>4, <1>5, <1>6 DEF Inv

\* The application asks.
LEMMA AskStep == ASSUME Inv, Ask PROVE Inv'
    BY AsksStep, NegotiationAssumption DEF Ask, NegotiationAssumption

\* UVC.cpp asks again, with the size that the search left.
LEMMA AskAvailableStep == ASSUME Inv, AskAvailable PROVE Inv'
<1>1. ask.kind \in Asked /\ ask.fps \in Rates /\ available \in Nat \X Nat
    BY DEF AskAvailable, Inv, Questions, TypeOK
<1>2. QED
    BY <1>1, AsksStep DEF AskAvailable

\* A format is given up.
LEMMA NextFormatFacts ==
    ASSUME Inv, Trying, NEW faulty \in BOOLEAN, NextFormat(faulty), camera' = camera
    PROVE  /\ rest' = rest \ {Tried} /\ Tried \in rest /\ claimed' \subseteq claimed
           /\ ask' = [ask EXCEPT !.faulty = ask.faulty \/ faulty]
           /\ ask' \in [kind : Asked \cup {"none"}, size : Nat \X Nat, fps : Rates \cup {0}, faulty : BOOLEAN]
           /\ \/ rest' = {} /\ pc' = "idle" /\ res' = "invalid_mode"
              \/ rest' # {} /\ pc' = "claim" /\ res' = "none"
<1>1. /\ TypeOK /\ Questions /\ rest # {} /\ res = "none" /\ rest \subseteq Described /\ camera \in Cameras
      /\ ask \in [kind : Asked \cup {"none"}, size : Nat \X Nat, fps : Rates \cup {0}, faulty : BOOLEAN]
    BY DEF Inv, TypeOK, Questions, Trying, Asking
<1>2. Tried \in rest
    BY <1>1, TriedFacts
<1>3. ask' = [ask EXCEPT !.faulty = ask.faulty \/ faulty] /\ claimed' \subseteq claimed
    BY DEF NextFormat
<1>4. CASE rest = {Tried}
    BY <1>1, <1>2, <1>3, <1>4 DEF NextFormat, Ends
<1>5. CASE rest # {Tried}
    BY <1>1, <1>2, <1>3, <1>5 DEF NextFormat
<1>6. QED
    BY <1>4, <1>5

\* What is left of the invariant to be shown then.
LEMMA NextFormatStep ==
    ASSUME Inv, Trying, NEW faulty \in BOOLEAN, NextFormat(faulty), ctrl' \in Blocks,
           available' \in Nat \X Nat, UNCHANGED <<camera, probed, committed, streams>>,
           faulty \/ Searched'
    PROVE  Inv'
<1>1. /\ rest' = rest \ {Tried} /\ Tried \in rest /\ claimed' \subseteq claimed
      /\ ask' = [ask EXCEPT !.faulty = ask.faulty \/ faulty]
      /\ ask' \in [kind : Asked \cup {"none"}, size : Nat \X Nat, fps : Rates \cup {0}, faulty : BOOLEAN]
      /\ \/ rest' = {} /\ pc' = "idle" /\ res' = "invalid_mode"
         \/ rest' # {} /\ pc' = "claim" /\ res' = "none"
    BY NextFormatFacts
<1>2. /\ TypeOK /\ Questions
      /\ ask \in [kind : Asked \cup {"none"}, size : Nat \X Nat, fps : Rates \cup {0}, faulty : BOOLEAN]
    BY DEF Inv, TypeOK
<1>3. Interfaces(camera)' = Interfaces(camera) /\ Described' = Described /\ \A k : Matching(k)' = Matching(k)
    BY SameCamera
<1>4. ask'.kind = ask.kind /\ ask'.fps = ask.fps /\ ask'.faulty = (ask.faulty \/ faulty)
    BY <1>1, <1>2
<1>5. TypeOK'
    BY <1>1, <1>2, <1>3 DEF TypeOK
<1>6. Questions'
  <2>1. /\ ask.kind \in Asked /\ ask.fps \in Rates /\ rest \subseteq Matching(ask.kind)
      BY <1>2 DEF Questions, Asking
  <2>2. (Matching(ask.kind))' = Matching(ask.kind)
      BY <1>4 DEF Matching, Described, Interfaces, Formats
  <2>3. QED
      BY <1>1, <1>4, <2>1, <2>2 DEF Questions, Asking, Trying
<1>7. Searched'
    BY <1>4 DEF Searched
<1>8. Agreed'
    BY <1>1 DEF Agreed
<1>9. Streaming'
    BY <1>1, StreamingKept
<1>10. QED
    BY <1>5, <1>6, <1>7, <1>8, <1>9 DEF Inv

\* A step that goes on with the same format.
LEMMA GoesOnStep ==
    ASSUME Inv, Trying, Trying', ctrl' \in Blocks, ctrl'.if = Tried[1], claimed' \subseteq Interfaces(camera),
           UNCHANGED <<camera, probed, committed, streams, available, ask, rest, res>>
    PROVE  Inv'
<1>1. TypeOK /\ Questions /\ Searched /\ res = "none" /\ pc' \notin {"set", "get", "commit", "idle"}
    BY DEF Inv, Questions, Trying
<1>2. Interfaces(camera)' = Interfaces(camera) /\ Described' = Described /\ \A k : Matching(k)' = Matching(k)
    BY SameCamera
<1>3. TypeOK'
  <2>1. rest # {} /\ pc' \in {"claim", "prepare", "search"}
      BY <1>1 DEF Questions, Trying, Asking
  <2>2. QED
      BY <1>1, <1>2, <2>1 DEF TypeOK
<1>4. (Matching(ask.kind))' = Matching(ask.kind) /\ GivenUp' = GivenUp
    BY DEF Matching, Described, Interfaces, Formats, GivenUp
<1>5. Questions'
    BY <1>1, <1>4 DEF Questions, Asking
<1>6. Searched'
  <2>1. (\A f : Offers(f)' = Offers(f)) /\ (\A c : FramesOf(c)' = FramesOf(c)) /\ Ascending' = Ascending
      BY SameCamera DEF Offers
  <2>2. QED
      BY <1>1, <1>4, <2>1 DEF Searched
<1>7. Agreed'
    BY <1>1 DEF Agreed, Tried
<1>8. Streaming'
    BY <1>1, StreamingKept
<1>9. QED
    BY <1>3, <1>5, <1>6, <1>7, <1>8 DEF Inv

\* What is tried is a format of the kind asked for.
LEMMA TryingFacts ==
    ASSUME Inv, Trying
    PROVE  /\ camera \in Cameras /\ rest # {} /\ Tried \in rest /\ Tried = <<Tried[1], Tried[2]>>
           /\ Tried[1] \in Interfaces(camera) /\ Tried[1] \in Nat /\ Tried[2] \in DOMAIN Formats(Tried[1])
           /\ Tried \in Matching(ask.kind) /\ ask.kind \in Asked /\ ask.fps \in Rates
<1>1. /\ camera \in Cameras /\ rest \subseteq Described /\ rest # {} /\ rest \subseteq Matching(ask.kind)
      /\ ask.kind \in Asked /\ ask.fps \in Rates
    BY DEF Inv, TypeOK, Questions, Asking
<1>2. QED
    BY <1>1, TriedFacts, CameraFacts

\* _uvc_get_stream_ctrl_format claims the interface of the format, or gives the format up.
LEMMA ClaimStep == ASSUME Inv, Claim PROVE Inv'
<1>1. /\ Trying /\ UNCHANGED <<camera, probed, committed, streams, available>>
      /\ claimed \subseteq Interfaces(camera)
      /\ ctrl \in Blocks /\ ctrl' = [ctrl EXCEPT !.if = Tried[1]]
    BY DEF Claim, Trying, deviceVars, Inv, TypeOK
<1>2. /\ ctrl' \in Blocks /\ ctrl'.if = Tried[1] /\ available' \in Nat \X Nat
      /\ Tried[1] \in Interfaces(camera)
    BY <1>1, TryingFacts DEF Blocks, Inv, TypeOK
<1>3. CASE NextFormat(TRUE)
    BY <1>1, <1>2, <1>3, NextFormatStep
<1>4. CASE /\ claimed' = claimed \cup {Tried[1]} /\ pc' = "prepare" /\ UNCHANGED <<ask, rest, res>>
  <2>1. Trying' /\ claimed' \subseteq Interfaces(camera)
      BY <1>1, <1>2, <1>4 DEF Trying
  <2>2. QED
      BY <1>1, <1>2, <1>4, <2>1, GoesOnStep
<1>5. QED
    BY <1>3, <1>4 DEF Claim

\* A request of _prepare_stream_ctrl.
LEMMA PrepareStep == ASSUME Inv, Prepare PROVE Inv'
<1>1. /\ Trying /\ UNCHANGED <<camera, probed, committed, streams, available>>
      /\ claimed \subseteq Interfaces(camera)
      /\ ctrl \in Blocks /\ available' \in Nat \X Nat
    BY DEF Prepare, Trying, deviceVars, Inv, TypeOK
<1>2. ctrl' \in Blocks /\ ctrl'.if = Tried[1]
  <2>1. ctrl' = ctrl \/ \E req : ctrl' = Reply(Tried[1], req)
      BY DEF Prepare
  <2>2. ctrl.if = Tried[1]
      BY DEF Prepare, Inv, Agreed
  <2>3. QED
      BY <1>1, <2>1, <2>2, TryingFacts, ReplyFacts
<1>3. CASE NextFormat(TRUE)
    BY <1>1, <1>2, <1>3, NextFormatStep
<1>4. CASE UNCHANGED <<ask, rest, res, claimed>> /\ pc' \in {pc, "search"}
  <2>1. Trying'
      BY <1>1, <1>4 DEF Trying
  <2>2. QED
      BY <1>1, <1>2, <1>4, <2>1, GoesOnStep
<1>5. QED
    BY <1>3, <1>4 DEF Prepare

------------------------------------------------------------------------------
(* The search *)

FirstWider(frames) == SelectInSeq(frames, Wider)
FirstFit(frames)   == SelectInSeq(frames, IsFrame)

\* The loop passes the frames up to the first wider one and takes the first that fits.
LEMMA LoopFacts ==
    ASSUME NEW frames \in Seq(FrameDescs), NEW wider, wider = FirstWider(frames),
           NEW passed, passed = IF wider = 0 THEN Len(frames) ELSE wider - 1,
           NEW found, found = FirstFit(SubSeq(frames, 1, passed))
    PROVE  /\ passed \in 0..Len(frames) /\ \A n \in 1..passed : ~Wider(frames[n])
           /\ passed # Len(frames) => passed + 1 \in 1..Len(frames) /\ Wider(frames[passed + 1])
           /\ found = 0 => \A n \in 1..passed : ~IsFrame(frames[n])
           /\ found # 0 => found \in 1..passed /\ IsFrame(frames[found])
<1>1. Len(frames) \in Nat
    BY LenProperties
<1> DEFINE W == {n \in 1..Len(frames) : Wider(frames[n])}
<1>2. wider = IF W # {} THEN Min(W) ELSE 0
    BY DEF SelectInSeq, FirstWider
<1>3. (wider = 0 <=> W = {}) /\ (wider # 0 => wider \in W /\ \A n \in W : wider <= n)
  <2>1. W \subseteq Nat \ {0}
      BY <1>1
  <2> HIDE DEF W
  <2>2. QED
      BY <1>2, <2>1, FirstFacts
<1>4. /\ passed \in 0..Len(frames) /\ \A n \in 1..passed : ~Wider(frames[n])
      /\ passed # Len(frames) => passed + 1 \in 1..Len(frames) /\ Wider(frames[passed + 1])
  <2>1. CASE wider = 0
      BY <1>1, <1>3, <2>1
  <2>2. CASE wider # 0
    <3>1. /\ wider \in 1..Len(frames) /\ Wider(frames[wider]) /\ passed = wider - 1
          /\ \A n \in W : wider <= n
        BY <1>3, <2>2
    <3>2. passed \in 0..Len(frames) /\ passed + 1 = wider
        BY <1>1, <3>1
    <3>3. ASSUME NEW n \in 1..passed PROVE ~Wider(frames[n])
      <4>1. n \in 1..Len(frames) /\ ~(wider <= n)
          BY <1>1, <3>1, <3>2
      <4>2. QED
          BY <3>1, <4>1
    <3>4. QED
        BY <3>1, <3>2, <3>3
  <2>3. QED
      BY <2>1, <2>2
<1> DEFINE t == SubSeq(frames, 1, passed)
           I == {n \in 1..Len(t) : IsFrame(t[n])}
<1>5. Len(t) = passed /\ \A n \in 1..passed : t[n] = frames[n]
    BY <1>1, <1>4, SubSeqProperties
<1>6. found = IF I # {} THEN Min(I) ELSE 0
    BY DEF SelectInSeq, FirstFit
<1>7. (found = 0 <=> I = {}) /\ (found # 0 => found \in I)
  <2>1. I \subseteq 1..passed
      BY <1>5
  <2>2. I \subseteq Nat \ {0}
      BY <1>1, <1>4, <2>1
  <2> HIDE DEF I
  <2>3. QED
      BY <1>6, <2>2, FirstFacts
<1>8. QED
    BY <1>4, <1>5, <1>7

Sorted(frames) == \A m, n \in 1..Len(frames) : m < n => frames[m].size[1] <= frames[n].size[1]
Passed(frames, passed) == /\ \A n \in 1..passed : ~Wider(frames[n]) /\ ~IsFrame(frames[n])
                          /\ passed # Len(frames) => Wider(frames[passed + 1])

\* A frame that is not wider than what is asked for.
LEMMA NotWider ==
    ASSUME ask.size \in Nat \X Nat, NEW f, f.size \in Nat \X Nat, ~Wider(f)
    PROVE  f.size[1] <= ask.size[1]
<1>1. f.size[1] \in Nat /\ ask.size[1] \in Nat
    OBVIOUS
<1>2. ~(f.size[1] > ask.size[1])
    BY DEF Wider
<1>3. QED
    BY <1>1, <1>2

\* A format that is given up has no frame that was asked for, if its frames ascend.
LEMMA GivenUpFacts ==
    ASSUME camera \in Cameras, ask.fps \in Rates, ask.size \in Nat \X Nat,
           NEW frames \in Seq(FrameDescs), NEW passed \in 0..Len(frames),
           Sorted(frames), Passed(frames, passed)
    PROVE  /\ \A f \in Range(frames) : ~Offers(f)
           /\ (\E f \in Range(frames) : f.size[1] <= ask.size[1]) =>
                 /\ passed # 0 /\ frames[passed] \in Range(frames)
                 /\ frames[passed].size[1] <= ask.size[1]
<1>1. /\ DOMAIN frames = 1..Len(frames) /\ Len(frames) \in Nat
      /\ \A n \in 1..Len(frames) : frames[n] \in FrameDescs
    BY LenProperties, ElementOfSeq
<1>2. \A n \in 1..Len(frames) : frames[n].size \in Nat \X Nat
    BY <1>1 DEF FrameDescs
<1>3. ASSUME NEW n \in 1..Len(frames), ~(n <= passed) PROVE frames[n].size[1] > ask.size[1]
  <2>1. passed + 1 \in 1..Len(frames) /\ passed + 1 <= n
      BY <1>1, <1>3
  <2>2. frames[passed + 1].size[1] > ask.size[1]
      BY <2>1 DEF Passed, Wider
  <2>3. /\ frames[passed + 1].size[1] \in Nat /\ frames[n].size[1] \in Nat
        /\ ask.size[1] \in Nat
      BY <1>2, <2>1
  <2>4. CASE passed + 1 = n
      BY <2>2, <2>4
  <2>5. CASE passed + 1 < n
    <3>1. frames[passed + 1].size[1] <= frames[n].size[1]
        BY <2>1, <2>5 DEF Sorted
    <3>2. QED
        BY <2>2, <2>3, <3>1
  <2>6. QED
      BY <2>1, <2>4, <2>5
<1>4. ASSUME NEW f \in Range(frames) PROVE ~Offers(f)
  <2>1. PICK n \in 1..Len(frames) : f = frames[n]
      BY <1>1 DEF Range
  <2>2. CASE n <= passed
    <3>1. ~IsFrame(f)
        BY <2>1, <2>2 DEF Passed
    <3>2. f.size # ask.size \/ IntervalFor(f, ask.fps) = 0
        BY <3>1 DEF IsFrame
    <3>3. f \in FrameDescs
        BY <1>1, <2>1
    <3>4. IntervalFor(f, ask.fps) = 0 => ~Offered(f, ask.fps)
        BY <3>3, IntervalFacts
    <3>5. QED
        BY <3>2, <3>4 DEF Offers, Offered
  <2>3. CASE ~(n <= passed)
      BY <1>2, <1>3, <2>1, <2>3 DEF Offers
  <2>4. QED
      BY <2>2, <2>3
<1>5. ASSUME NEW f \in Range(frames), f.size[1] <= ask.size[1]
      PROVE  passed # 0 /\ frames[passed] \in Range(frames) /\ frames[passed].size[1] <= ask.size[1]
  <2>1. PICK n \in 1..Len(frames) : f = frames[n]
      BY <1>1 DEF Range
  <2>2. n <= passed
      BY <1>2, <1>3, <1>5, <2>1
  <2>3. passed \in 1..Len(frames)
      BY <2>2
  <2>4. ~Wider(frames[passed])
      BY <2>3 DEF Passed
  <2>5. frames[passed].size \in Nat \X Nat
      BY <1>2, <2>3
  <2>6. frames[passed].size[1] <= ask.size[1]
      BY <2>4, <2>5, NotWider
  <2>7. QED
      BY <1>1, <2>3, <2>6 DEF Range
<1>6. QED
    BY <1>4, <1>5

\* What the globals tell after the format that is given up.
LEMMA SearchedOneMore ==
    ASSUME Inv, pc = "search", camera' = camera, NextFormat(FALSE),
           NEW passed, NEW frames, frames = Formats(Tried[1])[Tried[2]].frames,
           passed \in 0..Len(frames), Passed(frames, passed),
           available' = IF passed = 0 THEN available ELSE frames[passed].size
    PROVE  Searched'
<1>1. /\ Trying /\ camera \in Cameras /\ Tried \in rest /\ Tried[1] \in Interfaces(camera)
      /\ Tried[2] \in DOMAIN Formats(Tried[1]) /\ Tried \in Matching(ask.kind) /\ ask.fps \in Rates
    BY TryingFacts DEF Trying
<1>2. /\ rest' = rest \ {Tried} /\ ask' = [ask EXCEPT !.faulty = ask.faulty \/ FALSE]
      /\ ask \in [kind : Asked \cup {"none"}, size : Nat \X Nat, fps : Rates \cup {0}, faulty : BOOLEAN]
    BY <1>1, NextFormatFacts DEF Inv, TypeOK
<1>3. ask' = ask
    BY <1>2
<1>4. /\ (\A f : Offers(f)' = Offers(f)) /\ (\A c : FramesOf(c)' = FramesOf(c)) /\ Ascending' = Ascending
      /\ GivenUp' = GivenUp \cup {Tried}
  <2>1. (Matching(ask.kind))' = Matching(ask.kind)
      BY <1>3 DEF Matching, Described, Interfaces, Formats
  <2>2. GivenUp' = GivenUp \cup {Tried}
      BY <1>1, <1>2, <2>1 DEF GivenUp
  <2>3. QED
      BY <1>3, <2>2, SameCamera DEF Offers
<1>5. SUFFICES ASSUME ~ask.faulty, Ascending
      PROVE  /\ \A c \in GivenUp' : \A f \in FramesOf(c) : ~Offers(f)
             /\ (\E c \in GivenUp' : \E f \in FramesOf(c) : f.size[1] <= ask.size[1]) =>
                   \E c \in GivenUp' : \E f \in FramesOf(c) : f.size = available' /\ available'[1] <= ask.size[1]
    BY <1>3, <1>4 DEF Searched
<1>6. /\ \A c \in GivenUp : \A f \in FramesOf(c) : ~Offers(f)
      /\ (\E c \in GivenUp : \E f \in FramesOf(c) : f.size[1] <= ask.size[1]) =>
            \E c \in GivenUp : \E f \in FramesOf(c) : f.size = available /\ available[1] <= ask.size[1]
    BY <1>1, <1>5 DEF Inv, Searched
<1>7. frames \in Seq(FrameDescs) /\ FramesOf(Tried) = Range(frames)
    BY <1>1, CameraFacts DEF FramesOf
<1>8. Sorted(frames)
  <2>1. DOMAIN frames = 1..Len(frames)
      BY <1>7, LenProperties
  <2>2. QED
      BY <1>1, <1>5, <2>1 DEF Ascending, Sorted
<1>9. /\ \A f \in Range(frames) : ~Offers(f)
      /\ (\E f \in Range(frames) : f.size[1] <= ask.size[1]) =>
            /\ passed # 0 /\ frames[passed] \in Range(frames)
            /\ frames[passed].size[1] <= ask.size[1]
  <2>1. ask.size \in Nat \X Nat
      BY <1>2
  <2>2. QED
      BY <1>1, <1>7, <1>8, <2>1, GivenUpFacts
<1>10. \A c \in GivenUp' : \A f \in FramesOf(c) : ~Offers(f)
    BY <1>4, <1>6, <1>7, <1>9
<1>11. ASSUME NEW c \in GivenUp', NEW f \in FramesOf(c), f.size[1] <= ask.size[1]
       PROVE  \E d \in GivenUp' : \E g \in FramesOf(d) : g.size = available' /\ available'[1] <= ask.size[1]
  <2>1. CASE passed # 0
    <3>1. frames[passed] \in Range(frames) /\ frames[passed].size[1] <= ask.size[1]
      <4>1. passed \in 1..Len(frames) /\ ~Wider(frames[passed])
          BY <1>7, <2>1, LenProperties DEF Passed
      <4>2. DOMAIN frames = 1..Len(frames) /\ frames[passed] \in FrameDescs
          BY <1>7, <4>1, LenProperties, ElementOfSeq
      <4>3. frames[passed].size \in Nat \X Nat /\ ask.size \in Nat \X Nat
          BY <1>2, <4>2 DEF FrameDescs
      <4>4. frames[passed] \in Range(frames)
          BY <4>1, <4>2 DEF Range
      <4>5. frames[passed].size[1] <= ask.size[1]
          BY <4>1, <4>3, NotWider
      <4>6. QED
          BY <4>4, <4>5
    <3>2. Tried \in GivenUp' /\ frames[passed] \in FramesOf(Tried) /\ available' = frames[passed].size
        BY <1>4, <1>7, <2>1, <3>1
    <3>3. QED
        BY <3>1, <3>2
  <2>2. CASE passed = 0
    <3>1. c \in GivenUp
        BY <1>4, <1>7, <1>9, <1>11, <2>2
    <3>2. QED
        BY <1>4, <1>6, <1>11, <2>2, <3>1
  <2>3. QED
      BY <2>1, <2>2
<1>12. QED
    BY <1>10, <1>11

\* The frame loop of _uvc_get_stream_ctrl_format.
LEMMA SearchStep == ASSUME Inv, Search PROVE Inv'
<1> DEFINE frames == Formats(Tried[1])[Tried[2]].frames
           wider  == FirstWider(frames)
           passed == IF wider = 0 THEN Len(frames) ELSE wider - 1
           found  == FirstFit(SubSeq(frames, 1, passed))
<1>1. /\ pc = "search" /\ Trying /\ UNCHANGED <<camera, probed, committed, streams>>
      /\ available' = LastLookedAt(frames, IF found = 0 THEN passed ELSE found)
      /\ IF found = 0
         THEN NextFormat(FALSE) /\ ctrl' = ctrl
         ELSE /\ ctrl' = [ctrl EXCEPT !.fmt = Tried[2], !.frm = found,
                                      !.interval = IntervalFor(frames[found], ask.fps)]
              /\ pc' = "set" /\ UNCHANGED <<ask, rest, res, claimed>>
    BY DEF Search, Trying, deviceVars, callVars, FirstWider, FirstFit
<1>2. /\ camera \in Cameras /\ Tried \in rest /\ Tried = <<Tried[1], Tried[2]>> /\ Tried[1] \in Interfaces(camera)
      /\ Tried[1] \in Nat /\ Tried[2] \in DOMAIN Formats(Tried[1]) /\ Tried \in Matching(ask.kind)
      /\ ask.fps \in Rates
    BY <1>1, TryingFacts
<1>3. frames \in Seq(FrameDescs) /\ Len(frames) \in Nat /\ DOMAIN frames = 1..Len(frames)
    BY <1>2, CameraFacts
<1>4. /\ passed \in 0..Len(frames) /\ \A n \in 1..passed : ~Wider(frames[n])
      /\ passed # Len(frames) => passed + 1 \in 1..Len(frames) /\ Wider(frames[passed + 1])
      /\ found = 0 => \A n \in 1..passed : ~IsFrame(frames[n])
      /\ found # 0 => found \in 1..passed /\ IsFrame(frames[found])
  <2> HIDE DEF wider, passed, found
  <2>1. /\ wider = FirstWider(frames) /\ passed = IF wider = 0 THEN Len(frames) ELSE wider - 1
        /\ found = FirstFit(SubSeq(frames, 1, passed))
      BY DEF wider, passed, found
  <2> HIDE DEF frames
  <2>2. QED
      BY <1>3, <2>1, LoopFacts
<1> HIDE DEF wider, passed, found
<1>5. available' \in Nat \X Nat
  <2>1. CASE (IF found = 0 THEN passed ELSE found) = 0
      BY <1>1, <2>1 DEF LastLookedAt, Inv, TypeOK
  <2>2. CASE (IF found = 0 THEN passed ELSE found) # 0
    <3> DEFINE n == IF found = 0 THEN passed ELSE found
    <3>1. n \in DOMAIN frames
        BY <1>3, <1>4, <2>2
    <3>2. frames[n] \in FrameDescs
        BY <1>3, <3>1, ElementOfSeq
    <3>3. available' = frames[n].size
        BY <1>1, <2>2 DEF LastLookedAt
    <3> HIDE DEF n, frames
    <3>4. QED
        BY <3>2, <3>3 DEF FrameDescs
  <2>3. QED
      BY <2>1, <2>2
<1>6. CASE found = 0
  <2>1. ctrl' \in Blocks
      BY <1>1, <1>6 DEF Inv, TypeOK
  <2>2. NextFormat(FALSE) /\ available' = IF passed = 0 THEN available ELSE frames[passed].size
      BY <1>1, <1>6 DEF LastLookedAt
  <2>3. Searched'
    <3>1. Passed(frames, passed)
        BY <1>4, <1>6 DEF Passed
    <3> HIDE DEF frames
    <3>2. frames = Formats(Tried[1])[Tried[2]].frames
        BY DEF frames
    <3>3. QED
        BY <1>1, <1>4, <2>2, <3>1, <3>2, SearchedOneMore
  <2>4. QED
      BY <1>1, <1>5, <2>1, <2>2, <2>3, NextFormatStep
<1>7. CASE found # 0
  <2>1. /\ ctrl' = [ctrl EXCEPT !.fmt = Tried[2], !.frm = found,
                                !.interval = IntervalFor(frames[found], ask.fps)]
        /\ pc' = "set" /\ UNCHANGED <<ask, rest, res, claimed>>
      BY <1>1, <1>7
  <2>2. found \in DOMAIN frames /\ frames[found] \in FrameDescs /\ IsFrame(frames[found])
      BY <1>3, <1>4, <1>7, ElementOfSeq
  <2>3. /\ IntervalFor(frames[found], ask.fps) \in Nat
        /\ Second \div IntervalFor(frames[found], ask.fps) \in 1..ask.fps
        /\ frames[found].size = ask.size
      BY <1>2, <2>2, IntervalFacts DEF IsFrame
  <2>4. found \in Nat /\ Tried[2] \in Nat /\ ctrl \in Blocks /\ TypeOK
      BY <1>2, <1>3, <2>2, CameraFacts DEF Inv, TypeOK
  <2>5. /\ ctrl'.if = Tried[1] /\ ctrl'.fmt = Tried[2] /\ ctrl'.frm = found /\ ctrl' \in Blocks
        /\ ctrl'.interval = IntervalFor(frames[found], ask.fps)
      BY <1>1, <2>1, <2>3, <2>4 DEF Inv, Agreed, Blocks
  <2>6. (Matching(ask.kind))' = Matching(ask.kind)
      BY <1>1, <2>1 DEF Matching, Described, Interfaces, Formats
  <2>7. TypeOK'
    <3>1. Interfaces(camera)' = Interfaces(camera) /\ Described' = Described
        BY <1>1, SameCamera
    <3>2. QED
        BY <1>1, <1>5, <2>1, <2>4, <2>5, <3>1 DEF TypeOK
  <2>8. Questions'
      BY <1>1, <2>1, <2>6 DEF Inv, Questions, Asking, Trying
  <2>9. Searched'
      BY <1>1, <2>1 DEF Searched, Trying, Inv, Questions
  <2>10. Chosen'
    <3>1. <<ctrl'.if, ctrl'.fmt>> = Tried
        BY <1>2, <2>5
    <3>2. (HasFrame(ctrl.if, ctrl))' /\ (Frame(ctrl.if, ctrl))' = frames[found]
        BY <1>1, <1>2, <2>2, <2>5 DEF HasFrame, Frame, Formats
    <3>3. QED
        BY <1>2, <2>1, <2>3, <2>5, <2>6, <3>1, <3>2 DEF Chosen
  <2>11. Agreed'
      BY <2>1, <2>10 DEF Agreed
  <2>12. Streaming'
      BY <1>1, <2>1, StreamingKept
  <2>13. QED
      BY <2>7, <2>8, <2>9, <2>11, <2>12 DEF Inv
<1>8. QED
    BY <1>6, <1>7

------------------------------------------------------------------------------
(* The two probe requests *)

\* uvc_probe_stream_ctrl tells the camera what the search found.
LEMMA SetProbeStep == ASSUME Inv, SetProbe PROVE Inv'
<1>1. /\ pc = "set" /\ UNCHANGED <<camera, committed, claimed, streams, ctrl, available>>
      /\ TypeOK /\ Chosen /\ Questions /\ camera \in Cameras /\ ask' = ask
    BY DEF SetProbe, callVars, Inv, Agreed, TypeOK
<1>2. Interfaces(camera)' = Interfaces(camera) /\ Described' = Described
    BY <1>1, SameCamera
<1>3. CASE probed' \in Negotiated(ctrl.if, ctrl) /\ pc' = "get" /\ UNCHANGED <<rest, res>>
  <2>1. /\ ctrl.if \in Interfaces(camera) /\ ctrl.fmt \in DOMAIN Formats(ctrl.if)
        /\ ctrl.frm \in DOMAIN Formats(ctrl.if)[ctrl.fmt].frames /\ ctrl.interval \in Nat
      BY <1>1, DescribedFacts, TypeFacts DEF Chosen, Matching, HasFrame
  <2>2. /\ probed' \in Settings
        /\ camera.obeys => probed'.fmt = ctrl.fmt /\ probed'.frm = ctrl.frm /\ probed'.interval = ctrl.interval
      BY <1>1, <1>3, <2>1, AnsweredFacts DEF Negotiated
  <2>3. TypeOK'
      BY <1>1, <1>2, <1>3, <2>2 DEF TypeOK
  <2>4. (Matching(ask.kind))' = Matching(ask.kind)
      BY <1>1 DEF Matching, Described, Interfaces, Formats
  <2>5. Questions' /\ Searched'
      BY <1>1, <1>3, <2>4 DEF Questions, Searched, Asking, Trying
  <2>6. Chosen' = Chosen
      BY <1>1, <2>4 DEF Chosen, HasFrame, Frame, Formats
  <2>7. Agreed'
      BY <1>1, <1>3, <2>2, <2>6 DEF Agreed
  <2>8. Streaming'
      BY <1>1, <1>3, StreamingKept
  <2>9. QED
      BY <2>3, <2>5, <2>7, <2>8 DEF Inv
<1>4. CASE pc' = "idle" /\ res' = "error" /\ rest' = {} /\ probed' = probed
  <2>1. TypeOK'
      BY <1>1, <1>2, <1>4 DEF TypeOK
  <2>2. Questions' /\ Searched' /\ Agreed'
      BY <1>4 DEF Questions, Searched, Agreed, Asking, Trying
  <2>3. Streaming'
      BY <1>1, <1>4, StreamingKept
  <2>4. QED
      BY <2>1, <2>2, <2>3 DEF Inv
<1>5. QED
    BY <1>1, <1>3, <1>4 DEF SetProbe, Ends, callVars

\* It reads what the camera makes of it.
LEMMA GetProbeStep == ASSUME Inv, GetProbe PROVE Inv'
<1>1. /\ pc = "get" /\ UNCHANGED <<camera, committed, claimed, streams, ask, available>> /\ probed' = Nothing
      /\ TypeOK /\ Chosen /\ Questions /\ camera \in Cameras /\ pc' = "idle" /\ rest' = {}
      /\ probed \in Settings /\ ask.kind \in Asked /\ ask.fps \in Rates
    BY DEF GetProbe, Ends, Inv, Agreed, TypeOK, Questions, Asking
<1>2. Interfaces(camera)' = Interfaces(camera) /\ Described' = Described
    BY <1>1, SameCamera
<1>3. Streaming'
    BY <1>1, StreamingKept
<1>4. CASE res' = "ok" /\ ctrl' = Block(ctrl.if, FixedUp(probed))
  <2>1. /\ ctrl' \in Blocks /\ ctrl'.if = ctrl.if /\ ctrl'.fmt = probed.fmt /\ ctrl'.frm = probed.frm
        /\ ctrl'.interval = probed.interval
      BY <1>1, <1>4, FixedUpFacts, BlockFacts, TypeFacts
  <2>2. TypeOK'
      BY <1>1, <1>2, <1>4, <2>1, NothingFacts DEF TypeOK
  <2>3. Questions' /\ Searched'
      BY <1>1, <1>4 DEF Questions, Searched, Asking, Trying
  <2>4. ASSUME camera.obeys PROVE Chosen'
    <3>1. /\ ctrl'.fmt = ctrl.fmt /\ ctrl'.frm = ctrl.frm /\ ctrl'.interval = ctrl.interval
        BY <1>1, <2>1, <2>4 DEF Inv, Agreed
    <3>2. (Matching(ask.kind))' = Matching(ask.kind)
        BY <1>1 DEF Matching, Described, Interfaces, Formats
    <3>3. QED
        BY <1>1, <2>1, <3>1, <3>2 DEF Chosen, HasFrame, Frame, Formats
  <2>5. Agreed'
      BY <1>1, <1>4, <2>4 DEF Agreed
  <2>6. QED
      BY <1>3, <2>2, <2>3, <2>5 DEF Inv
<1>5. CASE res' = "error" /\ ctrl' = ctrl
  <2>1. TypeOK'
      BY <1>1, <1>2, <1>5, NothingFacts DEF TypeOK
  <2>2. Questions' /\ Searched' /\ Agreed'
      BY <1>1, <1>5 DEF Questions, Searched, Agreed, Asking, Trying
  <2>3. QED
      BY <1>3, <2>1, <2>2 DEF Inv
<1>6. QED
    BY <1>4, <1>5 DEF GetProbe, Ends

------------------------------------------------------------------------------
(* Streams *)

\* A commit is begun.
LEMMA CommitBegins ==
    ASSUME Inv, pc = "idle", pc' = "commit", ForgetAnswer, claimed' \subseteq Interfaces(camera),
           UNCHANGED <<deviceVars, streams, ctrl, available>>, ctrl.if \in Interfaces(camera),
           streams[ctrl.if].open => ~streams[ctrl.if].running
    PROVE  Inv'
<1>1. /\ TypeOK /\ Questions /\ UNCHANGED <<camera, probed, committed>> /\ rest' = rest /\ res' = "none"
    BY DEF deviceVars, Inv, ForgetAnswer
<1>2. Interfaces(camera)' = Interfaces(camera) /\ Described' = Described
    BY <1>1, SameCamera
<1>3. ask' \in [kind : Asked \cup {"none"}, size : Nat \X Nat, fps : Rates \cup {0}, faulty : BOOLEAN]
    BY DEF ForgetAnswer, Unasked
<1>4. TypeOK'
    BY <1>1, <1>2, <1>3 DEF TypeOK
<1>5. Questions' /\ Searched' /\ Agreed'
    BY <1>1, NoQuestion
<1>6. Streaming'
    BY <1>1, <1>2 DEF Inv, Streaming, RunningFits, HasFrame, Frame, FrameSize, Formats
<1>7. QED
    BY <1>4, <1>5, <1>6 DEF Inv

\* uvc_stream_open_ctrl.
LEMMA OpenStreamStep == ASSUME Inv, OpenStream PROVE Inv'
<1>1. claimed \subseteq Interfaces(camera)
    BY DEF Inv, TypeOK
<1>2. QED
    BY <1>1, CommitBegins DEF OpenStream

\* uvc_stream_ctrl of a stream that does not run.
LEMMA ReconfigureStep == ASSUME Inv, NEW i \in Interfaces(camera), Reconfigure(i) PROVE Inv'
<1>1. claimed \subseteq Interfaces(camera)
    BY DEF Inv, TypeOK
<1>2. QED
    BY <1>1, CommitBegins DEF Reconfigure, MayConfigure

\* A stream is changed, or is there or not.
LEMMA StreamTypes ==
    ASSUME TypeOK, NEW i \in Interfaces(camera)
    PROVE  /\ committed[i] \in Settings /\ (streams[i] \in Streams \/ streams[i] = NoStream)
           /\ streams[i].open => streams[i] \in Streams /\ streams[i].cur \in Settings
           /\ Stopped(committed[i]) \in Streams
<1>1. committed[i] \in Settings /\ (streams[i] \in Streams \/ streams[i] = NoStream)
    BY DEF TypeOK
<1>2. streams[i].open => streams[i] \in Streams
    BY <1>1 DEF NoStream
<1>3. MaxPackets \in Nat
    BY NegotiationAssumption DEF NegotiationAssumption
<1>4. streams[i].open => streams[i].cur \in Settings
    BY <1>2 DEF Streams
<1>5. Stopped(committed[i]) \in Streams
    BY <1>1, <1>3 DEF Streams, Stopped
<1>6. QED
    BY <1>1, <1>2, <1>4, <1>5

\* RunningFits of one stream.
Fits(i, s) ==
    LET alts  == camera.ifs[i].alts
        bytes == alts[s.alt]
    IN  /\ HasFrame(i, s.cur)
        /\ Len(alts) > 1 =>
              /\ \/ s.div > 1 \/ bytes >= s.cur.payload
                 \/ \A k \in DOMAIN alts : alts[k] < s.cur.payload
              /\ bytes > 0
              /\ s.packets * bytes >= FrameSize(i, s.cur) \/ s.packets = MaxPackets
              /\ s.packets * bytes - bytes < FrameSize(i, s.cur)

\* A stream is for what is committed: the property can be said of either.
LEMMA RunningFitsIs ==
    ASSUME \A i \in Interfaces(camera) : streams[i].open => streams[i].cur = committed[i]
    PROVE  RunningFits <=> \A i \in Interfaces(camera) :
                               streams[i].open /\ streams[i].running => Fits(i, streams[i])
<1>1. ASSUME NEW i \in Interfaces(camera), streams[i].cur = committed[i]
      PROVE  Fits(i, streams[i]) <=>
             LET s     == committed[i]
                 alts  == camera.ifs[i].alts
                 bytes == alts[streams[i].alt]
                 held  == streams[i].packets * bytes
             IN  /\ HasFrame(i, s)
                 /\ Len(alts) > 1 =>
                       /\ \/ streams[i].div > 1 \/ bytes >= s.payload
                          \/ \A k \in DOMAIN alts : alts[k] < s.payload
                       /\ bytes > 0
                       /\ held >= FrameSize(i, s) \/ streams[i].packets = MaxPackets
                       /\ held - bytes < FrameSize(i, s)
    BY <1>1 DEF Fits
<1>2. QED
    BY <1>1 DEF RunningFits

\* The same for the next state.
LEMMA RunningFitsWillBe ==
    ASSUME camera' = camera,
           \A i \in Interfaces(camera) :
              /\ streams'[i].open => streams'[i].cur = committed'[i]
              /\ streams'[i].open /\ streams'[i].running => Fits(i, streams'[i])
    PROVE  RunningFits'
    BY DEF RunningFits, Fits, Interfaces, HasFrame, FrameSize, Frame, Formats

\* A step that changes one stream and nothing else.
LEMMA StreamStep ==
    ASSUME Inv, NEW i \in Interfaces(camera), NEW s \in Streams \cup {NoStream},
           streams' = [streams EXCEPT ![i] = s], claimed' \subseteq Interfaces(camera),
           UNCHANGED <<deviceVars, ctrl, available, callVars, pc>>, pc = "idle",
           s.open => s.cur = committed[i], s.open /\ s.running => Fits(i, s)
    PROVE  Inv'
<1>1. TypeOK /\ UNCHANGED <<camera, probed, committed, ask, rest, res>>
    BY DEF deviceVars, callVars, Inv
<1>2. Interfaces(camera)' = Interfaces(camera) /\ Described' = Described
    BY <1>1, SameCamera
<1>3. TypeOK'
    BY <1>1, <1>2 DEF TypeOK
<1>4. Questions' /\ Searched' /\ Agreed'
    BY <1>1, QuestionsKept
<1>5. ASSUME NEW j \in Interfaces(camera)
      PROVE  /\ streams'[j].open => streams'[j].cur = committed[j]
             /\ streams'[j].open /\ streams'[j].running => Fits(j, streams'[j])
  <2>1. /\ streams[j].open => streams[j].cur = committed[j]
        /\ streams[j].open /\ streams[j].running => Fits(j, streams[j])
      BY RunningFitsIs DEF Inv, Streaming
  <2>2. streams'[j] = IF j = i THEN s ELSE streams[j]
      BY <1>1 DEF TypeOK
  <2>3. QED
      BY <2>1, <2>2
<1>6. Streaming'
    BY <1>1, <1>2, <1>5, RunningFitsWillBe DEF Streaming
<1>7. QED
    BY <1>3, <1>4, <1>6 DEF Inv

\* uvc_stream_stop.
LEMMA StopStep == ASSUME Inv, NEW i \in Interfaces(camera), Stop(i) PROVE Inv'
<1>1. /\ TypeOK /\ pc = "idle" /\ streams[i].open /\ claimed' = claimed /\ claimed \subseteq Interfaces(camera)
      /\ streams' = [streams EXCEPT ![i] = Stopped(streams[i].cur)]
      /\ UNCHANGED <<deviceVars, ctrl, available, callVars, pc>>
    BY DEF Stop, Inv, TypeOK
<1>2. streams[i].cur = committed[i]
    BY <1>1 DEF Inv, Streaming
<1> DEFINE s == Stopped(committed[i])
<1>3. s \in Streams /\ ~s.running /\ s.cur = committed[i]
    BY <1>1, StreamTypes DEF Stopped
<1>4. QED
    BY <1>1, <1>2, <1>3, StreamStep

\* uvc_stream_close.
LEMMA CloseStreamStep == ASSUME Inv, NEW i \in Interfaces(camera), CloseStream(i) PROVE Inv'
<1>1. ~NoStream.open /\ claimed' \subseteq Interfaces(camera)
    BY DEF NoStream, CloseStream, Inv, TypeOK
<1>2. QED
    BY <1>1, StreamStep DEF CloseStream

\* The commit request of uvc_stream_open_ctrl or uvc_stream_ctrl.
LEMMA CommitStep == ASSUME Inv, Commit PROVE Inv'
<1> DEFINE i == ctrl.if
<1>1. /\ TypeOK /\ pc = "commit" /\ pc' = "idle" /\ i \in Interfaces(camera) /\ rest = {} /\ res = "none"
      /\ streams[i].open => ~streams[i].running
      /\ UNCHANGED <<camera, probed, claimed, ctrl, available, ask, rest, res>>
    BY DEF Commit, callVars, Inv, Streaming, Questions, Asking, Trying
<1>2. Interfaces(camera)' = Interfaces(camera) /\ Described' = Described
    BY <1>1, SameCamera
<1>3. Questions' /\ Searched' /\ Agreed'
    BY <1>1 DEF Questions, Searched, Agreed, Asking, Trying
<1>4. CASE UNCHANGED <<committed, streams>>
  <2>1. TypeOK'
      BY <1>1, <1>2, <1>4 DEF TypeOK
  <2>2. Streaming'
      BY <1>1, <1>4, StreamingKept
  <2>3. QED
      BY <1>3, <2>1, <2>2 DEF Inv
<1>5. CASE /\ committed' = [committed EXCEPT ![i] = Setting(ctrl)]
           /\ streams' = [streams EXCEPT ![i] = IF streams[i].open
                                                THEN [streams[i] EXCEPT !.cur = Setting(ctrl)]
                                                ELSE Stopped(Setting(ctrl))]
  <2> DEFINE s == IF streams[i].open THEN [streams[i] EXCEPT !.cur = Setting(ctrl)]
                                     ELSE Stopped(Setting(ctrl))
  <2>1. Setting(ctrl) \in Settings
      BY <1>1, SettingFacts, TypeFacts
  <2>2. s \in Streams /\ s.cur = Setting(ctrl) /\ ~s.running
    <3>1. CASE streams[i].open
        BY <1>1, <2>1, <3>1, StreamTypes DEF Streams
    <3>2. CASE ~streams[i].open
        BY <2>1, <3>2, NegotiationAssumption DEF Streams, Stopped, NegotiationAssumption
    <3>3. QED
        BY <3>1, <3>2
  <2>3. streams' = [streams EXCEPT ![i] = s]
      BY <1>5
  <2> HIDE DEF s, i
  <2>4. TypeOK'
      BY <1>1, <1>2, <1>5, <2>1, <2>2, <2>3 DEF TypeOK
  <2>5. ASSUME NEW j \in Interfaces(camera)
        PROVE  /\ streams'[j].open => streams'[j].cur = committed'[j]
               /\ streams'[j].open /\ streams'[j].running => Fits(j, streams'[j])
    <3>1. /\ streams[j].open => streams[j].cur = committed[j]
          /\ streams[j].open /\ streams[j].running => Fits(j, streams[j])
        BY RunningFitsIs DEF Inv, Streaming
    <3>2. /\ streams'[j] = IF j = i THEN s ELSE streams[j]
          /\ committed'[j] = IF j = i THEN Setting(ctrl) ELSE committed[j]
        BY <1>1, <1>5, <2>3 DEF TypeOK
    <3>3. QED
        BY <2>2, <3>1, <3>2
  <2>6. Streaming'
      BY <1>1, <1>2, <2>5, RunningFitsWillBe DEF Streaming
  <2>7. QED
      BY <1>3, <2>4, <2>6 DEF Inv
<1>6. QED
    BY <1>4, <1>5 DEF Commit

\* What the setting of a started stream is good for.
LEMMA AltFacts ==
    ASSUME NEW alts \in Seq(Nat), Len(alts) \in Nat \ {0}, NEW need \in Nat, need # 0,
           NEW k, k = ChosenAlt(alts, need), k # 0
    PROVE  /\ k \in DOMAIN alts /\ alts[k] \in Nat \ {0}
           /\ alts[k] >= need \/ \A n \in DOMAIN alts : alts[n] < need
<1> DEFINE I == {n \in 1..Len(alts) : alts[n] # 0 /\ Suffices(alts[n], need)}
           a == AltFor(alts, need)
<1>1. DOMAIN alts = 1..Len(alts) /\ \A n \in 1..Len(alts) : alts[n] \in Nat
    BY ElementOfSeq, LenProperties
<1>2. a = IF I # {} THEN Min(I) ELSE 0
    BY DEF AltFor, SelectInSubSeq
<1>3. (a = 0 <=> I = {}) /\ (a # 0 => a \in I)
  <2>1. I \subseteq Nat \ {0}
      OBVIOUS
  <2> HIDE DEF I, a
  <2>2. QED
      BY <1>2, <2>1, FirstFacts
<1> HIDE DEF a
<1>4. CASE a # 0
  <2>1. k = a
      BY <1>4 DEF ChosenAlt, a
  <2>2. QED
      BY <1>1, <1>3, <1>4, <2>1 DEF Suffices
<1>5. CASE a = 0
  <2>1. k = LastAlt(alts)
      BY <1>5 DEF ChosenAlt, a
  <2>2. k = Len(alts) /\ alts[k] # 0
      BY <2>1 DEF LastAlt
  <2>3. ASSUME NEW n \in DOMAIN alts PROVE alts[n] < need
      BY <1>1, <1>3, <1>5 DEF Suffices
  <2>4. QED
      BY <1>1, <2>2, <2>3
<1>6. QED
    BY <1>4, <1>5

\* The packets of a transfer hold a frame, and one less does not.
LEMMA PacketFacts ==
    ASSUME NEW size \in Nat \ {0}, NEW bytes \in Nat \ {0}, NEW n, n = Packets(size, bytes)
    PROVE  /\ n \in 0..MaxPackets /\ n * bytes - bytes < size
           /\ n * bytes >= size \/ n = MaxPackets
<1>1. MaxPackets \in Nat \ {0}
    BY NegotiationAssumption DEF NegotiationAssumption
<1> DEFINE p == PacketsFor(size, bytes)
<1>2. p \in Nat /\ p * bytes <= size + bytes - 1 /\ size + bytes - 1 < p * bytes + bytes
    BY DivFacts DEF PacketsFor
<1> HIDE DEF p
<1>3. n \in {MaxPackets, p} /\ n <= MaxPackets /\ n <= p
  <2>1. {MaxPackets, p} \subseteq Nat /\ {MaxPackets, p} # {}
      BY <1>1, <1>2
  <2>2. n = Min({MaxPackets, p})
      BY DEF Packets, p
  <2>3. QED
      BY <2>1, <2>2, MinFacts
<1>4. n * bytes <= p * bytes /\ n \in Nat /\ n * bytes \in Nat /\ p * bytes \in Nat
    BY <1>1, <1>2, <1>3
<1>5. QED
    BY <1>1, <1>2, <1>3, <1>4

\* uvc_stream_start_bandwidth.
LEMMA StartStep == ASSUME Inv, NEW i \in Interfaces(camera), NEW div \in Divisors, Start(i, div) PROVE Inv'
<1> DEFINE c    == committed[i]
           alts == camera.ifs[i].alts
           need == Needed(c.payload, div)
           alt  == ChosenAlt(alts, need)
           size == FrameSize(i, c)
           s    == IF Len(alts) > 1
                   THEN [streams[i] EXCEPT !.running = TRUE, !.div = div, !.alt = alt,
                                           !.packets = Packets(size, alts[alt])]
                   ELSE [streams[i] EXCEPT !.running = TRUE, !.div = div]
<1>1. /\ TypeOK /\ camera \in Cameras /\ pc = "idle" /\ streams[i].open /\ claimed' = claimed
      /\ claimed \subseteq Interfaces(camera) /\ UNCHANGED <<deviceVars, ctrl, available, callVars, pc>>
    BY DEF Start, Inv, TypeOK
<1>2. streams[i].cur = c /\ c \in Settings /\ streams[i] \in Streams
    BY <1>1, StreamTypes DEF Inv, Streaming
<1>3. CanRun(i, c, div) /\ streams' = [streams EXCEPT ![i] = s]
    BY <1>2 DEF Start
<1>4. /\ alts \in Seq(Nat) /\ Len(alts) \in Nat \ {0} /\ div \in Nat \ {0} /\ c.payload \in Nat
      /\ HasFrame(i, c) /\ size \in Nat
  <2>1. alts \in Seq(Nat) /\ Len(alts) \in Nat \ {0}
      BY <1>1, CameraFacts
  <2>2. div \in Nat \ {0}
      BY NegotiationAssumption DEF NegotiationAssumption
  <2>3. HasFrame(i, c) /\ Frame(i, c).max \in Nat
      BY <1>1, <1>2, <1>3, FrameFacts DEF CanRun
  <2>4. c.max \in Nat /\ c.payload \in Nat
      BY <1>2 DEF Settings
  <2>5. QED
      BY <2>1, <2>2, <2>3, <2>4 DEF FrameSize
<1>5. CASE ~(Len(alts) > 1)
  <2>1. s \in Streams /\ s.cur = c
      BY <1>2, <1>5 DEF Streams
  <2>2. Fits(i, s)
      BY <1>4, <1>5, <2>1 DEF Fits
  <2> HIDE DEF s
  <2>3. QED
      BY <1>1, <1>3, <2>1, <2>2, StreamStep
<1>6. CASE Len(alts) > 1
  <2>1. c.payload # 0 /\ alt # 0 /\ size # 0
      BY <1>3, <1>6 DEF CanRun
  <2>2. need \in Nat /\ need # 0 /\ (div = 1 => need = c.payload)
    <3>1. c.payload \div div \in Nat /\ (div = 1 => c.payload \div div = c.payload)
        BY <1>4, DivFacts
    <3>2. QED
        BY <1>4, <2>1, <3>1 DEF Needed
  <2>3. /\ alt \in DOMAIN alts /\ alts[alt] \in Nat \ {0}
        /\ alts[alt] >= need \/ \A n \in DOMAIN alts : alts[n] < need
    <3> HIDE DEF alts, need
    <3>1. QED
        BY <1>4, <2>1, <2>2, AltFacts
  <2> DEFINE n == Packets(size, alts[alt])
  <2>4. /\ n \in 0..MaxPackets /\ n * alts[alt] - alts[alt] < size
        /\ n * alts[alt] >= size \/ n = MaxPackets
    <3> HIDE DEF alts, alt, size
    <3>1. QED
        BY <1>4, <2>1, <2>3, PacketFacts
  <2>5. alt \in Nat
    <3> HIDE DEF alt
    <3>1. QED
        BY <1>4, <2>3, LenProperties
  <2> HIDE DEF n, alt, need, size
  <2>6. /\ s \in Streams /\ s.cur = c /\ s.alt = alt /\ s.div = div /\ s.packets = n
      BY <1>2, <1>6, <2>4, <2>5 DEF Streams, n
  <2>7. Fits(i, s)
    <3> HIDE DEF s
    <3>1. s.div > 1 \/ alts[s.alt] >= c.payload \/ \A k \in DOMAIN alts : alts[k] < c.payload
        BY <1>4, <2>2, <2>3, <2>6
    <3>2. QED
        BY <1>4, <2>3, <2>4, <2>6, <3>1 DEF Fits, size
  <2> HIDE DEF s
  <2>8. QED
      BY <1>1, <1>3, <2>6, <2>7, StreamStep
<1>7. QED
    BY <1>5, <1>6

------------------------------------------------------------------------------
(* Theorems *)

\* Every step keeps the invariant.
LEMMA InvStep == Inv /\ [Next]_vars => Inv'
<1> SUFFICES ASSUME Inv, [Next]_vars PROVE Inv'
    OBVIOUS
<1>1. CASE \E cam \in Cameras : Reopen(cam)
    BY <1>1, ReopenStep
<1>2. CASE Ask \/ AskAvailable
    BY <1>2, AskStep, AskAvailableStep
<1>3. CASE Claim \/ Prepare \/ Search
    BY <1>3, ClaimStep, PrepareStep, SearchStep
<1>4. CASE SetProbe \/ GetProbe
    BY <1>4, SetProbeStep, GetProbeStep
<1>5. CASE OpenStream \/ Commit
    BY <1>5, OpenStreamStep, CommitStep
<1>6. CASE \E i \in Interfaces(camera) : Reconfigure(i) \/ Stop(i) \/ CloseStream(i)
    BY <1>6, ReconfigureStep, StopStep, CloseStreamStep
<1>7. CASE \E i \in Interfaces(camera), div \in Divisors : Start(i, div)
    BY <1>7, StartStep
<1>8. CASE UNCHANGED vars
  <2>1. UNCHANGED <<camera, probed, committed, claimed, streams, ctrl, available, ask, rest, pc, res>>
      BY <1>8 DEF vars
  <2>2. Interfaces(camera)' = Interfaces(camera) /\ Described' = Described
      BY <2>1, SameCamera
  <2>3. TypeOK'
      BY <2>1, <2>2 DEF TypeOK, Inv
  <2>4. Questions' /\ Searched' /\ Agreed'
      BY <2>1, QuestionsKept
  <2>5. Streaming'
      BY <2>1, <2>2 DEF Inv, Streaming, RunningFits, HasFrame, Frame, FrameSize, Formats
  <2>6. QED
      BY <2>3, <2>4, <2>5 DEF Inv
<1>9. QED
    BY <1>1, <1>2, <1>3, <1>4, <1>5, <1>6, <1>7, <1>8 DEF Next

\* The invariant always holds.
LEMMA Always == Spec => []Inv
    BY InitInv, InvStep, PTL DEF Spec

\* Type correctness: the control block, the settings of the camera and the streams are of their
\* types, and what is tried is a format that the camera describes.
THEOREM TypeCorrect == Spec => []TypeOK
<1>1. Inv => TypeOK
    BY DEF Inv
<1>2. QED
    BY <1>1, Always, PTL

\* "find a matching frame descriptor and interval" (uvc_get_stream_ctrl_format_size_fps): when a
\* question is answered with "invalid mode" and no transfer failed, a camera that lists its frames
\* in ascending order offers no frame of that size at that rate.
THEOREM OfferedIsFoundHolds == Spec => []OfferedIsFoundAscending
<1>1. Inv => OfferedIsFoundAscending
  <2> SUFFICES ASSUME Inv, Ascending, res = "invalid_mode", ~ask.faulty, NEW f \in CandidateFrames
               PROVE  ~Offers(f)
      BY DEF OfferedIsFoundAscending, OfferedIsFound
  <2>1. GivenUp = Matching(ask.kind)
      BY DEF GivenUp, Inv, Questions, Asking, Trying
  <2>2. \A c \in GivenUp : \A g \in FramesOf(c) : ~Offers(g)
      BY DEF Inv, Searched
  <2>3. QED
      BY <2>1, <2>2 DEF CandidateFrames, FramesOf
<1>2. QED
    BY <1>1, Always, PTL

\* After such a question maxAvailableWidth and maxAvailableHeight, which UVC.cpp asks for next, are
\* those of a frame of the camera in that format and no wider, unless all of them are wider.
THEOREM AvailableIsOfferedHolds == Spec => []AvailableIsOffered
<1>1. Inv => AvailableIsOffered
  <2> SUFFICES ASSUME Inv, Ascending, res = "invalid_mode", ~ask.faulty,
                      \E f \in CandidateFrames : f.size[1] <= ask.size[1]
               PROVE  \E f \in CandidateFrames : f.size = available /\ available[1] <= ask.size[1]
      BY DEF AvailableIsOffered
  <2>1. GivenUp = Matching(ask.kind)
      BY DEF GivenUp, Inv, Questions, Asking, Trying
  <2>2. \A f : f \in CandidateFrames <=> \E c \in GivenUp : f \in FramesOf(c)
      BY <2>1 DEF CandidateFrames, FramesOf
  <2>3. (\E c \in GivenUp : \E f \in FramesOf(c) : f.size[1] <= ask.size[1]) =>
            \E c \in GivenUp : \E f \in FramesOf(c) : f.size = available /\ available[1] <= ask.size[1]
      BY DEF Inv, Searched
  <2>4. QED
      BY <2>2, <2>3
<1>2. QED
    BY <1>1, Always, PTL

\* What uvc_probe_stream_ctrl returns for a camera that takes what it is asked for is the format,
\* the size and the rate that uvc_get_stream_ctrl_format_size was called with.
THEOREM AnswerIsAskedHolds == Spec => []AnswerIsAsked
<1>1. Inv => AnswerIsAsked
    BY DEF Inv, Agreed, Chosen, AnswerIsAsked
<1>2. QED
    BY <1>1, Always, PTL

\* What uvc_stream_start_bandwidth chose fits what the camera is committed to for as long as the
\* stream runs: the alternate setting has the bytes for the payload, if one has, and the transfers
\* hold a frame and not one packet more, or MaxPackets packets.
THEOREM RunningFitsHolds == Spec => []RunningFits
<1>1. Inv => RunningFits
    BY DEF Inv, Streaming
<1>2. QED
    BY <1>1, Always, PTL
------------------------------------------------------------------------------
(* Numbers and their bytes *)

\* Bytes have at least four values.
LEMMA ByteFacts == Byte \in Nat /\ Byte >= 4
BY ControlsAssumption

\* Division with a remainder, for divisors that are not constants.
LEMMA Division ==
    ASSUME NEW v \in Int, NEW d \in Nat \ {0}
    PROVE  v \div d \in Int /\ v % d \in 0..(d - 1) /\ v = (d * (v \div d)) + (v % d)
OBVIOUS

\* There is one quotient and one remainder.
LEMMA OneQuotient ==
    ASSUME NEW d \in Nat \ {0}, NEW q \in Int, NEW p \in Int,
           NEW r \in 0..(d - 1), NEW s \in 0..(d - 1), (d * q) + r = (d * p) + s
    PROVE  q = p
<1>1. ASSUME NEW x \in Int, NEW y \in Int, x > y PROVE d * x >= (d * y) + d
  <2>1. x - (y + 1) \in Nat
      BY <1>1
  <2>2. d * (x - (y + 1)) \in Nat
      BY <2>1
  <2>3. d * (x - (y + 1)) = (d * x) - (d * y) - d
      OBVIOUS
  <2>4. d * x \in Int /\ d * y \in Int
      OBVIOUS
  <2>5. QED
      BY <2>2, <2>3, <2>4
<1>2. ~(q > p)
  <2>1. SUFFICES ASSUME q > p PROVE FALSE
      OBVIOUS
  <2>2. d * q >= (d * p) + d
      BY <1>1, <2>1
  <2>3. d * q \in Int /\ d * p \in Int
      OBVIOUS
  <2>4. QED
      BY <2>2, <2>3
<1>3. ~(p > q)
  <2>1. SUFFICES ASSUME p > q PROVE FALSE
      OBVIOUS
  <2>2. d * p >= (d * q) + d
      BY <1>1, <2>1
  <2>3. d * q \in Int /\ d * p \in Int
      OBVIOUS
  <2>4. QED
      BY <2>2, <2>3
<1>4. QED
    BY <1>2, <1>3

\* To divide by one number and then by another is to divide by their product.
LEMMA DivisionTwice ==
    ASSUME NEW v \in Int, NEW d \in Nat \ {0}, NEW e \in Nat \ {0}
    PROVE  (v \div d) \div e = v \div (d * e)
<1> DEFINE q == v \div d
           r == v % d
           p == q \div e
           s == q % e
<1>1. d * e \in Nat \ {0}
  <2>1. (d - 1) * e \in Nat
      OBVIOUS
  <2>2. d * e = ((d - 1) * e) + e
      OBVIOUS
  <2>3. QED
      BY <2>1, <2>2
<1>2. q \in Int /\ r \in 0..(d - 1) /\ v = (d * q) + r
    BY Division
<1>3. p \in Int /\ s \in 0..(e - 1) /\ q = (e * p) + s
  <2> HIDE DEF q
  <2>1. QED
      BY <1>2, Division
<1>4. v = ((d * e) * p) + ((d * s) + r)
  <2> HIDE DEF q, r, p, s
  <2>1. d * q = (d * (e * p)) + (d * s)
      BY <1>2, <1>3
  <2>2. d * (e * p) = (d * e) * p
      BY <1>3
  <2>3. d * s \in Int /\ (d * e) * p \in Int
      BY <1>3
  <2>4. QED
      BY <1>2, <2>1, <2>2, <2>3
<1>5. (d * s) + r \in 0..((d * e) - 1)
  <2> HIDE DEF q, r, p, s
  <2>1. d * ((e - 1) - s) \in Nat
      BY <1>3
  <2>2. d * ((e - 1) - s) = (d * e) - d - (d * s)
      BY <1>3
  <2>3. d * s \in Nat /\ d * e \in Nat
      BY <1>3
  <2>4. QED
      BY <1>2, <2>1, <2>2, <2>3
<1>6. /\ v \div (d * e) \in Int /\ v % (d * e) \in 0..((d * e) - 1)
      /\ v = ((d * e) * (v \div (d * e))) + (v % (d * e))
    BY <1>1, Division
<1>7. p = v \div (d * e)
  <2> HIDE DEF q, r, p, s
  <2> DEFINE D == d * e
             t == v \div D
             u == v % D
             w == (d * s) + r
  <2>1. /\ D \in Nat \ {0} /\ t \in Int /\ u \in 0..(D - 1) /\ w \in 0..(D - 1) /\ p \in Int
        /\ (D * p) + w = (D * t) + u
      BY <1>1, <1>3, <1>4, <1>5, <1>6
  <2> HIDE DEF D, t, u, w
  <2>2. p = t
      BY <2>1, OneQuotient
  <2>3. QED
      BY <2>2 DEF t, D
<1>8. QED
    BY <1>7

FieldSet == [at : Nat, bytes : {1, 2, 4}, type : {"unsigned", "signed", "flag", "int"}]

\* How much the bytes count.
LEMMA Weights ==
    /\ Weight[1] = 1 /\ Weight[2] = Byte /\ Weight[3] = Byte * Byte
    /\ Weight[4] = Byte * Byte * Byte
    /\ Full(1) = Byte /\ Full(2) = Byte * Byte /\ Full(4) = Byte * (Byte * Byte * Byte)
    /\ \A i \in 1..4 : Weight[i] \in Nat \ {0}
    /\ \A n \in {1, 2, 4} : Full(n) \in Nat /\ Full(n) >= 4
<1> DEFINE D == Byte
<1>1. D \in Nat /\ D >= 4
    BY ByteFacts
<1>2. /\ Weight[1] = 1 /\ Weight[2] = D /\ Weight[3] = D * D /\ Weight[4] = D * D * D
    BY DEF Weight
<1>3. /\ Full(1) = D * Weight[1] /\ Full(2) = D * Weight[2] /\ Full(4) = D * Weight[4]
    BY DEF Full
<1>4. ASSUME NEW x \in Nat, x >= 4 PROVE D * x \in Nat /\ D * x >= 4
  <2>1. (D - 1) * x \in Nat
      BY <1>1
  <2>2. D * x = ((D - 1) * x) + x
      BY <1>1
  <2>3. QED
      BY <2>1, <2>2, <1>4, <1>1
<1>5. D * D \in Nat /\ D * D >= 4
    BY <1>1, <1>4
<1>6. D * D * D \in Nat /\ D * D * D >= 4
  <2>1. D * (D * D) = D * D * D
      BY <1>1
  <2>2. QED
      BY <2>1, <1>4, <1>5
<1>7. D * (D * D * D) \in Nat /\ D * (D * D * D) >= 4
    BY <1>4, <1>6
<1>8. Full(1) = D
    BY <1>1, <1>2, <1>3
<1> HIDE DEF D
<1>9. \A i \in 1..4 : Weight[i] \in Nat \ {0}
  <2>1. 1..4 = {1, 2, 3, 4}
      OBVIOUS
  <2>2. QED
      BY <2>1, <1>1, <1>2, <1>5, <1>6
<1>10. \A n \in {1, 2, 4} : Full(n) \in Nat /\ Full(n) >= 4
    BY <1>1, <1>2, <1>3, <1>5, <1>7, <1>8
<1>11. QED
    BY <1>2, <1>3, <1>8, <1>9, <1>10 DEF D

\* A byte has the values of one.
LEMMA EncodedIsByte ==
    ASSUME NEW v \in Int, NEW i \in 1..4
    PROVE  Encoded(v, i) \in 0..(Byte - 1)
<1>1. v \div Weight[i] \in Int
    BY Weights, Division
<1> DEFINE q == v \div Weight[i]
<1>2. q % Byte \in 0..(Byte - 1)
  <2> HIDE DEF q
  <2>1. q \in Int /\ Byte \in Nat \ {0}
      BY <1>1, ByteFacts DEF q
  <2>2. QED
      BY <2>1, Division
<1>3. QED
    BY <1>2 DEF Encoded

\* Byte by byte a number is divided by Byte.
LEMMA NextByte ==
    ASSUME NEW v \in Int, NEW w \in Nat \ {0}
    PROVE  /\ v \div w \in Int /\ v \div (Byte * w) \in Int
           /\ v \div w = (Byte * (v \div (Byte * w))) + ((v \div w) % Byte)
<1>1. v \div w \in Int
    BY Division
<1>2. Byte \in Nat \ {0}
    BY ByteFacts
<1>3. (v \div w) \div Byte = v \div (w * Byte)
    BY <1>2, DivisionTwice
<1>4. w * Byte = Byte * w
    BY <1>2
<1> DEFINE q == v \div w
<1>5. q \div Byte \in Int /\ q = (Byte * (q \div Byte)) + (q % Byte)
  <2> HIDE DEF q
  <2>1. q \in Int
      BY <1>1 DEF q
  <2>2. QED
      BY <2>1, <1>2, Division
<1>6. QED
    BY <1>1, <1>3, <1>4, <1>5

\* Its bytes are the number, but for what does not fit into them.
LEMMA BytesAdd ==
    ASSUME NEW v \in Int, NEW n \in {1, 2, 4}
    PROVE  LET Part(i) == IF i <= n THEN Encoded(v, i) * Weight[i] ELSE 0
           IN  /\ v \div Full(n) \in Int
               /\ v = (Full(n) * (v \div Full(n))) + (Part(1) + Part(2) + Part(3) + Part(4))
<1> DEFINE D == Byte
           E(i) == Encoded(v, i)
           Q1 == v \div D
           Q2 == v \div (D * D)
           Q3 == v \div (D * D * D)
           Q4 == v \div (D * (D * D * D))
<1>1. D \in Nat /\ D * D \in Nat \ {0} /\ D * D * D \in Nat \ {0} /\ D \in Nat \ {0}
    BY ByteFacts, Weights
<1>2. D * 1 = D /\ D * (D * D) = D * D * D
    BY <1>1
<1>3. v \div 1 = v
    OBVIOUS
<1>4. \A i \in 1..4 : E(i) \in Int
    BY EncodedIsByte
<1>5. Q1 \in Int /\ v = (D * Q1) + E(1)
  <2>1. v \div (D * 1) \in Int /\ v \div 1 = (D * (v \div (D * 1))) + ((v \div 1) % D)
      BY NextByte
  <2>2. E(1) = (v \div 1) % D
      BY Weights DEF Encoded
  <2> HIDE DEF D, E
  <2>3. QED
      BY <2>1, <2>2, <1>2, <1>3
<1>6. Q2 \in Int /\ Q1 = (D * Q2) + E(2)
    BY NextByte, <1>1, Weights DEF Encoded
<1>7. Q3 \in Int /\ Q2 = (D * Q3) + E(3)
    BY NextByte, <1>1, <1>2, Weights DEF Encoded
<1>8. Q4 \in Int /\ Q3 = (D * Q4) + E(4)
    BY NextByte, <1>1, Weights DEF Encoded
<1> HIDE DEF Q1, Q2, Q3, Q4, D, E
<1>9. v = ((D * D) * Q2) + (E(1) + (E(2) * D))
  <2>1. D * Q1 = (D * (D * Q2)) + (D * E(2))
      BY <1>1, <1>4, <1>5, <1>6
  <2>2. D * (D * Q2) = (D * D) * Q2 /\ D * E(2) = E(2) * D
      BY <1>1, <1>4, <1>6
  <2>3. QED
      BY <1>1, <1>4, <1>5, <1>6, <2>1, <2>2
<1>10. v = ((D * (D * D * D)) * Q4) + (E(1) + (E(2) * D) + (E(3) * (D * D)) + (E(4) * (D * D * D)))
  <2>1. (D * D) * Q2 = ((D * D) * (D * Q3)) + ((D * D) * E(3))
      BY <1>1, <1>4, <1>6, <1>7
  <2>2. (D * D) * (D * Q3) = (D * D * D) * Q3 /\ (D * D) * E(3) = E(3) * (D * D)
      BY <1>1, <1>4, <1>7
  <2>3. (D * D * D) * Q3 = ((D * D * D) * (D * Q4)) + ((D * D * D) * E(4))
      BY <1>1, <1>4, <1>7, <1>8
  <2>4. /\ (D * D * D) * (D * Q4) = (D * (D * D * D)) * Q4
        /\ (D * D * D) * E(4) = E(4) * (D * D * D)
      BY <1>1, <1>4, <1>8
  <2>5. /\ (D * (D * D * D)) * Q4 \in Int /\ E(4) * (D * D * D) \in Int
        /\ E(3) * (D * D) \in Int /\ E(2) * D \in Int
      BY <1>1, <1>4, <1>8
  <2>6. QED
      BY <1>1, <1>4, <1>9, <2>1, <2>2, <2>3, <2>4, <2>5
<1>11. CASE n = 1
    BY <1>1, <1>4, <1>5, <1>11, Weights DEF D, E, Q1
<1>12. CASE n = 2
  <2>1. E(2) * D \in Int /\ E(1) * 1 = E(1)
      BY <1>1, <1>4
  <2>2. QED
      BY <1>1, <1>4, <1>6, <1>9, <1>12, <2>1, Weights DEF D, E, Q2
<1>13. CASE n = 4
  <2>1. E(1) * 1 = E(1)
      BY <1>4
  <2>2. QED
      BY <1>8, <1>10, <1>13, <2>1, Weights DEF D, E, Q4
<1>14. QED
    BY <1>11, <1>12, <1>13

\* A number that fits into the bytes of a field comes back from them.
LEMMA DecodedIsEncoded ==
    ASSUME NEW f \in FieldSet, NEW data, NEW v \in Numbers(f.bytes, f.type),
           \A i \in 1..f.bytes : data[f.at + i] = Encoded(v, i)
    PROVE  Decoded(data, f) = v
<1> DEFINE F == Full(f.bytes)
           h == F \div 2
           n == Unsigned(data, f)
           q == v \div F
<1>1. f.bytes \in {1, 2, 4} /\ f.bytes \in Nat
    BY DEF FieldSet
<1>2. F \in Nat /\ F >= 4
    BY <1>1, Weights
<1>3. h \in Nat /\ 2 * h <= F
  <2> HIDE DEF F
  <2>1. QED
      BY <1>2
<1>4. IF f.type = "signed" THEN v \in -h..(h - 1) ELSE v \in 0..(F - 1)
    BY DEF Numbers
<1>5. v \in Int
  <2> HIDE DEF F, h
  <2>1. QED
      BY <1>2, <1>3, <1>4
<1>6. q \in Int /\ v = (F * q) + n /\ n \in Int
  <2> DEFINE Part(i) == IF i <= f.bytes THEN Encoded(v, i) * Weight[i] ELSE 0
  <2>1. q \in Int /\ v = (F * q) + (Part(1) + Part(2) + Part(3) + Part(4))
      BY <1>1, <1>5, BytesAdd
  <2>2. \A i \in 1..4 : Part(i) = IF i <= f.bytes THEN ByteOf(data, f, i) * Weight[i] ELSE 0
      BY <1>1 DEF ByteOf
  <2>3. n = Part(1) + Part(2) + Part(3) + Part(4)
      BY <2>2 DEF Unsigned
  <2>4. \A i \in 1..4 : Part(i) \in Int
    <3>1. \A i \in 1..4 : Encoded(v, i) \in Int /\ Weight[i] \in Int
        BY <1>5, EncodedIsByte, Weights
    <3>2. QED
        BY <1>1, <3>1
  <2> HIDE DEF Part, n, q
  <2>5. n \in Int
      BY <2>3, <2>4
  <2>6. QED
      BY <2>1, <2>3, <2>5
<1>7. q = v \div F /\ v % F \in 0..(F - 1) /\ v = (F * q) + (v % F)
  <2> HIDE DEF F
  <2>1. QED
      BY <1>2, <1>5, Division DEF q
<1>8. n \in 0..(F - 1)
  <2> HIDE DEF F, n, q
  <2>1. F * q \in Int
      BY <1>2, <1>6
  <2>2. n = v % F
      BY <1>5, <1>6, <1>7, <2>1
  <2>3. QED
      BY <2>2, <1>7
<1> HIDE DEF F, h, n, q
<1>9. CASE v >= 0
  <2>1. v \in 0..(F - 1)
      BY <1>2, <1>3, <1>4, <1>9
  <2>2. F * 0 = 0
      BY <1>2
  <2>3. (F * q) + n = (F * 0) + v
      BY <1>5, <1>6, <2>2
  <2>4. q = 0
      BY <1>2, <1>6, <1>8, <2>1, <2>3, OneQuotient
  <2>5. n = v
      BY <1>5, <1>6, <2>2, <2>4
  <2>6. ~(f.type = "signed" /\ 2 * n >= F)
      BY <1>2, <1>3, <1>4, <1>9, <2>5
  <2>7. QED
      BY <2>5, <2>6 DEF Decoded, n, F
<1>10. CASE v < 0
  <2>1. f.type = "signed" /\ v \in -h..(h - 1)
      BY <1>2, <1>4, <1>10
  <2>2. v + F \in 0..(F - 1)
      BY <1>2, <1>3, <1>5, <1>10, <2>1
  <2>3. F * (-1) = -F
      BY <1>2
  <2>4. (F * q) + n = (F * (-1)) + (v + F)
      BY <1>2, <1>5, <1>6, <2>3
  <2>5. q = -1
      BY <1>2, <1>6, <1>8, <2>2, <2>4, OneQuotient
  <2>6. n = v + F
      BY <1>2, <1>5, <1>6, <2>3, <2>5
  <2>7. 2 * n >= F
      BY <1>2, <1>3, <2>1, <2>6
  <2>8. n - F = v
      BY <1>2, <1>5, <2>6
  <2>9. QED
      BY <2>1, <2>7, <2>8 DEF Decoded, n, F
<1>11. QED
    BY <1>5, <1>9, <1>10

------------------------------------------------------------------------------
(* The table: parameters do not overlap and leave no byte *)

FieldsOK(fields) ==
    /\ fields \in Seq(FieldSet) /\ fields # <<>>
    /\ \A k, l \in DOMAIN fields : k < l => fields[k].at + fields[k].bytes <= fields[l].at
    /\ \A k \in DOMAIN fields : fields[k].at + fields[k].bytes <= Width(fields)
    /\ \A b \in 1..Width(fields) : \E k \in DOMAIN fields : b - fields[k].at \in 1..fields[k].bytes

\* One to four parameters, each behind the one before.
LEMMA OneField ==
    ASSUME NEW f \in FieldSet, f.at = 0
    PROVE  FieldsOK(<<f>>)
<1>1. f.bytes \in Nat /\ f.bytes > 0
    BY DEF FieldSet
<1>2. Width(<<f>>) = f.bytes
    BY <1>1 DEF Width
<1>3. QED
    BY <1>1, <1>2 DEF FieldsOK

LEMMA TwoFields ==
    ASSUME NEW f \in FieldSet, NEW g \in FieldSet, f.at = 0, g.at = f.bytes
    PROVE  FieldsOK(<<f, g>>)
<1> DEFINE s == <<f, g>>
<1>1. f.bytes \in Nat /\ f.bytes > 0 /\ g.bytes \in Nat /\ g.bytes > 0
    BY DEF FieldSet
<1>2. s \in Seq(FieldSet) /\ s # <<>> /\ DOMAIN s = {1, 2} /\ s[1] = f /\ s[2] = g
    OBVIOUS
<1>3. Width(s) = g.at + g.bytes
    BY DEF Width
<1> HIDE DEF s
<1>4. \A b \in 1..Width(s) : b - f.at \in 1..f.bytes \/ b - g.at \in 1..g.bytes
    BY <1>1, <1>3
<1>5. FieldsOK(s)
  <2>1. \A k, l \in DOMAIN s : k < l => s[k].at + s[k].bytes <= s[l].at
      BY <1>1, <1>2
  <2>2. \A k \in DOMAIN s : s[k].at + s[k].bytes <= Width(s)
    <3>1. /\ f.at + f.bytes <= g.at + g.bytes
        BY <1>1
    <3>2. g.at + g.bytes <= g.at + g.bytes
        BY <1>1
    <3>3. /\ s[1].at + s[1].bytes <= Width(s) /\ s[2].at + s[2].bytes <= Width(s)
        BY <1>2, <1>3, <3>1, <3>2
    <3>4. QED
        BY <1>2, <3>3
  <2>3. \A b \in 1..Width(s) : \E k \in DOMAIN s : b - s[k].at \in 1..s[k].bytes
      BY <1>2, <1>4
  <2>4. QED
      BY <1>2, <2>1, <2>2, <2>3 DEF FieldsOK
<1>6. QED
    BY <1>5 DEF s

LEMMA ThreeFields ==
    ASSUME NEW f \in FieldSet, NEW g \in FieldSet, NEW h \in FieldSet,
           f.at = 0, g.at = f.bytes, h.at = g.at + g.bytes
    PROVE  FieldsOK(<<f, g, h>>)
<1> DEFINE s == <<f, g, h>>
<1>1. /\ f.bytes \in Nat /\ f.bytes > 0 /\ g.bytes \in Nat /\ g.bytes > 0
      /\ h.bytes \in Nat /\ h.bytes > 0
    BY DEF FieldSet
<1>2. /\ s \in Seq(FieldSet) /\ s # <<>> /\ DOMAIN s = {1, 2, 3}
      /\ s[1] = f /\ s[2] = g /\ s[3] = h
    OBVIOUS
<1>3. Width(s) = h.at + h.bytes
    BY DEF Width
<1> HIDE DEF s
<1>4. \A b \in 1..Width(s) :
          b - f.at \in 1..f.bytes \/ b - g.at \in 1..g.bytes \/ b - h.at \in 1..h.bytes
    BY <1>1, <1>3
<1>5. FieldsOK(s)
  <2>1. \A k, l \in DOMAIN s : k < l => s[k].at + s[k].bytes <= s[l].at
    <3>1. /\ f.at + f.bytes <= g.at /\ f.at + f.bytes <= h.at /\ g.at + g.bytes <= h.at
        BY <1>1
    <3>2. QED
        BY <1>2, <3>1
  <2>2. \A k \in DOMAIN s : s[k].at + s[k].bytes <= Width(s)
    <3>1. /\ f.at + f.bytes <= h.at + h.bytes
          /\ g.at + g.bytes <= h.at + h.bytes
        BY <1>1
    <3>2. h.at + h.bytes <= h.at + h.bytes
        BY <1>1
    <3>3. /\ s[1].at + s[1].bytes <= Width(s) /\ s[2].at + s[2].bytes <= Width(s)
          /\ s[3].at + s[3].bytes <= Width(s)
        BY <1>2, <1>3, <3>1, <3>2
    <3>4. QED
        BY <1>2, <3>3
  <2>3. \A b \in 1..Width(s) : \E k \in DOMAIN s : b - s[k].at \in 1..s[k].bytes
      BY <1>2, <1>4
  <2>4. QED
      BY <1>2, <2>1, <2>2, <2>3 DEF FieldsOK
<1>6. QED
    BY <1>5 DEF s

LEMMA FourFields ==
    ASSUME NEW f \in FieldSet, NEW g \in FieldSet, NEW h \in FieldSet, NEW j \in FieldSet,
           f.at = 0, g.at = f.bytes, h.at = g.at + g.bytes, j.at = h.at + h.bytes
    PROVE  FieldsOK(<<f, g, h, j>>)
<1> DEFINE s == <<f, g, h, j>>
<1>1. /\ f.bytes \in Nat /\ f.bytes > 0 /\ g.bytes \in Nat /\ g.bytes > 0
      /\ h.bytes \in Nat /\ h.bytes > 0 /\ j.bytes \in Nat /\ j.bytes > 0
    BY DEF FieldSet
<1>2. /\ s \in Seq(FieldSet) /\ s # <<>> /\ DOMAIN s = {1, 2, 3, 4}
      /\ s[1] = f /\ s[2] = g /\ s[3] = h /\ s[4] = j
    OBVIOUS
<1>3. Width(s) = j.at + j.bytes
    BY DEF Width
<1> HIDE DEF s
<1>4. \A b \in 1..Width(s) : \/ b - f.at \in 1..f.bytes \/ b - g.at \in 1..g.bytes
                             \/ b - h.at \in 1..h.bytes \/ b - j.at \in 1..j.bytes
    BY <1>1, <1>3
<1>5. FieldsOK(s)
  <2>1. \A k, l \in DOMAIN s : k < l => s[k].at + s[k].bytes <= s[l].at
    <3>1. /\ f.at + f.bytes <= g.at /\ f.at + f.bytes <= h.at /\ f.at + f.bytes <= j.at
          /\ g.at + g.bytes <= h.at /\ g.at + g.bytes <= j.at /\ h.at + h.bytes <= j.at
        BY <1>1
    <3>2. QED
        BY <1>2, <3>1
  <2>2. \A k \in DOMAIN s : s[k].at + s[k].bytes <= Width(s)
    <3>1. /\ f.at + f.bytes <= j.at + j.bytes
          /\ g.at + g.bytes <= j.at + j.bytes
          /\ h.at + h.bytes <= j.at + j.bytes
        BY <1>1
    <3>2. j.at + j.bytes <= j.at + j.bytes
        BY <1>1
    <3>3. /\ s[1].at + s[1].bytes <= Width(s) /\ s[2].at + s[2].bytes <= Width(s)
          /\ s[3].at + s[3].bytes <= Width(s) /\ s[4].at + s[4].bytes <= Width(s)
        BY <1>2, <1>3, <3>1, <3>2
    <3>4. QED
        BY <1>2, <3>3
  <2>3. \A b \in 1..Width(s) : \E k \in DOMAIN s : b - s[k].at \in 1..s[k].bytes
      BY <1>2, <1>4
  <2>4. QED
      BY <1>2, <2>1, <2>2, <2>3 DEF FieldsOK
<1>6. QED
    BY <1>5 DEF s

\* Words, of two bytes each.
LEMMA WordFields ==
    ASSUME NEW n \in Nat \ {0}
    PROVE  FieldsOK(Words(n))
<1> DEFINE s == Words(n)
<1>1. /\ s \in Seq(FieldSet) /\ DOMAIN s = 1..n /\ Len(s) = n
      /\ \A k \in 1..n : s[k].at = 2 * (k - 1) /\ s[k].bytes = 2
  <2>1. \A k \in 1..n : UInt(2 * (k - 1), 2) \in FieldSet
      BY DEF UInt, Field, FieldSet
  <2>2. s = [k \in 1..n |-> UInt(2 * (k - 1), 2)]
      BY DEF Words
  <2>3. s \in Seq(FieldSet)
      BY <2>1, <2>2
  <2>4. QED
      BY <2>2, <2>3 DEF UInt, Field
<1> HIDE DEF s
<1>2. Width(s) = 2 * n /\ s # <<>>
    BY <1>1 DEF Width
<1>3. ASSUME NEW b \in 1..(2 * n) PROVE \E k \in 1..n : b - s[k].at \in 1..2
  <2>1. CASE \E k \in 1..n : b = 2 * k
    <3>1. PICK k \in 1..n : b = 2 * k
        BY <2>1
    <3>2. b - s[k].at = 2
        BY <1>1, <3>1
    <3>3. QED
        BY <3>2
  <2>2. CASE \A k \in 1..n : b # 2 * k
    <3>1. (b + 1) \div 2 \in 1..n /\ b = 2 * ((b + 1) \div 2) - 1
        BY <2>2
    <3>2. b - s[(b + 1) \div 2].at = 1
        BY <1>1, <3>1
    <3>3. QED
        BY <3>1, <3>2
  <2>3. QED
      BY <2>1, <2>2
<1>4. FieldsOK(s)
  <2>1. \A k, l \in DOMAIN s : k < l => s[k].at + s[k].bytes <= s[l].at
      BY <1>1
  <2>2. \A k \in DOMAIN s : s[k].at + s[k].bytes <= Width(s)
      BY <1>1, <1>2
  <2>3. \A b \in 1..Width(s) : \E k \in DOMAIN s : b - s[k].at \in 1..s[k].bytes
    <3>1. ASSUME NEW b \in 1..(2 * n) PROVE \E k \in DOMAIN s : b - s[k].at \in 1..s[k].bytes
      <4>1. PICK k \in 1..n : b - s[k].at \in 1..2
          BY <1>3
      <4>2. k \in DOMAIN s /\ s[k].bytes = 2
          BY <1>1
      <4>3. QED
          BY <4>1, <4>2
    <3>2. QED
        BY <1>2, <3>1
  <2>4. QED
      BY <1>1, <1>2, <2>1, <2>2, <2>3 DEF FieldsOK
<1>5. QED
    BY <1>4 DEF s

\* What is at a byte of a parameter, and that every number of a parameter comes back.
FitsInto(values, fields) ==
    /\ values \in [DOMAIN fields -> Int]
    /\ \A k \in DOMAIN fields : values[k] \in Numbers(fields[k].bytes, fields[k].type)

LEMMA WidthFacts ==
    ASSUME NEW fields, FieldsOK(fields)
    PROVE  /\ Width(fields) \in Nat
           /\ \A k \in DOMAIN fields : fields[k] \in FieldSet
<1>1. Len(fields) \in DOMAIN fields /\ \A k \in DOMAIN fields : fields[k] \in FieldSet
    BY DEF FieldsOK
<1>2. QED
    BY <1>1 DEF Width, FieldSet

LEMMA PlaceOfByte ==
    ASSUME NEW fields, FieldsOK(fields), NEW k \in DOMAIN fields, NEW i \in 1..fields[k].bytes
    PROVE  fields[k].at + i \in 1..Width(fields) /\ Place(fields, fields[k].at + i) = k
<1> DEFINE b == fields[k].at + i
<1>1. \A l \in DOMAIN fields : fields[l].at \in Nat /\ fields[l].bytes \in Nat /\ l \in Nat
  <2>1. \A l \in DOMAIN fields : fields[l] \in FieldSet
      BY WidthFacts
  <2>2. DOMAIN fields \subseteq Nat
      BY DEF FieldsOK
  <2>3. QED
      BY <2>1, <2>2 DEF FieldSet
<1>2. b \in 1..Width(fields)
  <2>1. fields[k].at + fields[k].bytes <= Width(fields)
      BY DEF FieldsOK
  <2>2. QED
      BY <1>1, <2>1, WidthFacts
<1>3. b - fields[k].at \in 1..fields[k].bytes
    BY <1>1
<1>4. ASSUME NEW l \in DOMAIN fields, b - fields[l].at \in 1..fields[l].bytes PROVE l = k
  <2>1. /\ k < l => fields[k].at + fields[k].bytes <= fields[l].at
        /\ l < k => fields[l].at + fields[l].bytes <= fields[k].at
      BY DEF FieldsOK
  <2>2. QED
      BY <1>1, <1>4, <2>1
<1>5. QED
    BY <1>2, <1>3, <1>4 DEF Place

LEMMA ByteOfData ==
    ASSUME NEW fields, FieldsOK(fields), NEW values,
           NEW k \in DOMAIN fields, NEW i \in 1..fields[k].bytes
    PROVE  Data(values, fields)[fields[k].at + i] = Encoded(values[k], i)
<1> DEFINE b == fields[k].at + i
<1>1. b \in 1..Width(fields) /\ Place(fields, b) = k
    BY PlaceOfByte
<1>2. Data(values, fields)[b] = Encoded(values[k], b - fields[k].at)
    BY <1>1 DEF Data
<1>3. b - fields[k].at = i
    BY WidthFacts DEF FieldSet
<1>4. QED
    BY <1>2, <1>3

LEMMA ValuesOfData ==
    ASSUME NEW fields, FieldsOK(fields), NEW values, FitsInto(values, fields)
    PROVE  Values(Data(values, fields), fields) = values
<1> DEFINE data == Data(values, fields)
<1>1. ASSUME NEW k \in DOMAIN fields PROVE Decoded(data, fields[k]) = values[k]
  <2>1. fields[k] \in FieldSet /\ values[k] \in Numbers(fields[k].bytes, fields[k].type)
      BY WidthFacts DEF FitsInto
  <2>2. \A i \in 1..fields[k].bytes : data[fields[k].at + i] = Encoded(values[k], i)
      BY ByteOfData
  <2> HIDE DEF data
  <2>3. QED
      BY <2>1, <2>2, DecodedIsEncoded
<1>2. values = [k \in DOMAIN fields |-> values[k]]
    BY DEF FitsInto
<1>3. QED
    BY <1>1, <1>2 DEF Values

LEMMA DataIsBytes ==
    ASSUME NEW fields, FieldsOK(fields), NEW values \in [DOMAIN fields -> Int]
    PROVE  /\ Data(values, fields) \in Seq(0..(Byte - 1))
           /\ Len(Data(values, fields)) = Width(fields)
<1>1. Width(fields) \in Nat
    BY WidthFacts
<1>2. ASSUME NEW b \in 1..Width(fields)
      PROVE  LET k == Place(fields, b) IN Encoded(values[k], b - fields[k].at) \in 0..(Byte - 1)
  <2> DEFINE p == Place(fields, b)
  <2>1. p \in DOMAIN fields /\ b - fields[p].at \in 1..fields[p].bytes
      BY DEF FieldsOK, Place
  <2>2. values[p] \in Int /\ b - fields[p].at \in 1..4
    <3>1. fields[p] \in FieldSet
        BY <2>1, WidthFacts
    <3>2. fields[p].bytes \in {1, 2, 4}
        BY <3>1 DEF FieldSet
    <3> HIDE DEF p
    <3>3. QED
        BY <2>1, <3>2
  <2>3. QED
      BY <2>2, EncodedIsByte
<1>3. Data(values, fields) \in Seq(0..(Byte - 1))
  <2> DEFINE E(b) == LET k == Place(fields, b) IN Encoded(values[k], b - fields[k].at)
  <2>1. \A b \in 1..Width(fields) : E(b) \in 0..(Byte - 1)
      BY <1>2
  <2>2. Data(values, fields) = [b \in 1..Width(fields) |-> E(b)]
      BY DEF Data
  <2> HIDE DEF E
  <2>3. QED
    <3>1. Data(values, fields) \in [1..Width(fields) -> 0..(Byte - 1)]
        BY <2>1, <2>2
    <3>2. QED
        BY <1>1, <3>1, SeqDef
<1>4. DOMAIN Data(values, fields) = 1..Width(fields)
    BY DEF Data
<1>5. QED
    BY <1>1, <1>3, <1>4

\* The parameters of every function of the table are as they should be.
LEMMA RowsAreOK == \A r \in Rows : FieldsOK(r.fields)
<1>1. \A n \in {1, 2, 4} : \A at \in Nat : UInt(at, n) \in FieldSet /\ SInt(at, n) \in FieldSet
    BY DEF UInt, SInt, Field, FieldSet
<1>2. Flag \in FieldSet /\ Int32 \in FieldSet /\ Flag.at = 0 /\ Int32.at = 0
    BY DEF Flag, Int32, Field, FieldSet
<1>3. \A n \in {1, 2, 4} : \A at \in Nat :
          /\ UInt(at, n).at = at /\ UInt(at, n).bytes = n
          /\ SInt(at, n).at = at /\ SInt(at, n).bytes = n
    BY DEF UInt, SInt, Field
<1>4. /\ \A n \in {1, 2, 4} : FieldsOK(<<UInt(0, n)>>) /\ FieldsOK(<<SInt(0, n)>>)
      /\ FieldsOK(<<Flag>>) /\ FieldsOK(<<Int32>>)
  <2>1. \A n \in {1, 2, 4} : FieldsOK(<<UInt(0, n)>>) /\ FieldsOK(<<SInt(0, n)>>)
      BY <1>1, <1>3, OneField
  <2>2. QED
      BY <2>1, <1>2, OneField
<1>5. FieldsOK(<<SInt(0, 1), UInt(1, 1)>>) /\ FieldsOK(<<SInt(0, 4), SInt(4, 4)>>)
    BY <1>1, <1>3, TwoFields
<1>6. FieldsOK(<<SInt(0, 1), UInt(1, 1), UInt(2, 1)>>)
    BY <1>1, <1>3, ThreeFields
<1>7. FieldsOK(<<SInt(0, 1), UInt(1, 1), SInt(2, 1), UInt(3, 1)>>)
  <2> DEFINE f == SInt(0, 1)
             g == UInt(1, 1)
             h == SInt(2, 1)
             j == UInt(3, 1)
  <2>1. f \in FieldSet /\ g \in FieldSet /\ h \in FieldSet /\ j \in FieldSet
      BY <1>1
  <2>2. /\ f.at = 0 /\ g.at = 1 /\ h.at = 2 /\ j.at = 3
        /\ f.bytes = 1 /\ g.bytes = 1 /\ h.bytes = 1
      BY <1>3
  <2> HIDE DEF f, g, h, j
  <2>3. FieldsOK(<<f, g, h, j>>)
      BY <2>1, <2>2, FourFields
  <2>4. QED
      BY <2>3 DEF f, g, h, j
<1>8. FieldsOK(Words(6)) /\ FieldsOK(Words(5))
    BY WordFields
<1>9. \A r \in InterfaceControls \cup ExposureControls \cup LightControls : FieldsOK(r.fields)
    BY <1>4 DEF InterfaceControls, ExposureControls, LightControls, Interface, Terminal,
                Processing, Row
<1>10. \A r \in FocusControls \cup IrisControls \cup ZoomControls : FieldsOK(r.fields)
    BY <1>4, <1>5, <1>6 DEF FocusControls, IrisControls, ZoomControls, Terminal, Row
<1>11. \A r \in PantiltControls \cup RollControls \cup WindowControls : FieldsOK(r.fields)
    BY <1>4, <1>5, <1>7, <1>8 DEF PantiltControls, RollControls, WindowControls, Terminal, Row
<1>12. \A r \in GainControls \cup HueControls \cup WhiteControls : FieldsOK(r.fields)
    BY <1>4 DEF GainControls, HueControls, WhiteControls, Processing, Row
<1>13. \A r \in ComponentControls \cup AnalogControls : FieldsOK(r.fields)
    BY <1>4 DEF ComponentControls, AnalogControls, Processing, Row
<1>14. QED
    BY <1>9, <1>10, <1>11, <1>12, <1>13 DEF Rows

\* The selector of a function is the name of one; it is its own but for the iris.
LEMMA SelectorsAreNames == \A r \in Rows : r.selector \in DOMAIN Controls
<1>1. DOMAIN Controls = {r.name : r \in Rows}
    BY DEF Controls
<1>2. \A r \in InterfaceControls \cup ExposureControls \cup FocusControls \cup ZoomControls :
          r.selector = r.name
    BY DEF InterfaceControls, ExposureControls, FocusControls, ZoomControls, Interface, Terminal,
           Row
<1>3. \A r \in PantiltControls \cup RollControls \cup WindowControls \cup LightControls :
          r.selector = r.name
    BY DEF PantiltControls, RollControls, WindowControls, LightControls, Terminal, Processing, Row
<1>4. \A r \in GainControls \cup HueControls \cup WhiteControls : r.selector = r.name
    BY DEF GainControls, HueControls, WhiteControls, Processing, Row
<1>5. \A r \in ComponentControls \cup AnalogControls : r.selector = r.name
    BY DEF ComponentControls, AnalogControls, Processing, Row
<1>6. \A r \in IrisControls : r.selector \in {q.name : q \in FocusControls}
    BY DEF IrisControls, FocusControls, Terminal, Row
<1>7. QED
    BY <1>1, <1>2, <1>3, <1>4, <1>5, <1>6 DEF Rows

\* The power line frequency is one byte.
LEMMA PowerLineIsAByte == Fields("powerline_freqency") = <<UInt(0, 1)>>
<1> DEFINE name == "powerline_freqency"
           row  == Processing(name, <<UInt(0, 1)>>)
<1>1. \A r \in InterfaceControls \cup ExposureControls \cup FocusControls \cup ZoomControls
               \cup IrisControls : r.name # name
    BY DEF InterfaceControls, ExposureControls, FocusControls, ZoomControls, IrisControls,
           Interface, Terminal, Row
<1>2. \A r \in PantiltControls \cup RollControls \cup WindowControls \cup LightControls :
          r.name # name
    BY DEF PantiltControls, RollControls, WindowControls, LightControls, Terminal, Processing, Row
<1>3. \A r \in HueControls \cup WhiteControls : r.name # name
    BY DEF HueControls, WhiteControls, Processing, Row
<1>4. \A r \in ComponentControls \cup AnalogControls : r.name # name
    BY DEF ComponentControls, AnalogControls, Processing, Row
<1>5. row \in GainControls /\ row.name = name /\ \A r \in GainControls : r.name = name => r = row
    BY DEF GainControls, Processing, Row
<1>6. row \in Rows /\ row.name = name /\ \A r \in Rows : r.name = name => r = row
  <2> HIDE DEF row, name
  <2>1. QED
      BY <1>1, <1>2, <1>3, <1>4, <1>5 DEF Rows
<1>7. Controls[name] = row
    BY <1>6 DEF Controls
<1>8. QED
    BY <1>7 DEF Fields, Processing, Row

\* What the rest needs of the table.
LEMMA TableFacts ==
    ASSUME NEW c \in DOMAIN Controls
    PROVE  /\ FieldsOK(Fields(c)) /\ Widths[c] = Width(Fields(c)) /\ Widths[c] \in Nat
           /\ Size(Key(c)) \in Nat
<1>1. \A d \in DOMAIN Controls : Controls[d] \in Rows
    BY DEF Controls
<1>2. \A d \in DOMAIN Controls : FieldsOK(Fields(d))
    BY <1>1, RowsAreOK DEF Fields
<1>3. \A d \in DOMAIN Controls : Widths[d] = Width(Fields(d)) /\ Widths[d] \in Nat
    BY <1>2, WidthFacts DEF Widths
<1>4. Key(c)[2] \in DOMAIN Controls
    BY <1>1, SelectorsAreNames DEF Key
<1>5. QED
    BY <1>2, <1>3, <1>4 DEF Size

------------------------------------------------------------------------------
(* Types *)

\* A call that the application waits in, and what a setter sends in it.
Waiting ==
    call # NoCall =>
        /\ call = [op |-> call.op, control |-> call.control, values |-> call.values]
        /\ call.op \in {"get", "set", "get_def"} /\ call.control \in inUse
        /\ call.op = "set" => call.values \in [DOMAIN Fields(call.control) -> Int]
        /\ call.op = "get_def" => call.control = "powerline_freqency"

ControlsTypeInv == ControlsTypeOK /\ inUse \in Uses /\ Waiting

\* The controls in use are of the table, and the camera has the bytes of each.
LEMMA InUse ==
    ASSUME inUse \in Uses
    PROVE  /\ inUse \subseteq DOMAIN Controls
           /\ \A c \in inUse : Key(c) \in {Key(d) : d \in inUse}
           /\ \A c \in inUse : \A values \in Given[c] :
                 /\ values \in [DOMAIN Fields(c) -> Int]
                 /\ \A k \in DOMAIN values : values[k] \in Arguments(Fields(c)[k])
BY ControlsAssumption

\* What a setter is given it sends as numbers.
LEMMA SentIsInt ==
    ASSUME inUse \in Uses, NEW c \in inUse, NEW values \in Given[c]
    PROVE  /\ [k \in DOMAIN values |-> AsSent(Fields(c)[k], values[k])]
                    \in [DOMAIN Fields(c) -> Int]
           /\ c = "powerline_freqency" => <<values[1] % 4>> \in [DOMAIN Fields(c) -> Int]
<1>1. values \in [DOMAIN Fields(c) -> Int]
    BY InUse
<1>2. \A k \in DOMAIN values : AsSent(Fields(c)[k], values[k]) \in Int
    BY <1>1 DEF AsSent
<1>3. [k \in DOMAIN values |-> AsSent(Fields(c)[k], values[k])] \in [DOMAIN Fields(c) -> Int]
    BY <1>1, <1>2
<1>4. ASSUME c = "powerline_freqency" PROVE <<values[1] % 4>> \in [DOMAIN Fields(c) -> Int]
  <2>1. DOMAIN Fields(c) = {1}
      BY <1>4, PowerLineIsAByte
  <2>2. values[1] % 4 \in Int
      BY <1>1, <2>1
  <2>3. QED
      BY <2>1, <2>2
<1>5. QED
    BY <1>3, <1>4

\* What is sent is bytes, as many as the control has if the camera accepts them.
LEMMA SentIsBytes ==
    ASSUME ControlsTypeInv, call # NoCall, call.op = "set"
    PROVE  /\ Sent \in Seq(0..(Byte - 1)) /\ call.control \in inUse
           /\ Accepts => Len(Sent) = Size(Key(call.control))
<1>1. call.control \in inUse /\ call.values \in [DOMAIN Fields(call.control) -> Int]
    BY DEF ControlsTypeInv, Waiting
<1>2. FieldsOK(Fields(call.control))
    BY <1>1, InUse, TableFacts DEF ControlsTypeInv
<1>3. QED
    BY <1>1, <1>2, DataIsBytes DEF Sent, Accepts

\* The camera with a control set to what was sent.
LEMMA StoredKeepsType ==
    ASSUME ControlsTypeInv, call # NoCall, call.op = "set", Accepts,
           stored' = [stored EXCEPT ![Key(call.control)] = Sent]
    PROVE  /\ stored' \in [{Key(c) : c \in inUse} -> Seq(0..(Byte - 1))]
           /\ \A key \in DOMAIN stored' : Len(stored'[key]) = Size(key)
<1>1. /\ Sent \in Seq(0..(Byte - 1)) /\ call.control \in inUse
      /\ Len(Sent) = Size(Key(call.control))
    BY SentIsBytes
<1>2. /\ stored \in [{Key(c) : c \in inUse} -> Seq(0..(Byte - 1))]
      /\ \A key \in DOMAIN stored : Len(stored[key]) = Size(key)
    BY DEF ControlsTypeInv, ControlsTypeOK
<1> DEFINE key == Key(call.control)
<1> HIDE DEF key
<1>3. stored' = [stored EXCEPT ![key] = Sent] /\ Len(Sent) = Size(key)
    BY <1>1 DEF key
<1>4. QED
    BY <1>1, <1>2, <1>3

LEMMA ControlsTypeInit == ControlsInit => ControlsTypeInv
<1> SUFFICES ASSUME ControlsInit PROVE ControlsTypeInv
    OBVIOUS
<1>1. inUse \in Uses
    BY DEF ControlsInit
<1>2. \A c \in inUse : Size(Key(c)) \in Nat
    BY <1>1, InUse, TableFacts
<1> DEFINE Keys == {Key(c) : c \in inUse}
<1>3. \A key \in Keys : Size(key) \in Nat
    BY <1>2
<1>4. /\ stored \in [Keys -> Seq(0..(Byte - 1))]
      /\ \A key \in DOMAIN stored : Len(stored[key]) = Size(key)
  <2>1. stored = [key \in Keys |-> [b \in 1..Size(key) |-> 0]]
      BY DEF ControlsInit
  <2>2. ASSUME NEW key \in Keys
        PROVE  stored[key] \in Seq(0..(Byte - 1)) /\ Len(stored[key]) = Size(key)
    <3> DEFINE n == Size(key)
    <3>1. n \in Nat /\ stored[key] = [b \in 1..n |-> 0]
        BY <1>3, <2>1, <2>2
    <3> HIDE DEF n
    <3>2. [b \in 1..n |-> 0] \in Seq(0..(Byte - 1)) /\ Len([b \in 1..n |-> 0]) = n
        BY <3>1, ByteFacts
    <3>3. QED
        BY <3>1, <3>2 DEF n
  <2> HIDE DEF Keys
  <2>3. QED
      BY <2>1, <2>2
<1>5. queue \in Seq(Events) /\ Len(queue) <= sent
    BY DEF ControlsInit
<1>6. /\ call = NoCall /\ call.op = "none" /\ DOMAIN set = {} /\ calls \in 0..MaxCalls
      /\ sent \in 0..MaxSent /\ thread.at = "idle" /\ listening = "yes"
    BY ControlsAssumption DEF ControlsInit, NoCall, Idle
<1>7. callback \in [{"status", "button"} -> 0..1]
    BY DEF ControlsInit
<1>8. ControlsTypeOK
    BY <1>4, <1>5, <1>6, <1>7 DEF ControlsTypeOK
<1>9. QED
    BY <1>1, <1>6, <1>8 DEF ControlsTypeInv, Waiting

\* The status packets and the callbacks are not touched by calls, nor these by them.
LEMMA ControlsTypeStep == ControlsTypeInv /\ [ControlsNext]_allVars => ControlsTypeInv'
<1> SUFFICES ASSUME ControlsTypeInv, [ControlsNext]_allVars PROVE ControlsTypeInv'
    OBVIOUS
<1> USE DEF ControlsTypeInv, controlVars, statusVars
<1>1. CASE Get
  <2>1. PICK c \in inUse : Calls(c, "get", <<>>)
      BY <1>1 DEF Get
  <2>2. QED
      BY <2>1, ControlsAssumption DEF Calls, ControlsTypeOK, Waiting, NoCall
<1>2. CASE Set
  <2>1. PICK c \in inUse : \E values \in Given[c] :
          IF c # "powerline_freqency"
            THEN Calls(c, "set", [k \in DOMAIN values |-> AsSent(Fields(c)[k], values[k])])
          ELSE IF AsksDefault(values[1]) THEN Calls(c, "get_def", <<>>)
          ELSE Calls(c, "set", <<values[1] % 4>>)
      BY <1>2 DEF Set
  <2>2. \E op, values : /\ Calls(c, op, values)
                        /\ \/ op = "set" /\ values \in [DOMAIN Fields(c) -> Int]
                           \/ op = "get_def" /\ c = "powerline_freqency"
      BY <2>1, SentIsInt
  <2>3. PICK op, values : /\ Calls(c, op, values)
                          /\ \/ op = "set" /\ values \in [DOMAIN Fields(c) -> Int]
                             \/ op = "get_def" /\ c = "powerline_freqency"
      BY <2>2
  <2>4. Waiting'
      BY <2>3 DEF Calls, Waiting
  <2>5. ControlsTypeOK'
      BY <2>3, ControlsAssumption DEF Calls, ControlsTypeOK, NoCall
  <2>6. QED
      BY <2>3, <2>4, <2>5 DEF Calls
<1>3. ASSUME NEW kind \in {"status", "button"}, NEW cb \in 0..1, Register(kind, cb)
      PROVE  ControlsTypeInv'
  <2>1. ControlsTypeOK'
      BY <1>3 DEF Register, ControlsTypeOK
  <2>2. QED
      BY <1>3, <2>1 DEF Register, Waiting
<1>4. CASE GetDone
    BY <1>4 DEF GetDone, Returns, ControlsTypeOK, Waiting, NoCall
<1>5. CASE SetDone
  <2>1. call # NoCall
      BY <1>5 DEF SetDone, NoCall
  <2>2. /\ stored' \in [{Key(c) : c \in inUse} -> Seq(0..(Byte - 1))]
        /\ \A key \in DOMAIN stored' : Len(stored'[key]) = Size(key)
      BY <1>5, <2>1, StoredKeepsType DEF SetDone
  <2>3. call.control \in inUse
      BY <2>1 DEF Waiting
  <2>4. DOMAIN set' \subseteq inUse
      BY <1>5, <2>3 DEF SetDone, ControlsTypeOK
  <2>5. call' = NoCall /\ inUse' = inUse
      BY <1>5 DEF SetDone, Returns
  <2>6. ControlsTypeOK'
      BY <1>5, <2>2, <2>4, <2>5 DEF SetDone, ControlsTypeOK, NoCall
  <2>7. QED
      BY <2>5, <2>6 DEF Waiting
<1>6. CASE DefaultDone
  <2>1. PICK freq \in 0..3 : call' = [call EXCEPT !.op = "set", !.values = <<freq % 4>>]
    <3>1. PICK freq \in 0..(IF isUvc15 THEN 3 ELSE 2) :
              call' = [call EXCEPT !.op = "set", !.values = <<freq % 4>>]
        BY <1>6 DEF DefaultDone
    <3>2. freq \in 0..3
        OBVIOUS
    <3>3. QED
        BY <3>1, <3>2
  <2>2. call # NoCall /\ call.control = "powerline_freqency"
      BY <1>6 DEF DefaultDone, NoCall, Waiting
  <2>3. call' = [op |-> "set", control |-> call.control, values |-> <<freq % 4>>]
      BY <2>1, <2>2 DEF Waiting
  <2>4. <<freq % 4>> \in [DOMAIN Fields(call.control) -> Int]
      BY <2>2, PowerLineIsAByte
  <2>5. Waiting'
      BY <1>6, <2>2, <2>3, <2>4 DEF DefaultDone, Waiting
  <2>6. ControlsTypeOK'
      BY <1>6, <2>2, <2>3 DEF DefaultDone, ControlsTypeOK, Waiting
  <2>7. QED
      BY <1>6, <2>5, <2>6 DEF DefaultDone
<1>7. CASE CallFails
  <2>1. PICK code : Fails(code)
      BY <1>7 DEF CallFails
  <2>2. call # NoCall /\ UNCHANGED <<inUse, isUvc15, statusVars, callback>>
      BY <1>7 DEF CallFails
  <2>3. /\ stored' \in [{Key(c) : c \in inUse} -> Seq(0..(Byte - 1))]
        /\ \A key \in DOMAIN stored' : Len(stored'[key]) = Size(key)
    <3>1. CASE UNCHANGED stored
        BY <3>1 DEF ControlsTypeOK
    <3>2. CASE call.op = "set" /\ Accepts /\ stored' = [stored EXCEPT ![Key(call.control)] = Sent]
        BY <3>2, <2>2, StoredKeepsType
    <3>3. QED
        BY <2>1, <3>1, <3>2 DEF Fails
  <2>4. DOMAIN set' \subseteq inUse /\ call' = NoCall /\ calls' = calls
      BY <2>1 DEF Fails, Returns, ControlsTypeOK
  <2>5. ControlsTypeOK'
      BY <2>2, <2>3, <2>4 DEF ControlsTypeOK, NoCall
  <2>6. QED
      BY <2>2, <2>4, <2>5 DEF Waiting
<1>8. CASE CameraSends
  <2>1. queue' \in Seq(Events) /\ Len(queue') <= sent' /\ sent' \in 0..MaxSent
      BY <1>8, ControlsAssumption DEF CameraSends, ControlsTypeOK
  <2>2. QED
      BY <1>8, <2>1 DEF CameraSends, ControlsTypeOK, Waiting
<1>9. CASE StatusDone
  <2>1. queue' \in Seq(Events) /\ Len(queue') <= sent
      BY <1>9 DEF StatusDone, ControlsTypeOK
  <2>2. /\ thread'.at \in {"idle", "look", "calling", "again"}
        /\ listening' \in {"yes", "no", "ended"} /\ (listening' = "no" <=> thread'.at # "idle")
      BY <1>9 DEF StatusDone, ControlsTypeOK
  <2>3. QED
      BY <1>9, <2>1, <2>2 DEF StatusDone, ControlsTypeOK, Waiting
<1>10. CASE LookAt \/ CallbackReturns \/ SubmitAgain
  <2>1. /\ thread'.at \in {"idle", "look", "calling", "again"}
        /\ listening' \in {"yes", "no", "ended"} /\ (listening' = "no" <=> thread'.at # "idle")
      BY <1>10 DEF LookAt, CallbackReturns, SubmitAgain, ControlsTypeOK, AfterIgnored, Idle
  <2>2. UNCHANGED <<inUse, isUvc15, controlVars, queue, sent, callback>>
      BY <1>10 DEF LookAt, CallbackReturns, SubmitAgain
  <2>3. QED
      BY <2>1, <2>2 DEF ControlsTypeOK, Waiting
<1>11. CASE UNCHANGED allVars
    BY <1>11 DEF allVars, ControlsTypeOK, Waiting
<1>12. QED
    BY <1>1, <1>2, <1>3, <1>4, <1>5, <1>6, <1>7, <1>8, <1>9, <1>10, <1>11 DEF ControlsNext

\* Types: what the controls hold keeps its size, and the event thread has the status transfer
\* exactly while it works on a packet, whatever an application sets and a camera sends.
THEOREM ControlsTypeCorrect == ControlsSpec => []ControlsTypeOK
<1>1. ControlsTypeInv => ControlsTypeOK
    BY DEF ControlsTypeInv
<1>2. QED
    BY ControlsTypeInit, ControlsTypeStep, <1>1, PTL DEF ControlsSpec

------------------------------------------------------------------------------
(* Callbacks *)

\* The status thread calls what is registered: nobody replaces a callback while it runs, which is
\* what status_mutex is for.
LEMMA RegisteredStep == CallbackIsRegistered /\ [ControlsNext]_allVars => CallbackIsRegistered'
<1> SUFFICES ASSUME CallbackIsRegistered, [ControlsNext]_allVars PROVE CallbackIsRegistered'
    OBVIOUS
<1> USE DEF CallbackIsRegistered, controlVars, statusVars
<1>1. CASE Get \/ Set \/ GetDone \/ SetDone \/ DefaultDone \/ CallFails \/ CameraSends
  <2>1. UNCHANGED <<thread, callback>>
      BY <1>1 DEF Get, Set, Calls, GetDone, SetDone, DefaultDone, CallFails, CameraSends
  <2>2. QED
      BY <2>1
<1>2. ASSUME NEW kind \in {"status", "button"}, NEW cb \in 0..1, Register(kind, cb)
      PROVE  CallbackIsRegistered'
    BY <1>2 DEF Register, MayRegister
<1>3. CASE StatusDone
    BY <1>3 DEF StatusDone
<1>4. CASE LookAt
    BY <1>4 DEF LookAt, AfterIgnored
<1>5. CASE CallbackReturns \/ SubmitAgain
    BY <1>5 DEF CallbackReturns, SubmitAgain, Idle
<1>6. CASE UNCHANGED allVars
    BY <1>6 DEF allVars
<1>7. QED
    BY <1>1, <1>2, <1>3, <1>4, <1>5, <1>6 DEF ControlsNext

\* When a callback was replaced it does not run any more, for any packets that a camera sends.
THEOREM RegisteredIsCalled == ControlsSpec => []CallbackIsRegistered
<1>1. ControlsInit => CallbackIsRegistered
    BY DEF ControlsInit, CallbackIsRegistered, Idle
<1>2. QED
    BY <1>1, RegisteredStep, PTL DEF ControlsSpec

------------------------------------------------------------------------------
(* Getters and setters *)

\* No two functions of an application are of one control, as those of the iris and the focus are;
\* and no setter is called with a number that is more than the bytes it sends, as
\* uvc_set_exposure_rel can be.
OwnControls == \A use \in Uses : \A c, d \in use : Key(c) = Key(d) => c = d
GivenFits   == \A c \in UNION Uses : \A values \in Given[c] : FitsInto(values, Fields(c))

\* What was set is what the camera has, and what is being set fits into its bytes.
Kept ==
    \A c \in DOMAIN set : FitsInto(set[c], Fields(c)) /\ stored[Key(c)] = Data(set[c], Fields(c))
Sending == call.op = "set" => FitsInto(call.values, Fields(call.control))

ControlsInv == ControlsTypeInv /\ Kept /\ Sending /\ GetIsSet

\* What is sent fits if what was given does: a flag is 0 or 1, a frequency has two bits.
LEMMA SentFits ==
    ASSUME GivenFits, inUse \in Uses, NEW c \in inUse, NEW values \in Given[c]
    PROVE  FitsInto([k \in DOMAIN values |-> AsSent(Fields(c)[k], values[k])], Fields(c))
<1> DEFINE fields == Fields(c)
           sends  == [k \in DOMAIN values |-> AsSent(fields[k], values[k])]
<1>1. FitsInto(values, fields)
    BY DEF GivenFits
<1>2. FieldsOK(fields)
    BY InUse, TableFacts
<1>3. DOMAIN values = DOMAIN fields
    BY <1>1 DEF FitsInto
<1>4. sends \in [DOMAIN fields -> Int]
    BY SentIsInt, <1>3
<1>5. ASSUME NEW k \in DOMAIN fields
      PROVE  sends[k] \in Numbers(fields[k].bytes, fields[k].type)
  <2>1. values[k] \in Numbers(fields[k].bytes, fields[k].type)
      BY <1>1 DEF FitsInto
  <2>2. sends[k] = AsSent(fields[k], values[k])
      BY <1>3
  <2>3. Full(fields[k].bytes) \in Nat /\ Full(fields[k].bytes) >= 4
    <3>1. fields[k].bytes \in {1, 2, 4}
        BY <1>2, WidthFacts DEF FieldSet
    <3>2. QED
        BY <3>1, Weights
  <2>4. CASE fields[k].type = "flag"
      BY <2>1, <2>2, <2>3, <2>4 DEF AsSent, Numbers
  <2>5. CASE fields[k].type # "flag"
      BY <2>1, <2>2, <2>5 DEF AsSent
  <2>6. QED
      BY <2>4, <2>5
<1>6. QED
    BY <1>4, <1>5 DEF FitsInto

LEMMA FrequencyFits ==
    ASSUME NEW n \in Int
    PROVE  FitsInto(<<n % 4>>, Fields("powerline_freqency"))
<1>1. n % 4 \in 0..3
    OBVIOUS
<1>2. 0..3 \subseteq Numbers(1, "unsigned")
    BY Weights DEF Numbers
<1>3. n % 4 \in Numbers(1, "unsigned") /\ n % 4 \in Int
    BY <1>1, <1>2
<1> DEFINE fields == <<UInt(0, 1)>>
<1>4. DOMAIN fields = {1} /\ fields[1].bytes = 1 /\ fields[1].type = "unsigned"
    BY DEF UInt, Field
<1> HIDE DEF fields
<1>5. FitsInto(<<n % 4>>, fields)
    BY <1>3, <1>4 DEF FitsInto
<1>6. QED
    BY <1>5, PowerLineIsAByte DEF fields

LEMMA ControlsInvInit == ControlsInit => ControlsInv
<1> SUFFICES ASSUME ControlsInit PROVE ControlsInv
    OBVIOUS
<1>1. DOMAIN set = {} /\ call.op = "none" /\ out.op = "none"
    BY DEF ControlsInit, NoCall, NoAnswer
<1>2. QED
    BY <1>1, ControlsTypeInit DEF ControlsInv, Kept, Sending, GetIsSet

LEMMA ControlsInvStep ==
    ASSUME OwnControls, GivenFits
    PROVE  ControlsInv /\ [ControlsNext]_allVars => ControlsInv'
<1> SUFFICES ASSUME ControlsInv, [ControlsNext]_allVars PROVE ControlsInv'
    OBVIOUS
<1> USE DEF controlVars, statusVars
<1>1. ControlsTypeInv /\ ControlsTypeInv' /\ Kept /\ Sending /\ GetIsSet
    BY ControlsTypeStep DEF ControlsInv
<1>2. inUse \in Uses /\ Waiting /\ DOMAIN set \subseteq inUse
    BY <1>1 DEF ControlsTypeInv, ControlsTypeOK
<1> SUFFICES Kept' /\ Sending' /\ GetIsSet'
    BY <1>1 DEF ControlsInv
<1>3. ASSUME UNCHANGED <<stored, set, call, out>> PROVE Kept' /\ Sending' /\ GetIsSet'
    BY <1>1, <1>3 DEF Kept, Sending, GetIsSet
<1>4. CASE Get
    BY <1>1, <1>4 DEF Get, Calls, Kept, Sending, GetIsSet, NoAnswer
<1>5. CASE Set
  <2> DEFINE Sets(c, values) ==
          IF c # "powerline_freqency"
            THEN Calls(c, "set", [k \in DOMAIN values |-> AsSent(Fields(c)[k], values[k])])
          ELSE IF AsksDefault(values[1]) THEN Calls(c, "get_def", <<>>)
          ELSE Calls(c, "set", <<values[1] % 4>>)
  <2>0. PICK c \in inUse : \E values \in Given[c] : Sets(c, values)
      BY <1>5 DEF Set
  <2>1. PICK values \in Given[c] : Sets(c, values)
      BY <2>0
  <2>2. c = "powerline_freqency" => values[1] \in Int
    <3>1. values \in [DOMAIN Fields(c) -> Int]
        BY <1>2, InUse
    <3>2. QED
        BY <3>1, PowerLineIsAByte
  <2>3. \E op, sends : Calls(c, op, sends) /\ (op = "set" => FitsInto(sends, Fields(c)))
    <3>1. CASE c # "powerline_freqency"
        BY <1>2, <2>1, <3>1, SentFits
    <3>2. CASE c = "powerline_freqency"
        BY <2>1, <2>2, <3>2, FrequencyFits
    <3>3. QED
        BY <3>1, <3>2
  <2>4. PICK op, sends : Calls(c, op, sends) /\ (op = "set" => FitsInto(sends, Fields(c)))
      BY <2>3
  <2>5. QED
      BY <1>1, <2>4 DEF Calls, Kept, Sending, GetIsSet, NoAnswer
<1>6. CASE GetDone
  <2> DEFINE c    == call.control
             data == stored[Key(c)]
  <2>1. /\ out' = [op |-> "get", control |-> c, code |-> "ok",
                   values |-> Values(SubSeq(data, 1, Widths[c]), Fields(c))]
        /\ call' = NoCall /\ UNCHANGED <<stored, set>>
      BY <1>6 DEF GetDone, Returns
  <2>2. ASSUME c \in DOMAIN set PROVE Values(SubSeq(data, 1, Widths[c]), Fields(c)) = set[c]
    <3>1. FieldsOK(Fields(c)) /\ Widths[c] = Width(Fields(c))
        BY <1>2, <2>2, InUse, TableFacts
    <3>2. FitsInto(set[c], Fields(c)) /\ data = Data(set[c], Fields(c))
        BY <1>1, <2>2 DEF Kept
    <3>3. data \in Seq(0..(Byte - 1)) /\ Len(data) = Widths[c]
        BY <3>1, <3>2, DataIsBytes DEF FitsInto
    <3>4. SubSeq(data, 1, Widths[c]) = data
      <4> HIDE DEF data
      <4>1. QED
          BY <3>3
    <3>5. QED
        BY <3>1, <3>2, <3>4, ValuesOfData
  <2>3. Kept' /\ Sending'
      BY <1>1, <2>1 DEF Kept, Sending, NoCall
  <2>4. QED
      BY <2>1, <2>2, <2>3 DEF GetIsSet
<1>7. CASE SetDone
  <2> DEFINE c == call.control
  <2>1. /\ stored' = [stored EXCEPT ![Key(c)] = Sent]
        /\ set' = [d \in DOMAIN set \cup {c} |-> IF d = c THEN call.values ELSE set[d]]
        /\ call.op = "set" /\ call' = NoCall /\ out'.op = "set"
      BY <1>7 DEF SetDone, Returns
  <2>2. c \in inUse /\ FitsInto(call.values, Fields(c))
      BY <1>1, <1>2, <2>1 DEF Waiting, Sending, NoCall
  <2>3. DOMAIN stored = {Key(d) : d \in inUse} /\ Key(c) \in DOMAIN stored
      BY <1>1, <2>2 DEF ControlsTypeInv, ControlsTypeOK
  <2>4. ASSUME NEW d \in DOMAIN set'
        PROVE  FitsInto(set'[d], Fields(d)) /\ stored'[Key(d)] = Data(set'[d], Fields(d))
    <3>1. CASE d = c
        BY <2>1, <2>2, <2>3, <3>1 DEF Sent
    <3>2. CASE d # c
      <4>1. d \in DOMAIN set /\ d \in inUse /\ set'[d] = set[d]
          BY <1>2, <2>1, <2>4, <3>2
      <4>2. Key(d) # Key(c)
          BY <1>2, <2>2, <3>2, <4>1 DEF OwnControls
      <4>3. stored'[Key(d)] = stored[Key(d)]
          BY <2>1, <2>3, <4>1, <4>2
      <4>4. QED
          BY <1>1, <4>1, <4>3 DEF Kept
    <3>3. QED
        BY <3>1, <3>2
  <2>5. QED
      BY <2>1, <2>4 DEF Kept, Sending, GetIsSet, NoCall
<1>8. CASE DefaultDone
  <2>1. /\ UNCHANGED <<stored, set, out>> /\ call.op = "get_def"
      BY <1>8 DEF DefaultDone
  <2>2. PICK freq \in Int : call' = [call EXCEPT !.op = "set", !.values = <<freq % 4>>]
    <3>1. PICK freq \in 0..(IF isUvc15 THEN 3 ELSE 2) :
              call' = [call EXCEPT !.op = "set", !.values = <<freq % 4>>]
        BY <1>8 DEF DefaultDone
    <3>2. freq \in Int
        OBVIOUS
    <3>3. QED
        BY <3>1, <3>2
  <2>3. /\ call = [op |-> call.op, control |-> call.control, values |-> call.values]
        /\ call.control = "powerline_freqency"
      BY <1>2, <2>1 DEF Waiting, NoCall
  <2>4. call'.control = "powerline_freqency" /\ call'.values = <<freq % 4>>
      BY <2>2, <2>3
  <2>5. Sending'
      BY <2>4, FrequencyFits DEF Sending
  <2>6. QED
      BY <1>1, <2>1, <2>5 DEF Kept, GetIsSet
<1>9. CASE CallFails
  <2> DEFINE c == call.control
  <2>1. PICK code \in {"stall", "short"} : Fails(code)
      BY <1>9 DEF CallFails
  <2>2. call # NoCall /\ inUse' = inUse
      BY <1>9 DEF CallFails
  <2>3. c \in inUse
      BY <1>2, <2>2 DEF Waiting
  <2>4. /\ stored' = stored \/ stored' = [stored EXCEPT ![Key(c)] = Sent]
        /\ set' = [d \in DOMAIN set \ {d \in inUse : Key(d) = Key(c)} |-> set[d]]
        /\ call' = NoCall /\ out'.code # "ok"
      BY <2>1 DEF Fails, Returns
  <2>5. DOMAIN stored = {Key(d) : d \in inUse}
      BY <1>1 DEF ControlsTypeInv, ControlsTypeOK
  <2>6. ASSUME NEW d \in DOMAIN set'
        PROVE  FitsInto(set'[d], Fields(d)) /\ stored'[Key(d)] = Data(set'[d], Fields(d))
    <3>1. d \in DOMAIN set /\ d \in inUse /\ Key(d) # Key(c) /\ set'[d] = set[d]
        BY <1>2, <2>4, <2>6
    <3>2. stored'[Key(d)] = stored[Key(d)]
        BY <2>4, <2>5, <3>1
    <3>3. QED
        BY <1>1, <3>1, <3>2 DEF Kept
  <2>7. QED
      BY <2>4, <2>6 DEF Kept, Sending, GetIsSet, NoCall
<1>10. ASSUME NEW kind \in {"status", "button"}, NEW cb \in 0..1, Register(kind, cb)
       PROVE  UNCHANGED <<stored, set, call, out>>
    BY <1>10 DEF Register
<1>11. CASE CameraSends \/ StatusDone \/ LookAt \/ CallbackReturns \/ SubmitAgain
  <2>1. UNCHANGED <<stored, set, call, out>>
      BY <1>11 DEF CameraSends, StatusDone, LookAt, CallbackReturns, SubmitAgain
  <2>2. QED
      BY <1>3, <2>1
<1>12. CASE UNCHANGED allVars
    BY <1>3, <1>12 DEF allVars
<1>13. QED
    BY <1>3, <1>4, <1>5, <1>6, <1>7, <1>8, <1>9, <1>10, <1>11, <1>12 DEF ControlsNext

\* A getter gives what the setter of its control set last, byte by byte there and back, for bytes
\* of any size and every control of ctrl.c.
THEOREM SettersAreRead ==
    ASSUME OwnControls, GivenFits
    PROVE  ControlsSpec => []GetIsSet
<1>1. ControlsInv => GetIsSet
    BY DEF ControlsInv
<1>2. QED
    BY ControlsInvInit, ControlsInvStep, <1>1, PTL DEF ControlsSpec
==============================================================================
