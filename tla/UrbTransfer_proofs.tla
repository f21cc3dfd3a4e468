-------------------------- MODULE UrbTransfer_proofs --------------------------
(***************************************************************************)
(* Proofs about UrbTransfer, for any number of URBs and submissions.       *)
(*                                                                         *)
(* No stale cancellation, for every kind of transfer.  A result says       *)
(* CANCELLED or TIMED_OUT only when reap_action or the flag of the timeout *)
(* says so, which a submission clears (Marks), and no status of a URB says *)
(* so (Statuses).  Between the report and the end of the callback only a   *)
(* submission clears the marks, and then the transfer flies.               *)
(*                                                                         *)
(* One callback per submission, errors reported, for iso transfers and for *)
(* bulk URBs that the kernel chains; of others it is not true.  The URBs   *)
(* reaped, to be reaped and in the kernel are those submitted (Accounts),  *)
(* in this order while nothing was recalled (InTurn), and nothing is in    *)
(* the kernel once something was (Recalled); so the transfer is reported   *)
(* with the last URB (Flight), which is a step of TransferService.  What a *)
(* report of success hides is a matter of blame: a URB ends cancelled only *)
(* behind one that ended otherwise (Blame), behind a short one only in     *)
(* full, short or cancelled (ShortOnly), and the status of the transfer    *)
(* keeps the first other end (Honest).                                     *)
(***************************************************************************)
EXTENDS UrbTransfer, SequenceTheorems, TLAPS

\* A transfer that is marked was asked to end.
Marks == (action = "CANCELLED" => asked) /\ (timedOut => asked)

\* What the URBs and errors make of a transfer is neither of the two results.
Statuses == /\ status \notin {"CANCELLED", "TIMED_OUT"}
            /\ event.at = "completing" => event.result \notin {"CANCELLED", "TIMED_OUT"}

\* The inductive invariant.
IInv == Marks /\ Statuses /\ NoStaleCancel

LEMMA InitIInv == Init => IInv
    BY DEF Init, Idle, IInv, Marks, Statuses, NoStaleCancel

\* What the last part of handle_*_completion leaves.
LEMMA Finished ==
    ASSUME NEW result, result \notin {"CANCELLED", "TIMED_OUT"}, Finish(result)
    PROVE  event'.at = "completing" /\ event'.result \notin {"CANCELLED", "TIMED_OUT"}
    BY DEF Finish

LEMMA ErrorResults == \A s : ErrorResult(s) \notin {"CANCELLED", "TIMED_OUT"}
    BY DEF ErrorResult

\* Each way to reap leaves a status, and goes on or finishes.
LEMMA ReapAbnormalStep ==
    ASSUME Statuses, event.at = "idle", ReapAbnormal
    PROVE  Statuses' /\ action' = action /\ event'.at \in {"idle", "completing"}
<1>1. CASE AllRetired(retired + 1)
    BY <1>1, Finished DEF ReapAbnormal, Statuses, Finish
<1>2. CASE ~AllRetired(retired + 1)
    BY <1>2 DEF ReapAbnormal, Statuses, GoOn
<1>3. QED
    BY <1>1, <1>2

LEMMA ReapNormalStep ==
    ASSUME Statuses, event.at = "idle", NEW u, NEW s, ReapNormal(u, s)
    PROVE  /\ Statuses' /\ action' \in {action, "ERROR", "COMPLETED_EARLY"}
           /\ event'.at \in {"idle", "completing"}
<1>1. status' \notin {"CANCELLED", "TIMED_OUT"}
    BY ErrorResults DEF ReapNormal, Statuses
<1>2. action' \in {action, "ERROR", "COMPLETED_EARLY"}
    BY DEF ReapNormal
<1>3. GoOn \/ Finish("byAction")
  <2>1. CASE s = "overflow" \/ (u = LastUrb /\ s \in {"full", "short", "cancelled"})
      BY <2>1 DEF ReapNormal
  <2>2. CASE s = "full" /\ u # LastUrb
      BY <2>2 DEF ReapNormal
  <2>3. CASE /\ ~(s = "overflow" \/ (u = LastUrb /\ s \in {"full", "short", "cancelled"}))
             /\ ~(s = "full" /\ u # LastUrb)
      BY <2>3 DEF ReapNormal
  <2>4. QED
      BY <2>1, <2>2, <2>3
<1>4. QED
    BY <1>1, <1>2, <1>3, Finished DEF Statuses, GoOn, Finish

LEMMA ReapIsoStep ==
    ASSUME Statuses, event.at = "idle", NEW u, NEW s, ReapIso(u, s)
    PROVE  Statuses' /\ action' = action /\ event'.at \in {"idle", "completing"}
<1>1. \/ GoOn \/ Finish("byAction") \/ Finish("ERROR") \/ Finish(ErrorResult(s))
    BY DEF ReapIso
<1>2. QED
    BY <1>1, Finished, ErrorResults DEF ReapIso, Statuses, GoOn, Finish

LEMMA IInvStep == IInv /\ [Next]_vars => IInv'
<1> SUFFICES ASSUME IInv, [Next]_vars PROVE IInv'
    OBVIOUS
<1> USE DEF IInv, Marks, Statuses, NoStaleCancel, tpriv, kernel
<1>1. CASE KernelCompletes
    BY <1>1 DEF KernelCompletes
<1>2. ASSUME NEW lost, NEW a \in {"NORMAL", "SUBMIT_FAILED", "COMPLETED_EARLY"}, Accept(lost, a)
      PROVE  IInv'
    BY <1>2 DEF Accept
<1>3. CASE SomeSubmit
    BY <1>2, <1>3 DEF SomeSubmit, Submit, SubmitInPart, SubmitEnough, ResetAction
<1>4. CASE Cancel
    BY <1>4 DEF Cancel, OpCancel
<1>5. CASE Timeout
    BY <1>5 DEF Timeout, OpCancel
<1>6. CASE Reap
  <2>1. event.at = "idle" /\ UNCHANGED <<flying, timedOut, asked>>
      BY <1>6 DEF Reap
  <2>2. \/ ReapIso(Head(done).urb, Head(done).status)
        \/ ReapAbnormal
        \/ ReapNormal(Head(done).urb, Head(done).status)
      BY <1>6 DEF Reap, Bulk
  <2>3. /\ Statuses' /\ action' \in {action, "ERROR", "COMPLETED_EARLY"}
        /\ event'.at \in {"idle", "completing"}
      BY <2>1, <2>2, ReapAbnormalStep, ReapNormalStep, ReapIsoStep
  <2>4. QED
      BY <2>1, <2>3
<1>7. CASE Report
    BY <1>7 DEF Report, Reported
<1>8. CASE CallbackReturns
    BY <1>8 DEF CallbackReturns, Idle
<1>9. CASE Disconnect
  <2>1. event.at = "idle" /\ UNCHANGED <<action, status, timedOut, asked>>
      BY <1>9 DEF Disconnect
  <2>2. GoOn \/ Finish("NO_DEVICE")
      BY <1>9 DEF Disconnect
  <2>3. QED
      BY <2>1, <2>2, Finished DEF GoOn, Finish
<1>10. CASE UNCHANGED vars
    BY <1>10 DEF vars
<1>11. QED
    BY <1>1, <1>3, <1>4, <1>5, <1>6, <1>7, <1>8, <1>9, <1>10 DEF Next, EventStep

\* A callback with CANCELLED or TIMED_OUT answers a cancellation or a timeout of its own
\* submission (op_cancel_transfer, handle_timeout, libusb_submit_transfer).
THEOREM CancelIsNotStale == Spec => []NoStaleCancel
<1>1. IInv => NoStaleCancel
    BY DEF IInv
<1>2. QED
    BY <1>1, InitIInv, IInvStep, PTL DEF Spec

------------------------------------------------------------------------------
(* Where the URBs are *)

Flight == /\ urbs <=> flying /\ event.at # "completing"
          /\ event.at = "completing" =>
                /\ flying
                /\ Bulk => event.result \in {"byAction", "NO_DEVICE"}
Accounts == IF urbs THEN retired + Len(done) + Len(pending) = NumUrbs
                    ELSE pending = <<>> /\ done = <<>>
Recalled == urbs /\ action # "NORMAL" => pending = <<>>
InTurn ==
    urbs /\ action = "NORMAL" =>
        /\ \A i \in 1..Len(done) : done[i].urb = retired + i - 1
        /\ \A i \in 1..Len(pending) : pending[i] = retired + Len(done) + i - 1
        /\ \A i \in 1..Len(done) : done[i].status = "overflow" => done[i].urb = LastUrb
        /\ \A i \in 1..Len(done) : Bulk /\ done[i].status # "full" => pending = <<>>
Blame ==
    Bulk /\ urbs /\ broken = "full" /\ action \in {"NORMAL", "COMPLETED_EARLY"} =>
        \A i \in 1..Len(done) : done[i].status = "cancelled" =>
            \E j \in 1..(i - 1) : done[j].status \notin {"full", "cancelled"}
ShortOnly ==
    Bulk /\ urbs /\ broken = "full" /\ action = "COMPLETED_EARLY" =>
        \A i \in 1..Len(done) : done[i].status \in {"full", "short", "cancelled"}
Honest ==
    Bulk /\ (urbs \/ (event.at = "completing" /\ event.result = "byAction")) =>
        /\ action = "ERROR" => status # "COMPLETED"
        /\ broken \notin {"full", "short"} =>
              \/ status # "COMPLETED" \/ action = "CANCELLED"
              \/ urbs /\ action = "SUBMIT_FAILED"

TransferInv == /\ kind # "split" /\ TypeOK /\ Flight /\ Accounts /\ Recalled /\ InTurn
               /\ Blame /\ ShortOnly /\ Honest /\ NoSilentError

LEMMA HandedFacts ==
    ASSUME NEW q \in Seq(Urbs), NEW s \in UrbStatus
    PROVE  /\ Handed(q, s) \in Seq(Reapable) /\ Len(Handed(q, s)) = Len(q)
           /\ \A i \in 1..Len(q) : Handed(q, s)[i].urb = q[i] /\ Handed(q, s)[i].status = s
<1>1. DOMAIN q = 1..Len(q) /\ Len(q) \in Nat /\ \A i \in 1..Len(q) : q[i] \in Urbs
    BY ElementOfSeq, LenProperties
<1>2. Handed(q, s) = [i \in 1..Len(q) |-> [urb |-> q[i], status |-> s]]
    BY <1>1 DEF Handed
<1>3. \A i \in 1..Len(q) : [urb |-> q[i], status |-> s] \in Reapable
    BY <1>1 DEF Reapable
<1>4. QED
    BY <1>1, <1>2, <1>3, IsASeq, LenProperties

LEMMA ReverseFacts ==
    ASSUME NEW q \in Seq(Urbs)
    PROVE  Reverse(q) \in Seq(Urbs) /\ Len(Reverse(q)) = Len(q)
<1>1. Len(q) \in Nat /\ \A i \in 1..Len(q) : q[i] \in Urbs
    BY ElementOfSeq, LenProperties
<1>2. Reverse(q) = [i \in 1..Len(q) |-> q[Len(q) - i + 1]]
    BY DEF Reverse
<1>3. \A i \in 1..Len(q) : q[Len(q) - i + 1] \in Urbs
    BY <1>1
<1>4. QED
    BY <1>1, <1>2, <1>3, IsASeq, LenProperties

\* r is d with the URBs of q behind it, which ended with s.
Appended(r, d, q, s) ==
    /\ r \in Seq(Reapable) /\ Len(r) = Len(d) + Len(q)
    /\ \A i \in 1..Len(d) : r[i] = d[i]
    /\ \A i \in 1..Len(q) : r[Len(d) + i].urb = q[i] /\ r[Len(d) + i].status = s

LEMMA Behind ==
    ASSUME NEW d \in Seq(Reapable), NEW q \in Seq(Urbs), NEW s \in UrbStatus
    PROVE  Appended(d \o Handed(q, s), d, q, s)
<1> DEFINE r == d \o Handed(q, s)
<1>1. /\ Handed(q, s) \in Seq(Reapable) /\ Len(Handed(q, s)) = Len(q)
      /\ \A i \in 1..Len(q) : Handed(q, s)[i].urb = q[i] /\ Handed(q, s)[i].status = s
    BY HandedFacts
<1>2. Len(d) \in Nat /\ Len(q) \in Nat
    BY LenProperties
<1>3. /\ r \in Seq(Reapable) /\ Len(r) = Len(d) + Len(q)
      /\ \A i \in 1..(Len(d) + Len(q)) :
             r[i] = IF i <= Len(d) THEN d[i] ELSE Handed(q, s)[i - Len(d)]
  <2> DEFINE h == Handed(q, s)
  <2> HIDE DEF h
  <2>1. h \in Seq(Reapable) /\ Len(h) = Len(q)
      BY <1>1 DEF h
  <2>2. /\ d \o h \in Seq(Reapable) /\ Len(d \o h) = Len(d) + Len(h)
        /\ \A i \in 1..(Len(d) + Len(h)) :
               (d \o h)[i] = IF i <= Len(d) THEN d[i] ELSE h[i - Len(d)]
      BY <2>1, ConcatProperties
  <2>3. QED
      BY <2>1, <2>2 DEF h
<1>4. ASSUME NEW i \in 1..Len(q) PROVE r[Len(d) + i] = Handed(q, s)[i]
    BY <1>2, <1>3
<1>5. \A i \in 1..Len(d) : r[i] = d[i]
    BY <1>2, <1>3
<1>6. QED
    BY <1>1, <1>3, <1>4, <1>5 DEF Appended

LEMMA TailFacts ==
    ASSUME NEW S, NEW d \in Seq(S), d # <<>>
    PROVE  /\ Tail(d) \in Seq(S) /\ Len(Tail(d)) = Len(d) - 1 /\ Len(d) >= 1 /\ Head(d) = d[1]
           /\ d[1] \in S /\ \A i \in 1..Len(Tail(d)) : Tail(d)[i] = d[i + 1]
    BY HeadTailProperties, LenProperties, ElementOfSeq, EmptySeq

\* discard_urbs when every URB in the kernel is meant: they come back as cancelled, behind the
\* others.
LEMMA DiscardAll ==
    ASSUME pending \in Seq(Urbs), NEW reaped \in Seq(Reapable), NEW first,
           \A i \in 1..Len(pending) : ~(pending[i] < first), Discard(first, reaped)
    PROVE  /\ pending' = <<>> /\ done' \in Seq(Reapable)
           /\ Len(done') = Len(reaped) + Len(pending)
           /\ \A i \in 1..Len(reaped) : done'[i] = reaped[i]
           /\ \A i \in 1..Len(done') : i > Len(reaped) => done'[i].status = "cancelled"
           /\ pending = <<>> => done' = reaped
<1>1. Len(pending) \in Nat /\ DOMAIN pending = 1..Len(pending) /\ SubSeq(pending, 1, Len(pending)) = pending
    BY LenProperties, SubSeqFull
<1>2. /\ pending' = SubSeq(pending, 1, 0)
      /\ done' = reaped \o Handed(Reverse(pending), "cancelled")
  <2>1. PICK kept \in 0..Len(pending) :
            /\ \A i \in DOMAIN pending : i <= kept <=> pending[i] < first
            /\ done' = reaped \o Handed(Reverse(SubSeq(pending, kept + 1, Len(pending))), "cancelled")
            /\ pending' = SubSeq(pending, 1, kept)
      BY DEF Discard
  <2>2. kept = 0
    <3>1. kept # 0 => kept \in 1..Len(pending) /\ kept <= kept
        BY <1>1
    <3>2. kept # 0 => pending[kept] < first
        BY <1>1, <2>1, <3>1
    <3>3. QED
        BY <3>1, <3>2
  <2>3. SubSeq(pending, kept + 1, Len(pending)) = pending
      BY <1>1, <2>2
  <2>4. QED
      BY <2>1, <2>2, <2>3
<1>3. pending' = <<>>
    BY <1>2, SubSeqEmpty, <1>1
<1>4. "cancelled" \in UrbStatus /\ Reverse(pending) \in Seq(Urbs) /\ Len(Reverse(pending)) = Len(pending)
    BY ReverseFacts DEF UrbStatus
<1>5. /\ done' \in Seq(Reapable) /\ Len(done') = Len(reaped) + Len(pending)
      /\ \A i \in 1..Len(reaped) : done'[i] = reaped[i]
      /\ \A i \in 1..Len(pending) : done'[Len(reaped) + i].status = "cancelled"
  <2> DEFINE q == Reverse(pending)
           c == "cancelled"
  <2>1. q \in Seq(Urbs) /\ Len(q) = Len(pending) /\ c \in UrbStatus /\ done' = reaped \o Handed(q, c)
      BY <1>2, <1>4
  <2> HIDE DEF q, c
  <2>2. Appended(reaped \o Handed(q, c), reaped, q, c)
      BY <2>1, Behind
  <2>3. QED
      BY <2>1, <2>2 DEF Appended, c
<1>6. \A i \in 1..Len(done') : i > Len(reaped) => done'[i].status = "cancelled"
  <2> SUFFICES ASSUME NEW i \in 1..Len(done'), i > Len(reaped) PROVE done'[i].status = "cancelled"
      OBVIOUS
  <2>1. i - Len(reaped) \in 1..Len(pending) /\ Len(reaped) + (i - Len(reaped)) = i
      BY <1>1, <1>5, LenProperties
  <2>2. QED
      BY <1>5, <2>1
<1>7. pending = <<>> => done' = reaped
    BY <1>1, <1>5, SeqEqual, EmptySeq, LenProperties
<1>8. QED
    BY <1>3, <1>5, <1>6, <1>7

LEMMA Types == /\ \A x \in Reapable : x.urb \in Urbs /\ x.status \in UrbStatus
               /\ \A x \in Urbs : x \in Nat /\ x <= LastUrb
               /\ LastUrb \in Urbs /\ LastUrb = NumUrbs - 1 /\ NumUrbs \in Nat
    BY UrbAssumption DEF UrbAssumption, Reapable, Urbs, LastUrb

LEMMA InitTransferInv ==
    ASSUME "split" \notin Kinds, Init
    PROVE  TransferInv
<1>1. <<>> \in Seq(Urbs) /\ <<>> \in Seq(Reapable)
    BY EmptySeq
<1>2. TypeOK
  <2>1. retired \in 0..NumUrbs /\ submits \in 0..MaxSubmits
      BY UrbAssumption DEF UrbAssumption, Init
  <2>2. event \in [at : {"idle", "completing", "callback"}, result : Results \union {"byAction"}]
      BY DEF Init, Idle, Results
  <2>3. QED
      BY <1>1, <2>1, <2>2 DEF Init, TypeOK, Actions, Results, UrbStatus
<1>3. QED
    BY <1>2 DEF Init, Idle, TransferInv, Flight, Accounts, Recalled, InTurn, Blame, ShortOnly, Honest,
                NoSilentError

\* The URB at the head ends, and with it, in a chain, the rest.
LEMMA KernelStep ==
    ASSUME TransferInv, KernelCompletes
    PROVE  TransferInv'
<1>1. /\ pending \in Seq(Urbs) /\ done \in Seq(Reapable) /\ pending # <<>>
      /\ urbs /\ action = "NORMAL"
      /\ UNCHANGED <<kind, attached, flying, tpriv, timedOut, event, submits, asked, broken>>
    BY DEF TransferInv, TypeOK, Accounts, Recalled, KernelCompletes
<1> DEFINE h == Head(pending)
           rest == Tail(pending)
<1>2. PICK s \in Natural(h) :
         LET torn == kind = "chained" /\ s # "full"
         IN /\ done' = done \o Handed(<<h>>, s) \o (IF torn THEN Handed(rest, "cancelled") ELSE <<>>)
            /\ pending' = IF torn THEN <<>> ELSE rest
    BY <1>1 DEF KernelCompletes
<1>3. /\ rest \in Seq(Urbs) /\ Len(rest) = Len(pending) - 1 /\ h = pending[1] /\ h \in Urbs
      /\ \A i \in 1..Len(rest) : rest[i] = pending[i + 1]
      /\ Len(pending) \in Nat /\ Len(pending) >= 1 /\ Len(done) \in Nat
    BY <1>1, TailFacts, LenProperties
<1>4. /\ s \in UrbStatus /\ s # "cancelled" /\ (Bulk => s # "overflow" \/ h = LastUrb)
      /\ ~Bulk => s # "overflow"
    BY <1>2 DEF Natural, UrbStatus
<1> DEFINE d == done \o Handed(<<h>>, s)
<1>5. <<h>> \in Seq(Urbs) /\ Len(<<h>>) = 1 /\ <<h>>[1] = h
    BY <1>3
<1>6. /\ d \in Seq(Reapable) /\ Len(d) = Len(done) + 1
      /\ \A i \in 1..Len(done) : d[i] = done[i]
      /\ d[Len(done) + 1].urb = h /\ d[Len(done) + 1].status = s
  <2>1. Appended(d, done, <<h>>, s)
      BY <1>1, <1>4, <1>5, Behind
  <2> HIDE DEF d, h
  <2>2. QED
      BY <1>5, <2>1 DEF Appended
<1> HIDE DEF d, h, rest
<1>7. /\ h = retired + Len(done)
      /\ retired + Len(done) + Len(pending) = NumUrbs
      /\ retired \in Nat
      /\ \A i \in 1..Len(done) : done[i].urb = retired + i - 1
      /\ \A i \in 1..Len(pending) : pending[i] = retired + Len(done) + i - 1
      /\ \A i \in 1..Len(done) : done[i].status = "overflow" => done[i].urb = LastUrb
      /\ \A i \in 1..Len(done) : Bulk => done[i].status = "full"
    BY <1>1, <1>3 DEF TransferInv, TypeOK, Accounts, InTurn
<1>0. Flight' /\ Honest' /\ NoSilentError'
    BY <1>1 DEF TransferInv, Flight, Honest, NoSilentError, tpriv, Bulk
<1>8. CASE kind = "chained" /\ s # "full"
  <2> DEFINE c == "cancelled"
  <2>1. done' = d \o Handed(rest, c) /\ pending' = <<>> /\ c \in UrbStatus
      BY <1>2, <1>8 DEF d, rest, h, UrbStatus
  <2> HIDE DEF c
  <2> DEFINE r == d \o Handed(rest, c)
  <2>2. /\ r \in Seq(Reapable) /\ Len(r) = Len(d) + Len(rest)
        /\ \A i \in 1..Len(d) : r[i] = d[i]
        /\ \A i \in 1..Len(rest) : r[Len(d) + i].urb = rest[i] /\ r[Len(d) + i].status = c
    <3>1. Appended(r, d, rest, c)
        BY <1>3, <1>6, <2>1, Behind
    <3> HIDE DEF r
    <3>2. QED
        BY <3>1 DEF Appended
  <2> HIDE DEF r
  <2>3. done' = r
      BY <2>1 DEF r
  <2>4. ASSUME NEW i \in 1..Len(r)
        PROVE  \/ i \in 1..Len(done) /\ r[i] = done[i]
               \/ i = Len(done) + 1 /\ r[i].urb = h /\ r[i].status = s
               \/ i > Len(done) + 1 /\ r[i].urb = retired + i - 1 /\ r[i].status = "cancelled"
    <3>1. CASE i \in 1..Len(d)
      <4>1. r[i] = d[i] /\ (i \in 1..Len(done) \/ i = Len(done) + 1)
          BY <1>3, <1>6, <2>2, <3>1
      <4>2. QED
          BY <1>6, <4>1
    <3>2. CASE i \notin 1..Len(d)
      <4> DEFINE k == i - Len(d)
      <4>1. /\ k \in 1..Len(rest) /\ k + 1 \in 1..Len(pending)
            /\ i = Len(d) + k /\ i > Len(done) + 1 /\ k \in Nat
          BY <1>3, <1>6, <2>2, <3>2
      <4> HIDE DEF k
      <4>2. r[i].urb = rest[k] /\ r[i].status = "cancelled" /\ rest[k] = pending[k + 1]
          BY <1>3, <2>2, <4>1 DEF c
      <4>3. pending[k + 1] = retired + i - 1
          BY <1>3, <1>6, <1>7, <4>1
      <4>4. QED
          BY <4>1, <4>2, <4>3
    <3>3. QED
        BY <3>1, <3>2
  <2>5. TypeOK'
      BY <1>1, <2>1, <2>2, <2>3, EmptySeq DEF TransferInv, TypeOK, tpriv
  <2>6. Accounts' /\ Recalled'
    <3>1. retired + Len(r) + 0 = NumUrbs
      <4>1. Len(r) = Len(done) + 1 + (Len(pending) - 1)
          BY <1>3, <1>6, <2>2
      <4>2. QED
          BY <1>3, <1>7, <4>1
    <3>2. pending' = <<>> /\ Len(pending') = 0
        BY <2>1
    <3>3. QED
        BY <1>1, <2>3, <3>1, <3>2 DEF Accounts, Recalled, tpriv
  <2>7. \A i \in 1..Len(r) : r[i].urb = retired + i - 1
      BY <1>7, <2>4
  <2>8. \A i \in 1..Len(r) : r[i].status = "overflow" => r[i].urb = LastUrb
    <3>1. s = "overflow" => h = LastUrb
        BY <1>4
    <3>2. QED
        BY <1>7, <2>4, <3>1
  <2>9. InTurn'
      BY <1>1, <2>1, <2>3, <2>7, <2>8 DEF InTurn, tpriv
  <2>10. \A i \in 1..Len(r) : r[i].status = "cancelled" =>
            \E j \in 1..(i - 1) : r[j].status \notin {"full", "cancelled"}
      <3> SUFFICES ASSUME NEW i \in 1..Len(r), r[i].status = "cancelled"
                   PROVE  \E j \in 1..(i - 1) : r[j].status \notin {"full", "cancelled"}
          OBVIOUS
      <3>1. i > Len(done) + 1
          BY <1>4, <1>7, <1>8, <2>4 DEF Bulk
      <3>2. Len(done) + 1 \in 1..(i - 1) /\ Len(done) + 1 \in 1..Len(r)
          BY <1>3, <3>1, <2>4
      <3>3. r[Len(done) + 1].status = s
          BY <1>3, <2>4, <3>2
      <3>4. QED
          BY <1>4, <1>8, <3>2, <3>3
  <2>11. Blame' /\ ShortOnly'
      BY <1>1, <2>3, <2>10 DEF Blame, ShortOnly, tpriv
  <2>12. QED
      BY <1>0, <1>1, <2>5, <2>6, <2>9, <2>11 DEF TransferInv
<1>9. CASE ~(kind = "chained" /\ s # "full")
  <2>1. done' = d /\ pending' = rest
    <3>1. done' = d \o <<>> /\ pending' = rest
        BY <1>2, <1>9 DEF d, rest, h
    <3>2. QED
        BY <1>6, <3>1, ConcatEmptySeq
  <2>2. ASSUME NEW i \in 1..Len(d)
        PROVE  \/ i \in 1..Len(done) /\ d[i] = done[i]
               \/ i = Len(done) + 1 /\ d[i].urb = h /\ d[i].status = s
      BY <1>3, <1>6
  <2>3. TypeOK'
      BY <1>1, <1>3, <1>6, <2>1 DEF TransferInv, TypeOK, tpriv
  <2>4. Accounts' /\ Recalled'
    <3>1. retired + Len(d) + Len(rest) = NumUrbs
        BY <1>3, <1>6, <1>7
    <3>2. QED
        BY <1>1, <2>1, <3>1 DEF Accounts, Recalled, tpriv
  <2>5. \A i \in 1..Len(d) : d[i].urb = retired + i - 1
    <3>1. h = retired + (Len(done) + 1) - 1
        BY <1>3, <1>7
    <3>2. QED
        BY <1>7, <2>2, <3>1
  <2>6. \A i \in 1..Len(d) : d[i].status = "overflow" => d[i].urb = LastUrb
    <3>1. s = "overflow" => h = LastUrb
        BY <1>4
    <3>2. QED
        BY <1>7, <2>2, <3>1
  <2>7. \A i \in 1..Len(rest) : rest[i] = retired + Len(d) + i - 1
    <3> SUFFICES ASSUME NEW i \in 1..Len(rest) PROVE rest[i] = retired + Len(d) + i - 1
        OBVIOUS
    <3>1. rest[i] = pending[i + 1] /\ i + 1 \in 1..Len(pending)
        BY <1>3
    <3>2. rest[i] = retired + Len(done) + (i + 1) - 1
        BY <1>7, <3>1
    <3>3. QED
        BY <1>3, <1>6, <1>7, <3>2
  <2>8. \A i \in 1..Len(d) : Bulk => d[i].status = "full"
    <3>1. Bulk => s = "full"
        BY <1>9, UrbAssumption DEF UrbAssumption, TransferInv, TypeOK, Bulk
    <3>2. QED
        BY <1>7, <2>2, <3>1
  <2>9. InTurn'
      BY <1>1, <2>1, <2>5, <2>6, <2>7, <2>8 DEF InTurn, tpriv, Bulk
  <2>10. Blame' /\ ShortOnly'
      BY <1>1, <2>1, <2>8 DEF Blame, ShortOnly, tpriv, Bulk
  <2>11. QED
      BY <1>0, <1>1, <2>1, <2>3, <2>4, <2>9, <2>10 DEF TransferInv
<1>10. QED
    BY <1>8, <1>9

LEMMA FirstUrbsFacts ==
    ASSUME NEW n \in 0..NumUrbs
    PROVE  /\ FirstUrbs(n) \in Seq(Urbs) /\ Len(FirstUrbs(n)) = n
           /\ \A i \in 1..n : FirstUrbs(n)[i] = i - 1
<1>1. n \in Nat /\ \A i \in 1..n : i - 1 \in Urbs
    BY Types DEF Urbs
<1>2. QED
    BY <1>1, IsASeq, LenProperties DEF FirstUrbs

\* A submission finds nothing of the transfer in the kernel, and leaves every URB in it, to be
\* reaped, or counted as retired.
LEMMA Accepted ==
    ASSUME TransferInv, NEW lost \in 0..NumUrbs, NEW a \in Actions, a # "ERROR", Accept(lost, a),
           pending' \in Seq(Urbs), done' \in Seq(Reapable),
           lost + Len(done') + Len(pending') = NumUrbs
    PROVE  /\ kind' # "split" /\ TypeOK' /\ Flight' /\ Accounts' /\ Honest' /\ NoSilentError'
           /\ urbs' /\ action' = a /\ retired' = lost /\ broken' = "full" /\ kind' = kind
<1>1. /\ kind' = kind /\ attached' = attached /\ event' = event /\ flying' = TRUE /\ urbs' = TRUE
      /\ timedOut' = FALSE /\ asked' = FALSE /\ broken' = "full" /\ status' = "COMPLETED"
      /\ action' = a /\ retired' = 0 + lost
      /\ submits < MaxSubmits /\ submits' = submits + 1 /\ event.at \in {"idle", "callback"}
    BY DEF Accept, ResetRetired
<1>2. retired' = lost /\ kind # "split" /\ TypeOK
    BY <1>1, Types DEF TransferInv
<1>3. submits' \in 0..MaxSubmits
    BY <1>1, <1>2, UrbAssumption DEF TypeOK, UrbAssumption
<1>4. TypeOK'
    BY <1>1, <1>2, <1>3 DEF TypeOK, Results, UrbStatus
<1>5. QED
    BY <1>1, <1>2, <1>4 DEF Flight, Accounts, Honest, NoSilentError, Bulk

LEMMA NothingOut ==
    ASSUME TransferInv, NEW lost, NEW a, Accept(lost, a)
    PROVE  done = <<>> /\ pending = <<>>
    BY DEF TransferInv, Accounts, Accept

LEMMA SubmitStep ==
    ASSUME TransferInv, Submit
    PROVE  TransferInv'
<1>1. Accept(0, "NORMAL") /\ pending' = FirstUrbs(NumUrbs) /\ done' = done
    BY DEF Submit, ResetAction
<1>2. done' = <<>> /\ Len(done') = 0 /\ done' \in Seq(Reapable)
    BY <1>1, NothingOut, EmptySeq
<1>3. /\ pending' \in Seq(Urbs) /\ Len(pending') = NumUrbs /\ NumUrbs \in Nat
      /\ \A i \in 1..NumUrbs : pending'[i] = i - 1
  <2>1. NumUrbs \in 0..NumUrbs /\ NumUrbs \in Nat
      BY Types
  <2>2. QED
      BY <1>1, <2>1, FirstUrbsFacts
<1>4. /\ kind' # "split" /\ TypeOK' /\ Flight' /\ Accounts' /\ Honest' /\ NoSilentError'
      /\ urbs' /\ action' = "NORMAL" /\ retired' = 0
    BY <1>1, <1>2, <1>3, Accepted DEF Actions
<1>5. Recalled' /\ InTurn' /\ Blame' /\ ShortOnly'
    BY <1>2, <1>3, <1>4 DEF Recalled, InTurn, Blame, ShortOnly
<1>6. QED
    BY <1>4, <1>5 DEF TransferInv

LEMMA SubmitInPartStep ==
    ASSUME TransferInv, NEW n \in 1..LastUrb, SubmitInPart(n)
    PROVE  TransferInv'
<1> DEFINE q == Reverse(FirstUrbs(n))
<1>1. /\ Accept(NumUrbs - n, "SUBMIT_FAILED") /\ done' = done \o Handed(q, "cancelled")
      /\ pending' = pending
    BY DEF SubmitInPart
<1>2. n \in 0..NumUrbs /\ n \in Nat /\ NumUrbs - n \in 0..NumUrbs /\ NumUrbs \in Nat
    BY Types
<1>3. q \in Seq(Urbs) /\ Len(q) = n
  <2> DEFINE f == FirstUrbs(n)
  <2>1. f \in Seq(Urbs) /\ Len(f) = n
      BY <1>2, FirstUrbsFacts
  <2> HIDE DEF f
  <2>2. Reverse(f) \in Seq(Urbs) /\ Len(Reverse(f)) = n
      BY <2>1, ReverseFacts
  <2>3. QED
      BY <2>2 DEF f
<1> HIDE DEF q
<1>4. done = <<>> /\ pending' = <<>> /\ Len(pending') = 0 /\ pending' \in Seq(Urbs)
    BY <1>1, NothingOut, EmptySeq
<1>5. done' \in Seq(Reapable) /\ Len(done') = n
  <2>1. done \in Seq(Reapable) /\ Len(done) = 0 /\ "cancelled" \in UrbStatus
      BY <1>4, EmptySeq DEF UrbStatus
  <2>2. Appended(done \o Handed(q, "cancelled"), done, q, "cancelled")
      BY <1>3, <2>1, Behind
  <2>3. QED
      BY <1>1, <1>2, <1>3, <2>1, <2>2 DEF Appended
<1>6. /\ kind' # "split" /\ TypeOK' /\ Flight' /\ Accounts' /\ Honest' /\ NoSilentError'
      /\ urbs' /\ action' = "SUBMIT_FAILED"
    BY <1>1, <1>2, <1>4, <1>5, Accepted DEF Actions
<1>7. Recalled' /\ InTurn' /\ Blame' /\ ShortOnly'
    BY <1>4, <1>6 DEF Recalled, InTurn, Blame, ShortOnly
<1>8. QED
    BY <1>6, <1>7 DEF TransferInv

LEMMA SubmitEnoughStep ==
    ASSUME TransferInv, NEW n \in 1..LastUrb, NEW j \in 0..(n - 1), SubmitEnough(n, j)
    PROVE  TransferInv'
<1> DEFINE e == [i \in 1..n |-> [urb |-> i - 1, status |-> CASE i - 1 < j -> "full"
                                                             [] i - 1 = j -> "short"
                                                             [] OTHER     -> "cancelled"]]
<1>1. Accept(NumUrbs - n, "COMPLETED_EARLY") /\ done' = done \o e /\ pending' = pending
    BY DEF SubmitEnough
<1>2. n \in 0..NumUrbs /\ n \in Nat /\ NumUrbs - n \in 0..NumUrbs /\ NumUrbs \in Nat /\ j \in Nat
    BY Types
<1>3. e \in Seq(Reapable) /\ Len(e) = n
  <2>1. \A i \in 1..n : i - 1 \in Urbs
      BY <1>2, Types DEF Urbs
  <2>2. \A i \in 1..n : e[i] \in Reapable
      BY <2>1 DEF Reapable, UrbStatus
  <2>3. e = [i \in 1..n |-> e[i]]
      OBVIOUS
  <2> HIDE DEF e
  <2>4. e \in Seq(Reapable)
      BY <1>2, <2>2, <2>3, IsASeq
  <2>5. QED
      BY <1>2, <2>3, <2>4, LenProperties
<1>4. /\ e[j + 1].status = "short" /\ j + 1 \in 1..n
      /\ \A i \in 1..n : /\ e[i].status \in {"full", "short", "cancelled"}
                         /\ e[i].status = "cancelled" => j + 1 \in 1..(i - 1)
    BY <1>2
<1> HIDE DEF e
<1>5. done = <<>> /\ pending' = <<>> /\ Len(pending') = 0 /\ pending' \in Seq(Urbs)
    BY <1>1, NothingOut, EmptySeq
<1>6. done' = e
    BY <1>1, <1>3, <1>5, ConcatEmptySeq
<1>7. /\ kind' # "split" /\ TypeOK' /\ Flight' /\ Accounts' /\ Honest' /\ NoSilentError'
      /\ urbs' /\ action' = "COMPLETED_EARLY"
    BY <1>1, <1>2, <1>3, <1>5, <1>6, Accepted DEF Actions
<1>8. Recalled' /\ InTurn' /\ ShortOnly'
    BY <1>3, <1>4, <1>5, <1>6, <1>7 DEF Recalled, InTurn, ShortOnly
<1>9. Blame'
    BY <1>3, <1>4, <1>6 DEF Blame
<1>10. QED
    BY <1>7, <1>8, <1>9 DEF TransferInv

\* A cancellation recalls what is in the kernel.
LEMMA OpCancelStep ==
    ASSUME TransferInv, OpCancel, timedOut' \in BOOLEAN,
           UNCHANGED <<kind, attached, flying, urbs, retired, status, event, submits, broken>>
    PROVE  TransferInv'
<1>1. pending \in Seq(Urbs) /\ done \in Seq(Reapable) /\ Len(pending) \in Nat /\ Len(done) \in Nat
    BY LenProperties DEF TransferInv, TypeOK
<1>2. /\ action' \in {"ERROR", "CANCELLED"} /\ asked' = TRUE
      /\ action' = "ERROR" => action = "ERROR"
    BY DEF OpCancel
<1>3. CASE urbs
  <2>1. \A i \in 1..Len(pending) : ~(pending[i] < 0)
    <3>1. ASSUME NEW i \in 1..Len(pending) PROVE pending[i] \in Nat
      <4>1. pending[i] \in Urbs
          BY <1>1, ElementOfSeq
      <4>2. QED
          BY <4>1, Types
    <3>2. QED
        BY <3>1
  <2>2. /\ pending' = <<>> /\ Len(pending') = 0 /\ done' \in Seq(Reapable)
        /\ Len(done') = Len(done) + Len(pending)
      BY <1>1, <1>3, <2>1, DiscardAll DEF OpCancel
  <2>3. Accounts' /\ Recalled' /\ pending' \in Seq(Urbs)
    <3>1. retired + Len(done') + 0 = NumUrbs
        BY <1>1, <1>3, <2>2, Types DEF TransferInv, Accounts, TypeOK
    <3>2. QED
        BY <1>3, <2>2, <3>1, EmptySeq DEF Accounts, Recalled
  <2>4. QED
      BY <2>2, <2>3, <1>2 DEF TransferInv, TypeOK, Actions, Flight, InTurn, Blame, ShortOnly, Honest,
                              NoSilentError, Bulk
<1>4. CASE ~urbs
  <2>1. pending' = pending /\ done' = done
      BY <1>4 DEF OpCancel, kernel
  <2>2. QED
      BY <2>1, <1>2, <1>4 DEF TransferInv, TypeOK, Actions, Flight, Accounts, Recalled, InTurn, Blame,
                              ShortOnly, Honest, NoSilentError, Bulk
<1>5. QED
    BY <1>3, <1>4

\* Whether the transfer is finished or not, a reap takes the URB at the head and no other, and
\* when it finishes nothing is left.
LEMMA ReapTakesOne ==
    ASSUME TransferInv, Reap
    PROVE  /\ done \in Seq(Reapable) /\ done # <<>> /\ done' = Tail(done) /\ pending' = pending
           /\ \/ GoOn
              \/ /\ retired = LastUrb
                 /\ \E result \in Results \union {"byAction"} :
                       Finish(result) /\ (Bulk => result = "byAction")
<1> DEFINE u == Head(done).urb
           s == Head(done).status
<1>1. /\ done \in Seq(Reapable) /\ done # <<>> /\ urbs /\ pending \in Seq(Urbs)
      /\ retired \in Nat /\ kind # "split"
    BY DEF TransferInv, TypeOK, Reap
<1>2. /\ Tail(done) \in Seq(Reapable) /\ Len(Tail(done)) = Len(done) - 1 /\ Len(done) \in Nat
      /\ Len(done) >= 1 /\ u = done[1].urb /\ s = done[1].status /\ u \in Urbs /\ s \in UrbStatus
      /\ Len(pending) \in Nat
  <2>1. Head(done) = done[1] /\ done[1] \in Reapable
      BY <1>1, TailFacts
  <2>2. QED
      BY <1>1, <2>1, TailFacts, LenProperties, Types
<1>3. retired + Len(done) + Len(pending) = NumUrbs /\ (action # "NORMAL" => pending = <<>>)
    BY <1>1 DEF TransferInv, Accounts, Recalled
<1>4. action = "NORMAL" => /\ u = retired /\ (s = "overflow" => u = LastUrb)
                           /\ Bulk /\ s # "full" => pending = <<>>
    BY <1>1, <1>2 DEF TransferInv, InTurn
<1>5. retired + 1 = NumUrbs <=> retired = LastUrb
    BY <1>1, Types
<1> HIDE DEF u, s
<1>6. CASE ReapIso(u, s) /\ ~Bulk
  <2>1. ErrorResult(s) \in Results /\ "ERROR" \in Results
      BY DEF ErrorResult, Results
  <2>2. QED
      BY <1>1, <1>4, <1>5, <1>6, <2>1 DEF ReapIso, AllRetired
<1>7. CASE ReapAbnormal /\ Bulk
    BY <1>1, <1>5, <1>7 DEF ReapAbnormal, AllRetired
<1>8. CASE ReapNormal(u, s) /\ Bulk /\ action = "NORMAL"
  <2>1. CASE s = "overflow" \/ (u = LastUrb /\ s \in {"full", "short", "cancelled"})
      BY <1>1, <1>4, <1>8, <2>1 DEF ReapNormal
  <2>2. CASE s = "full" /\ u # LastUrb
      BY <1>1, <1>8, <2>2 DEF ReapNormal
  <2>3. CASE /\ ~(s = "overflow" \/ (u = LastUrb /\ s \in {"full", "short", "cancelled"}))
             /\ ~(s = "full" /\ u # LastUrb)
    <3>1. pending = <<>>
        BY <1>4, <1>8, <2>3
    <3>2. CASE AllRetired(retired + 1)
        BY <1>1, <1>5, <1>8, <2>3, <3>2 DEF ReapNormal, AllRetired
    <3>3. CASE ~AllRetired(retired + 1)
      <4>1. GoOn /\ Discard(u + 1, Tail(done))
          BY <1>8, <2>3, <3>3 DEF ReapNormal
      <4>2. \A i \in 1..Len(pending) : ~(pending[i] < u + 1)
          BY <3>1
      <4>3. pending' = <<>> /\ done' = Tail(done)
          BY <1>1, <1>2, <3>1, <4>1, <4>2, DiscardAll
      <4>4. QED
          BY <1>1, <3>1, <4>1, <4>3
    <3>4. QED
        BY <3>2, <3>3
  <2>4. QED
      BY <2>1, <2>2, <2>3
<1>9. QED
    BY <1>6, <1>7, <1>8, <1>1 DEF Reap, Bulk, u, s

\* The part of the invariant that is about the place of the URBs.
LEMMA ReapPlaces ==
    ASSUME TransferInv, Reap
    PROVE  /\ kind' # "split" /\ TypeOK' /\ Flight' /\ Accounts' /\ NoSilentError'
           /\ done \in Seq(Reapable) /\ done' = Tail(done) /\ done # <<>>
           /\ Len(done') = Len(done) - 1 /\ Len(done) \in Nat /\ retired \in Nat
           /\ \A i \in 1..Len(done') : done'[i] = done[i + 1] /\ i + 1 \in 1..Len(done)
           /\ retired' = retired + 1 /\ Head(done) = done[1] /\ 1 \in 1..Len(done)
           /\ done[1].status \in UrbStatus
<1>1. /\ done \in Seq(Reapable) /\ done # <<>> /\ done' = Tail(done) /\ pending' = pending
      /\ \/ GoOn
         \/ /\ retired = LastUrb
            /\ \E result \in Results \union {"byAction"} :
                  Finish(result) /\ (Bulk => result = "byAction")
    BY ReapTakesOne
<1>2. /\ Len(done') = Len(done) - 1 /\ Len(done) >= 1 /\ Head(done) = done[1] /\ done[1] \in Reapable
      /\ done' \in Seq(Reapable) /\ \A i \in 1..Len(done') : done'[i] = done[i + 1]
    BY <1>1, TailFacts
<1>3. Len(done) \in Nat /\ retired \in Nat /\ Len(pending) \in Nat /\ urbs /\ pending \in Seq(Urbs)
    BY <1>1, LenProperties DEF TransferInv, TypeOK, Reap
<1>4. /\ retired' = retired + 1 /\ event.at = "idle"
      /\ UNCHANGED <<kind, attached, flying, timedOut, submits, asked>>
      /\ broken' = IF broken = "full" THEN done[1].status ELSE broken
    BY <1>2 DEF Reap
<1>5. retired + Len(done) + Len(pending) = NumUrbs
    BY <1>3 DEF TransferInv, Accounts
<1>6. done[1].status \in UrbStatus
    BY <1>2, Types
<1>7. action' \in Actions /\ status' \in Results
  <2>1. action \in Actions /\ status \in Results
      BY DEF TransferInv, TypeOK
  <2>2. \A x : ErrorResult(x) \in Results
      BY DEF ErrorResult, Results
  <2>3. CASE ReapAbnormal
      BY <2>1, <2>3 DEF ReapAbnormal, Results
  <2>4. CASE ReapNormal(Head(done).urb, Head(done).status)
    <3>1. action' \in Actions
        BY <2>1, <2>4 DEF ReapNormal, Actions
    <3>2. status' \in Results
        BY <2>1, <2>2, <2>4 DEF ReapNormal, Results
    <3>3. QED
        BY <3>1, <3>2
  <2>5. CASE ReapIso(Head(done).urb, Head(done).status)
      BY <2>1, <2>5 DEF ReapIso
  <2>6. QED
      BY <2>3, <2>4, <2>5 DEF Reap, Bulk
<1>8. retired' \in 0..NumUrbs
    BY <1>2, <1>3, <1>4, <1>5, Types
<1>9. /\ urbs' \in BOOLEAN
      /\ event' \in [at : {"idle", "completing", "callback"}, result : Results \union {"byAction"}]
      /\ event'.at # "callback"
  <2>1. CASE GoOn
      BY <1>4, <2>1 DEF GoOn, TransferInv, TypeOK
  <2>2. ASSUME NEW result \in Results \union {"byAction"}, Finish(result)
        PROVE  /\ urbs' = FALSE /\ event'.at = "completing"
               /\ event' \in [at : {"idle", "completing", "callback"},
                             result : Results \union {"byAction"}]
      BY <2>2 DEF Finish
  <2>3. QED
      BY <1>1, <2>1, <2>2
<1>10. TypeOK'
    BY <1>1, <1>2, <1>4, <1>6, <1>7, <1>8, <1>9 DEF TransferInv, TypeOK
<1>11. Flight'
  <2>1. flying
      BY <1>3 DEF TransferInv, Flight
  <2>2. CASE GoOn
      BY <1>3, <1>4, <2>1, <2>2 DEF GoOn, Flight
  <2>3. CASE \E result \in Results \union {"byAction"} :
                  Finish(result) /\ (Bulk => result = "byAction")
      BY <1>4, <2>1, <2>3 DEF Finish, Flight, Bulk
  <2>4. QED
      BY <1>1, <2>2, <2>3
<1>12. Accounts'
  <2>1. CASE GoOn
    <3>1. retired + 1 + Len(done') + Len(pending) = NumUrbs
        BY <1>2, <1>3, <1>5
    <3>2. QED
        BY <1>1, <1>3, <1>4, <2>1, <3>1 DEF GoOn, Accounts
  <2>2. CASE /\ retired = LastUrb
             /\ \E result \in Results \union {"byAction"} : Finish(result)
    <3>1. Len(done') = 0 /\ Len(pending) = 0
        BY <1>2, <1>3, <1>5, <2>2, Types
    <3>2. done' = <<>> /\ pending' = <<>>
        BY <1>1, <1>2, <1>3, <3>1, EmptySeq
    <3>3. QED
        BY <2>2, <3>2 DEF Finish, Accounts
  <2>3. QED
      BY <1>1, <2>1, <2>2
<1>13. kind' # "split" /\ NoSilentError'
    BY <1>4, <1>9 DEF TransferInv, NoSilentError
<1>14. QED
    BY <1>1, <1>2, <1>3, <1>4, <1>6, <1>10, <1>11, <1>12, <1>13

\* What a reap does to reap_action and reap_status, when the head of the queue ended with s.
LEMMA ReapOrder ==
    ASSUME TransferInv, Reap, Bulk, NEW s, s = done[1].status
    PROVE  /\ action = "NORMAL" => (s = "cancelled" => broken # "full")
           /\ broken = "full" /\ action = "COMPLETED_EARLY" => s \in {"full", "short"}
           /\ broken' = IF broken = "full" THEN s ELSE broken
           /\ action # "NORMAL" =>
                 /\ action' = action
                 /\ status' = status \/ status' = "ERROR"
                 /\ action = "SUBMIT_FAILED" /\ status' = "COMPLETED" => GoOn
           /\ action = "NORMAL" =>
                 /\ action' = action \/ (action' = "ERROR" /\ s = "error") \/ action' = "COMPLETED_EARLY"
                 /\ status # "COMPLETED" => status' # "COMPLETED"
                 /\ s \in {"gone", "stall", "overflow", "error"} => status' # "COMPLETED"
                 /\ s = "full" => action' = action
<1>1. /\ urbs /\ done \in Seq(Reapable) /\ done # <<>> /\ Head(done) = done[1] /\ 1 \in 1..Len(done)
      /\ s \in UrbStatus
    BY ReapPlaces DEF Reap
<1>2. broken = "full" /\ action \in {"NORMAL", "COMPLETED_EARLY"} => s # "cancelled"
    BY <1>1 DEF TransferInv, Blame
<1>3. broken = "full" /\ action = "COMPLETED_EARLY" => s \in {"full", "short"}
    BY <1>1, <1>2 DEF TransferInv, ShortOnly
<1>4. broken' = IF broken = "full" THEN s ELSE broken
    BY <1>1 DEF Reap
<1>5. CASE action # "NORMAL"
  <2>1. ReapAbnormal
      BY <1>5 DEF Reap, Bulk
  <2>2. action = "SUBMIT_FAILED" /\ status' = "COMPLETED" => GoOn
      BY <2>1 DEF ReapAbnormal
  <2>3. action' = action /\ (status' = status \/ status' = "ERROR")
      BY <2>1 DEF ReapAbnormal
  <2>4. QED
      BY <1>2, <1>3, <1>4, <1>5, <2>2, <2>3
<1>6. CASE action = "NORMAL"
  <2>1. ReapNormal(Head(done).urb, s)
      BY <1>1, <1>6 DEF Reap, Bulk
  <2>2. action' = action \/ (action' = "ERROR" /\ s = "error") \/ action' = "COMPLETED_EARLY"
      BY <2>1 DEF ReapNormal
  <2>3. status # "COMPLETED" => status' # "COMPLETED"
      BY <2>1 DEF ReapNormal
  <2>4. s \in {"gone", "stall", "overflow", "error"} => status' # "COMPLETED"
      BY <2>1 DEF ReapNormal, ErrorResult
  <2>5. s = "full" => action' = action
      BY <2>1 DEF ReapNormal
  <2>6. QED
      BY <1>2, <1>3, <1>4, <1>6, <2>2, <2>3, <2>4, <2>5
<1>7. QED
    BY <1>5, <1>6

LEMMA ReapStep ==
    ASSUME TransferInv, Reap
    PROVE  TransferInv'
<1> DEFINE s == done[1].status
<1>1. /\ kind' # "split" /\ TypeOK' /\ Flight' /\ Accounts' /\ NoSilentError'
      /\ Len(done') = Len(done) - 1 /\ Len(done) \in Nat /\ retired \in Nat
      /\ \A i \in 1..Len(done') : done'[i] = done[i + 1] /\ i + 1 \in 1..Len(done)
      /\ retired' = retired + 1 /\ s \in UrbStatus
    BY ReapPlaces
<1>2. /\ pending' = pending /\ kind' = kind /\ urbs
      /\ \/ GoOn
         \/ \E result \in Results \union {"byAction"} : Finish(result)
    BY ReapTakesOne DEF Reap
<1>3. ~Bulk => action' = action
    BY DEF Reap, Bulk, ReapIso
<1>4. Bulk =>
           /\ action = "NORMAL" => (s = "cancelled" => broken # "full")
           /\ broken = "full" /\ action = "COMPLETED_EARLY" => s \in {"full", "short"}
           /\ broken' = IF broken = "full" THEN s ELSE broken
           /\ action # "NORMAL" =>
                 /\ action' = action
                 /\ status' = status \/ status' = "ERROR"
                 /\ action = "SUBMIT_FAILED" /\ status' = "COMPLETED" => GoOn
           /\ action = "NORMAL" =>
                 /\ action' = action \/ (action' = "ERROR" /\ s = "error") \/ action' = "COMPLETED_EARLY"
                 /\ status # "COMPLETED" => status' # "COMPLETED"
                 /\ s \in {"gone", "stall", "overflow", "error"} => status' # "COMPLETED"
                 /\ s = "full" => action' = action
    BY ReapOrder
<1> HIDE DEF s
<1>5. Recalled'
  <2>1. CASE action' = action
      BY <1>2, <2>1 DEF TransferInv, Recalled, GoOn
  <2>2. CASE action' # action
    <3>1. Bulk /\ action = "NORMAL" /\ s # "full"
        BY <1>3, <1>4, <2>2
    <3>2. pending = <<>>
        BY <1>2, <3>1, ReapPlaces DEF s, TransferInv, InTurn
    <3>3. QED
        BY <1>2, <3>2 DEF Recalled
  <2>3. QED
      BY <2>1, <2>2
<1>6. InTurn'
  <2> SUFFICES ASSUME urbs', action' = "NORMAL"
               PROVE  InTurn'
      BY DEF InTurn
  <2>1. action = "NORMAL"
      BY <1>3, <1>4
  <2>2. /\ \A i \in 1..Len(done) : done[i].urb = retired + i - 1
        /\ \A i \in 1..Len(pending) : pending[i] = retired + Len(done) + i - 1
        /\ \A i \in 1..Len(done) : done[i].status = "overflow" => done[i].urb = LastUrb
        /\ \A i \in 1..Len(done) : Bulk /\ done[i].status # "full" => pending = <<>>
      BY <1>2, <2>1 DEF TransferInv, InTurn
  <2>3. \A i \in 1..Len(done') : done'[i].urb = retired' + i - 1
    <3> SUFFICES ASSUME NEW i \in 1..Len(done') PROVE done'[i].urb = retired' + i - 1
        OBVIOUS
    <3>1. done'[i].urb = retired + (i + 1) - 1
        BY <1>1, <2>2
    <3>2. QED
        BY <1>1, <3>1
  <2>4. \A i \in 1..Len(pending') : pending'[i] = retired' + Len(done') + i - 1
      BY <1>1, <1>2, <2>2
  <2>5. \A i \in 1..Len(done') : done'[i].status = "overflow" => done'[i].urb = LastUrb
      BY <1>1, <2>2
  <2>6. \A i \in 1..Len(done') : Bulk /\ done'[i].status # "full" => pending' = <<>>
      BY <1>1, <1>2, <2>2
  <2>7. QED
      BY <1>2, <2>3, <2>4, <2>5, <2>6 DEF InTurn, Bulk
<1>7. Bulk /\ broken' = "full" /\ action' \in {"NORMAL", "COMPLETED_EARLY"} =>
           broken = "full" /\ s = "full" /\ action' = action
    BY <1>4
<1>8. Blame'
  <2> SUFFICES ASSUME Bulk, broken' = "full", action' \in {"NORMAL", "COMPLETED_EARLY"},
                      NEW i \in 1..Len(done'), done'[i].status = "cancelled"
               PROVE  \E k \in 1..(i - 1) : done'[k].status \notin {"full", "cancelled"}
      BY <1>2 DEF Blame, Bulk
  <2>1. PICK j \in 1..i : done[j].status \notin {"full", "cancelled"}
    <3>1. i + 1 \in 1..Len(done) /\ done[i + 1].status = "cancelled"
        BY <1>1
    <3>2. (i + 1) - 1 = i
        OBVIOUS
    <3>3. \E j \in 1..((i + 1) - 1) : done[j].status \notin {"full", "cancelled"}
        BY <1>2, <1>7, <3>1 DEF TransferInv, Blame
    <3>4. QED
        BY <3>2, <3>3
  <2>2. j # 1
      BY <1>7, <2>1 DEF s
  <2>3. j - 1 \in 1..(i - 1) /\ j - 1 \in 1..Len(done') /\ (j - 1) + 1 = j
      BY <1>1, <2>1, <2>2
  <2>4. done'[j - 1] = done[j]
      BY <1>1, <2>3
  <2>5. QED
      BY <2>1, <2>3, <2>4
<1>9. ShortOnly'
  <2> SUFFICES ASSUME Bulk, broken' = "full", action' = "COMPLETED_EARLY", NEW i \in 1..Len(done')
               PROVE  done'[i].status \in {"full", "short", "cancelled"}
      BY <1>2 DEF ShortOnly, Bulk
  <2>1. \A k \in 1..Len(done) : done[k].status \in {"full", "short", "cancelled"}
      BY <1>2, <1>7 DEF TransferInv, ShortOnly
  <2>2. QED
      BY <1>1, <2>1
<1>10. Honest'
  <2> SUFFICES ASSUME Bulk
               PROVE  /\ action' = "ERROR" => status' # "COMPLETED"
                      /\ broken' \notin {"full", "short"} =>
                            \/ status' # "COMPLETED" \/ action' = "CANCELLED"
                            \/ urbs' /\ action' = "SUBMIT_FAILED"
      BY <1>2 DEF Honest, Bulk
  <2>1. /\ action = "ERROR" => status # "COMPLETED"
        /\ broken \notin {"full", "short"} =>
              status # "COMPLETED" \/ action = "CANCELLED" \/ action = "SUBMIT_FAILED"
      BY <1>2 DEF TransferInv, Honest
  <2>2. GoOn => urbs'
      BY <1>2 DEF GoOn
  <2>3. action \in Actions
      BY DEF TransferInv, TypeOK
  <2>4. CASE action = "NORMAL"
      BY <1>1, <1>4, <2>1, <2>4 DEF UrbStatus
  <2>5. CASE action # "NORMAL"
      BY <1>1, <1>4, <2>1, <2>2, <2>3, <2>5 DEF Actions
  <2>6. QED
      BY <2>4, <2>5
<1>11. QED
    BY <1>1, <1>5, <1>6, <1>8, <1>9, <1>10 DEF TransferInv

LEMMA ReportStep ==
    ASSUME TransferInv, Report
    PROVE  TransferInv'
<1>1. /\ event.at = "completing" /\ flying' = FALSE /\ ~urbs
      /\ event'.at = "callback" /\ event'.result = Reported
      /\ UNCHANGED <<kind, attached, tpriv, timedOut, kernel, submits, asked, broken>>
    BY DEF TransferInv, Flight, Report
<1>2. TypeOK'
  <2>1. Reported \in Results \union {"byAction"}
      BY DEF TransferInv, TypeOK, Reported, Results
  <2>2. event' \in [at : {"idle", "completing", "callback"}, result : Results \union {"byAction"}]
      BY <2>1 DEF Report
  <2>3. QED
      BY <1>1, <2>2 DEF TransferInv, TypeOK, tpriv, kernel
<1>3. NoSilentError'
  <2> SUFFICES ASSUME Bulk, Reported = "COMPLETED" PROVE broken \in {"full", "short"}
      BY <1>1 DEF NoSilentError, Bulk
  <2>1. event.result = "byAction" /\ action # "CANCELLED" /\ status = "COMPLETED"
      BY <1>1 DEF Reported, TransferInv, Flight
  <2>2. QED
      BY <1>1, <2>1 DEF TransferInv, Honest
<1>4. QED
    BY <1>1, <1>2, <1>3 DEF TransferInv, Flight, Accounts, Recalled, InTurn, Blame, ShortOnly, Honest,
                            tpriv, kernel, Bulk

LEMMA CallbackReturnsStep ==
    ASSUME TransferInv, CallbackReturns
    PROVE  TransferInv'
<1>1. /\ event.at = "callback" /\ event' = Idle /\ event'.at = "idle"
      /\ UNCHANGED <<kind, attached, flying, tpriv, timedOut, kernel, submits, asked, broken>>
    BY DEF CallbackReturns, Idle
<1>2. TypeOK'
  <2>1. event' \in [at : {"idle", "completing", "callback"}, result : Results \union {"byAction"}]
      BY <1>1 DEF Idle, Results
  <2>2. QED
      BY <1>1, <2>1 DEF TransferInv, TypeOK, tpriv, kernel
<1>3. QED
    BY <1>1, <1>2 DEF TransferInv, Flight, Accounts, Recalled, InTurn, Blame, ShortOnly, Honest,
                      NoSilentError, tpriv, kernel, Bulk

LEMMA DisconnectStep ==
    ASSUME TransferInv, Disconnect
    PROVE  TransferInv'
<1>1. /\ event.at = "idle" /\ attached' = FALSE /\ pending' = <<>> /\ done' = <<>>
      /\ UNCHANGED <<kind, flying, retired, action, status, timedOut, submits, asked, broken>>
      /\ urbs' = FALSE /\ (urbs <=> flying)
      /\ \/ flying /\ event'.at = "completing" /\ event'.result = "NO_DEVICE"
         \/ ~flying /\ event' = event
  <2>1. urbs <=> flying
      BY DEF Disconnect, TransferInv, Flight
  <2>2. urbs \in BOOLEAN
      BY DEF TransferInv, TypeOK
  <2>3. QED
      BY <2>1, <2>2 DEF Disconnect, Finish, GoOn
<1>2. TypeOK'
  <2>1. event' \in [at : {"idle", "completing", "callback"}, result : Results \union {"byAction"}]
    <3>1. CASE flying
        BY <3>1 DEF Disconnect, Finish, Results
    <3>2. CASE ~flying
        BY <1>1, <3>2 DEF TransferInv, TypeOK
    <3>3. QED
        BY <3>1, <3>2
  <2>2. pending' \in Seq(Urbs) /\ done' \in Seq(Reapable)
      BY <1>1, EmptySeq
  <2>3. QED
      BY <1>1, <2>1, <2>2 DEF TransferInv, TypeOK
<1>3. QED
    BY <1>1, <1>2 DEF TransferInv, Flight, Accounts, Recalled, InTurn, Blame, ShortOnly, Honest,
                      NoSilentError, Bulk

LEMMA TransferInvStep == TransferInv /\ [Next]_vars => TransferInv'
<1> SUFFICES ASSUME TransferInv, [Next]_vars PROVE TransferInv'
    OBVIOUS
<1>1. CASE KernelCompletes
    BY <1>1, KernelStep
<1>2. CASE SomeSubmit
    BY <1>2, SubmitStep, SubmitInPartStep, SubmitEnoughStep DEF SomeSubmit
<1>3. CASE Cancel
  <2>1. timedOut' \in BOOLEAN
      BY <1>3 DEF Cancel, TransferInv, TypeOK
  <2>2. QED
      BY <1>3, <2>1, OpCancelStep DEF Cancel
<1>4. CASE Timeout
    BY <1>4, OpCancelStep DEF Timeout
<1>5. CASE Reap
    BY <1>5, ReapStep
<1>6. CASE Report
    BY <1>6, ReportStep
<1>7. CASE CallbackReturns
    BY <1>7, CallbackReturnsStep
<1>8. CASE Disconnect
    BY <1>8, DisconnectStep
<1>9. CASE UNCHANGED vars
    BY <1>9 DEF vars, TransferInv, TypeOK, Flight, Accounts, Recalled, InTurn, Blame, ShortOnly, Honest,
                NoSilentError, Bulk
<1>10. QED
    BY <1>1, <1>2, <1>3, <1>4, <1>5, <1>6, <1>7, <1>8, <1>9 DEF Next, EventStep

LEMMA TransferInvAlways ==
    ASSUME "split" \notin Kinds
    PROVE  Spec => []TransferInv
<1>1. Init => TransferInv
    BY InitTransferInv
<1>2. QED
    BY <1>1, TransferInvStep, PTL DEF Spec

\* The retired URBs, those to be reaped and those in the kernel stay within the transfer.
THEOREM TypeCorrect ==
    ASSUME "split" \notin Kinds
    PROVE  Spec => []TypeOK
<1>1. TransferInv => TypeOK
    BY DEF TransferInv
<1>2. QED
    BY <1>1, TransferInvAlways, PTL

\* A bulk transfer is called back as COMPLETED only when its URBs ended in full up to one that was
\* short (handle_bulk_completion), if the kernel chains them.
THEOREM ErrorsAreReported ==
    ASSUME "split" \notin Kinds
    PROVE  Spec => []NoSilentError
<1>1. TransferInv => NoSilentError
    BY DEF TransferInv
<1>2. QED
    BY <1>1, TransferInvAlways, PTL

------------------------------------------------------------------------------
(* The promise of libusb *)

LEMMA InitPromise == Init => Promise!ServiceInit
    BY DEF Init, Idle, Promise!ServiceInit

\* Each step of a transfer is one of the service, or none.
LEMMA PromiseStep == TransferInv /\ [Next]_vars => [Promise!ServiceNext]_(Promise!tVars)
<1> DEFINE State == IF flying THEN "flying" ELSE IF event.at = "callback" THEN "callback" ELSE "idle"
           Held  == pending # <<>> \/ done # <<>>
<1> SUFFICES ASSUME TransferInv, [Next]_vars
             PROVE  [Promise!ServiceNext]_(Promise!tVars)
    OBVIOUS
<1>1. Held \in BOOLEAN /\ Held' \in BOOLEAN
    OBVIOUS
<1>2. (State = "flying" /\ State' = "flying") => Promise!Progress
    BY <1>1 DEF Promise!Progress
<1>3. (State' = State /\ Held' = Held) => UNCHANGED Promise!tVars
    BY DEF Promise!tVars
<1>4. (urbs <=> flying /\ event.at # "completing") /\ (event.at = "completing" => flying)
    BY DEF TransferInv, Flight
<1>5. ~urbs => pending = <<>> /\ done = <<>>
    BY DEF TransferInv, Accounts
<1>6. flying \in BOOLEAN /\ event.at \in {"idle", "completing", "callback"}
    BY DEF TransferInv, TypeOK
<1>7. CASE KernelCompletes
  <2>1. flying /\ flying'
      BY <1>4, <1>5, <1>7 DEF KernelCompletes
  <2>2. QED
      BY <1>2, <2>1 DEF Promise!ServiceNext
<1>8. CASE SomeSubmit
  <2>1. ASSUME NEW lost, NEW a, Accept(lost, a)
        PROVE  Promise!Submit
      BY <1>1, <2>1 DEF Accept, Promise!Submit
  <2>2. QED
      BY <1>8, <2>1 DEF SomeSubmit, Submit, SubmitInPart, SubmitEnough, Promise!ServiceNext
<1>9. CASE Cancel \/ Timeout
  <2>1. flying' = flying /\ event' = event
      BY <1>9 DEF Cancel, Timeout
  <2>2. CASE flying
      BY <1>2, <2>1, <2>2 DEF Promise!ServiceNext
  <2>3. CASE ~flying
    <3>1. pending' = pending /\ done' = done
        BY <1>4, <1>9, <2>3 DEF Cancel, Timeout, OpCancel, kernel
    <3>2. QED
        BY <1>3, <2>1, <3>1
  <2>4. QED
      BY <2>2, <2>3
<1>10. CASE Reap
  <2>1. flying /\ flying'
      BY <1>4, <1>10 DEF Reap
  <2>2. QED
      BY <1>2, <2>1 DEF Promise!ServiceNext
<1>11. CASE Report
  <2>1. /\ flying /\ ~flying' /\ event'.at = "callback" /\ pending' = pending /\ done' = done
        /\ pending = <<>> /\ done = <<>>
      BY <1>4, <1>5, <1>11 DEF Report, kernel
  <2>2. Promise!Complete
      BY <2>1 DEF Promise!Complete
  <2>3. QED
      BY <2>2 DEF Promise!ServiceNext
<1>12. CASE CallbackReturns
  <2>1. /\ event.at = "callback" /\ event'.at = "idle" /\ flying' = flying
        /\ pending' = pending /\ done' = done
      BY <1>12 DEF CallbackReturns, kernel, Idle
  <2>2. CASE flying
      BY <1>2, <2>1, <2>2 DEF Promise!ServiceNext
  <2>3. CASE ~flying
    <3>1. Promise!Return
        BY <2>1, <2>3 DEF Promise!Return
    <3>2. QED
        BY <3>1 DEF Promise!ServiceNext
  <2>4. QED
      BY <2>2, <2>3
<1>13. CASE Disconnect
  <2>1. flying' = flying /\ pending' = <<>> /\ done' = <<>>
      BY <1>13 DEF Disconnect
  <2>2. CASE flying
      BY <1>2, <2>1, <2>2 DEF Promise!ServiceNext
  <2>3. CASE ~flying
    <3>1. event' = event /\ pending = <<>> /\ done = <<>>
        BY <1>4, <1>5, <1>13, <2>3 DEF Disconnect, GoOn
    <3>2. QED
        BY <1>3, <2>1, <3>1
  <2>4. QED
      BY <2>2, <2>3
<1>14. CASE UNCHANGED vars
    BY <1>3, <1>14 DEF vars
<1>15. QED
    BY <1>7, <1>8, <1>9, <1>10, <1>11, <1>12, <1>13, <1>14 DEF Next, EventStep

\* Each accepted submission is answered by one callback, when nothing of it is left in the kernel
\* (libusb_submit_transfer, usbi_handle_transfer_completion, usbi_handle_disconnect).
THEOREM TransferKeepsPromise ==
    ASSUME "split" \notin Kinds
    PROVE  Spec => KeepsPromise
<1>1. Spec => []TransferInv
    BY TransferInvAlways
<1>2. QED
    BY <1>1, InitPromise, PromiseStep, PTL DEF Spec, KeepsPromise, Promise!TransferPromise
==============================================================================
