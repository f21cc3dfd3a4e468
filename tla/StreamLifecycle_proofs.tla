----------------------- MODULE StreamLifecycle_proofs -----------------------
(***************************************************************************)
(* Proofs about StreamLifecycle, for any number of transfers, starts and   *)
(* pollers.                                                                *)
(*                                                                         *)
(* With faults.  A slot is emptied exactly when its transfer is freed, so  *)
(* no slot dangles.  A transfer of the last start that is in use is held   *)
(* by its slot, and a user thread of the last start is the one that will   *)
(* be joined (LastHeld), because only the next start overwrites them: a    *)
(* stop that succeeds leaves nothing of the last start behind, even if an  *)
(* earlier start gave up half way.                                         *)
(*                                                                         *)
(* Without faults.  A start begins only when nothing is left of the one    *)
(* before (Rested), so the same holds of all starts (Held, Joined), and    *)
(* nothing is in use after the close.                                      *)
(*                                                                         *)
(* Without faults it implements StreamService: the initial state maps to   *)
(* an initial state and every step to a step of the service or to none.    *)
(* It rests on CleanInv: an activity begins only in a started stream, and  *)
(* a start, the end of a stop and the close find nothing in use.           *)
(***************************************************************************)
EXTENDS StreamLifecycle, TLAPS

SlotOf(t) == transfers[t[2]]

\* The transfer being called back is the event thread's.
InCallback == event.at # "idle" => usb[event.xfer] = "callback"

\* The slots not submitted yet hold the idle transfers of the start.
ToSubmit ==
    app = "submit" => \A i \in Slots : i >= cursor =>
                         transfers[i] = <<starts, i>> /\ usb[<<starts, i>>] = "idle"

\* A start that has not set up has no transfer and no thread.
Unborn ==
    /\ \A t \in Transfers : t[1] > starts \/ (t[1] = starts /\ app = "setup") => usb[t] = "none"
    /\ \A u \in Users : u > starts \/ (u = starts /\ app = "setup") => user[u] = "none"

Counted == app \in {"setup", "submit"} => starts # 0

\* The slots hold what is in use of the last start, and cb_thread is its user thread.
LastHeld ==
    /\ \A t \in Transfers : t[1] = starts /\ InUse(t) => SlotOf(t) = t
    /\ \A u \in Users : u = starts /\ Alive(u) => userCb /\ cbThread = u

Drained == app = "join" => AllSlotsEmpty

\* The inductive invariant, with faults or without.
IInv == TypeOK /\ Counted /\ NoDanglingSlot /\ InCallback /\ ToSubmit /\ Unborn /\ LastHeld /\ Drained

(* Without faults *)

Reliable == attached /\ event.status # "NO_DEVICE"

\* The slots hold everything in use, and every user thread will be joined.
AllHeld == /\ \A t \in Transfers : InUse(t) => SlotOf(t) = t
           /\ \A u \in Users : Alive(u) => userCb /\ cbThread = u

Still == Quiet /\ AllSlotsEmpty

\* Nothing is in use while the stream is not started, and a freed handle stays so.
Rested == /\ app \in {"setup", "free", "done"} => Still
          /\ app \in {"idle", "stop"} /\ ~running => Still
          /\ app \in {"setup", "submit"} => running
          /\ handle = "freed" => app = "done"

\* The inductive invariant when neither the cable nor a submission fails.
CleanInv == IInv /\ Reliable /\ AllHeld /\ Rested

USE LifecycleAssumption DEF LifecycleAssumption
------------------------------------------------------------------------------
(* Types *)

LEMMA TypeInit == Init => TypeOK
<1> SUFFICES ASSUME Init PROVE TypeOK
    OBVIOUS
<1>1. 0 \in Slots
      BY DEF Slots
<1>2. event \in [at : EventPlaces, xfer : Transfers \union {NULL}, status : Status]
      BY DEF Init, NoEvent, EventPlaces, Status
<1>3. app \in AppPlaces /\ starts \in 0..MaxStarts /\ cbThread \in 0..MaxStarts
      BY DEF Init, AppPlaces
<1>4. usb \in [Transfers -> UsbPlaces] /\ user \in [Users -> UserPlaces]
      BY DEF Init, UsbPlaces, UserPlaces
<1>5. poll \in [Pollers -> {"out", "lock", "wait"}]
      BY DEF Init
<1>6. transfers \in [Slots -> Transfers \union {NULL}] /\ \A i \in Slots : transfers[i] = NULL
      BY DEF Init
<1>7. event.at = "idle"
      BY DEF Init, NoEvent
<1>8. QED
      BY <1>1, <1>2, <1>3, <1>4, <1>5, <1>6, <1>7 DEF Init, TypeOK

\* The steps of the application thread.
LEMMA TypeApp == TypeOK /\ Counted /\ (OpenCtrl \/ CallStop \/ CallClose \/ StartStep \/ StopStep) => TypeOK'
<1> SUFFICES ASSUME TypeOK, Counted, OpenCtrl \/ CallStop \/ CallClose \/ StartStep \/ StopStep
             PROVE  TypeOK'
    OBVIOUS
<1> USE DEF TypeOK, usbVars
<1>1. CASE Start
      BY <1>1 DEF Start, AppPlaces
<1>2. CASE \E cb \in BOOLEAN : SetUp(cb)
  <2> PICK cb \in BOOLEAN : SetUp(cb)
      BY <1>2
  <2>1. starts \in 1..MaxStarts /\ cursor' = 0 /\ cursor' \in Slots /\ app' = "submit"
        BY DEF SetUp, Counted, Slots
  <2>2. /\ transfers' = [i \in Slots |-> <<starts, i>>]
        /\ \A i \in Slots : <<starts, i>> \in Transfers /\ <<starts, i>>[2] = i
        BY <2>1 DEF SetUp, Transfers
  <2>3. /\ transfers' \in [Slots -> Transfers \union {NULL}]
        /\ \A i \in Slots : transfers'[i] # NULL => transfers'[i][2] = i
        BY <2>2
  <2>4. usb' \in [Transfers -> UsbPlaces]
        BY DEF SetUp, UsbPlaces
  <2>5. cbThread' \in 0..MaxStarts /\ user' \in [Users -> UserPlaces] /\ fresh' \subseteq Users
    <3>1. CASE cb = TRUE
      <4>1. cbThread' = starts /\ user' = [user EXCEPT ![starts] = "check"]
            BY <3>1 DEF SetUp
      <4>2. fresh' \subseteq fresh \union {starts}
            BY <3>1 DEF SetUp
      <4>3. QED
            BY <2>1, <4>1, <4>2 DEF Users, UserPlaces
    <3>2. CASE cb = FALSE
          BY <3>2 DEF SetUp
    <3>3. QED
          BY <3>1, <3>2
  <2>6. userCb' \in BOOLEAN
        BY DEF SetUp
  <2>7. QED
        BY <2>1, <2>3, <2>4, <2>5, <2>6 DEF SetUp, AppPlaces
<1>3. CASE Submit
  <2>1. cursor' \in Slots /\ app' \in AppPlaces
        BY <1>3 DEF Submit, LastSlot, Slots, AppPlaces
  <2>2. usb' \in [Transfers -> UsbPlaces]
        BY <1>3 DEF Submit, UsbPlaces
  <2>3. QED
        BY <1>3, <2>1, <2>2 DEF Submit
<1>4. CASE StartRejected \/ SubmitFails
  <2>1. cursor' \in Slots
        BY <1>4 DEF StartRejected, SubmitFails, Slots
  <2>2. QED
        BY <1>4, <2>1 DEF StartRejected, SubmitFails, AppPlaces
<1>5. CASE OpenCtrl \/ CallStop \/ CallClose
      BY <1>5 DEF OpenCtrl, CallStop, CallClose, AppPlaces
<1>6. CASE StopRefused \/ StopBegins \/ StopLocks
  <2>1. cursor' \in Slots
        BY <1>6 DEF StopRefused, StopBegins, StopLocks, Slots
  <2>2. QED
        BY <1>6, <2>1 DEF StopRefused, StopBegins, StopLocks, AfterStop, AppPlaces
<1>7. CASE Cancel
      BY <1>7 DEF Cancel, LastSlot, Slots, AppPlaces
<1>8. CASE StopSleeps \/ StopWakes \/ StopDrained
      BY <1>8 DEF StopSleeps, StopWakes, StopDrained, Broadcast, AppPlaces
<1>9. CASE StopJoins \/ Free
      BY <1>9 DEF StopJoins, Free, AfterStop, AppPlaces
<1>10. QED
      BY <1>1, <1>2, <1>3, <1>4, <1>5, <1>6, <1>7, <1>8, <1>9 DEF StartStep, StopStep

\* The steps of the event thread.
LEMMA TypeEvent ==
    ASSUME TypeOK, (\E t \in Transfers : Complete(t)) \/ CallbackStep PROVE TypeOK'
<1> USE DEF TypeOK, ownVars, usbVars
<1>1. CASE \E t \in Transfers : Complete(t)
  <2> PICK t \in Transfers : Complete(t)
      BY <1>1
  <2>1. PICK s \in Outcomes(t) : event' = [at |-> "process", xfer |-> t, status |-> s]
        BY DEF Complete
  <2>2. s \in Status
        BY <2>1 DEF Outcomes, Status
  <2>3. event' \in [at : EventPlaces, xfer : Transfers \union {NULL}, status : Status]
        BY <2>1, <2>2 DEF EventPlaces
  <2>4. usb' \in [Transfers -> UsbPlaces] /\ cancelled' \subseteq Transfers
        BY DEF Complete, UsbPlaces
  <2>5. QED
        BY <2>1, <2>3, <2>4 DEF Complete
<1>2. CASE SwapBuffers
      BY <1>2 DEF SwapBuffers, Broadcast, EventPlaces
<1>3. CASE NoFrame \/ DeviceLost \/ Decide
  <2>1. CASE NoFrame
        BY <2>1 DEF NoFrame, EventPlaces
  <2>2. CASE DeviceLost
        BY <2>2 DEF DeviceLost, EventPlaces
  <2>3. CASE Decide
        BY <2>3 DEF Decide, EventPlaces
  <2>4. QED
        BY <1>3, <2>1, <2>2, <2>3
<1>4. CASE Resubmit \/ ResubmitFails
  <2>1. event' \in [at : EventPlaces, xfer : Transfers \union {NULL}, status : Status] /\ event'.at = "idle"
        BY <1>4 DEF Resubmit, ResubmitFails, NoEvent, EventPlaces, Status
  <2>2. usb' \in [Transfers -> UsbPlaces]
        BY <1>4 DEF Resubmit, ResubmitFails, UsbPlaces
  <2>3. QED
        BY <1>4, <2>1, <2>2 DEF Resubmit, ResubmitFails
<1>5. CASE DeleteTransfer
  <2>1. event' \in [at : EventPlaces, xfer : Transfers \union {NULL}, status : Status] /\ event'.at = "idle"
        BY <1>5 DEF DeleteTransfer, NoEvent, EventPlaces, Status
  <2>2. usb' \in [Transfers -> UsbPlaces]
        BY <1>5 DEF DeleteTransfer, UsbPlaces
  <2>3. /\ transfers' \in [Slots -> Transfers \union {NULL}]
        /\ \A i \in Slots : transfers'[i] # NULL => transfers'[i][2] = i
        BY <1>5 DEF DeleteTransfer, SlotsWithout
  <2>4. QED
        BY <1>5, <2>1, <2>2, <2>3 DEF DeleteTransfer, Broadcast
<1>6. QED
      BY <1>1, <1>2, <1>3, <1>4, <1>5 DEF CallbackStep

\* The steps of the user threads, the pollers and the environment.
LEMMA TypeOthers ==
    ASSUME TypeOK,
           \/ \E u \in Users : UserStep(u)
           \/ \E p \in Pollers : PollCalls(p) \/ PollStep(p)
           \/ \E w \in asleep : WakeUnasked(w)
           \/ Unplug
           \/ UNCHANGED vars
    PROVE  TypeOK'
<1> USE DEF TypeOK, ownVars, usbVars
<1>1. CASE \E u \in Users : UserStep(u)
      BY <1>1 DEF UserStep, UserSees, UserDelivers, UserPlaces
<1>2. CASE \E p \in Pollers : PollCalls(p) \/ PollStep(p)
      BY <1>2 DEF PollCalls, PollStep, PollLocks, PollWakes
<1>3. CASE \E w \in asleep : WakeUnasked(w)
      BY <1>3 DEF WakeUnasked
<1>4. CASE Unplug \/ UNCHANGED vars
      BY <1>4 DEF Unplug, vars
<1>5. QED
      BY <1>1, <1>2, <1>3, <1>4

\* The steps that do not touch the application thread's own variables.
LEMMA OthersLeaveApp ==
    ASSUME [Next]_vars, ~(OpenCtrl \/ CallStop \/ CallClose \/ StartStep \/ StopStep)
    PROVE  UNCHANGED ownVars
BY DEF Next, Complete, CallbackStep, SwapBuffers, NoFrame, DeviceLost, Decide, Resubmit,
   ResubmitFails, DeleteTransfer, UserStep, UserSees, UserDelivers, PollCalls, PollStep,
   PollLocks, PollWakes, WakeUnasked, Unplug, vars, ownVars

LEMMA TypeStep == TypeOK /\ Counted /\ [Next]_vars => TypeOK' /\ Counted'
<1> SUFFICES ASSUME TypeOK, Counted, [Next]_vars PROVE TypeOK' /\ Counted'
    OBVIOUS
<1>1. CASE OpenCtrl \/ CallStop \/ CallClose \/ StartStep \/ StopStep
  <2>1. TypeOK'
        BY <1>1, TypeApp
  <2>2. starts \in Nat
        BY DEF TypeOK
  <2>3. Counted'
        BY <1>1, <2>2 DEF Counted, OpenCtrl, CallStop, CallClose, StartStep, StopStep, Start,
           StartRejected, SetUp, Submit, SubmitFails, StopRefused, StopBegins, StopLocks, Cancel,
           StopSleeps, StopWakes, StopDrained, StopJoins, Free, AfterStop
  <2>4. QED
        BY <2>1, <2>3
<1>2. CASE ~(OpenCtrl \/ CallStop \/ CallClose \/ StartStep \/ StopStep)
  <2>1. Counted'
        BY <1>2, OthersLeaveApp DEF Counted, ownVars
  <2>2. TypeOK'
        BY <1>2, TypeEvent, TypeOthers DEF Next
  <2>3. QED
        BY <2>1, <2>2
<1>3. QED
      BY <1>1, <1>2

LEMMA CountedInit == Init => Counted
BY DEF Init, Counted

\* Every variable stays in its range, and a slot holds a transfer allocated for it.
THEOREM TypeCorrect == Spec => []TypeOK
<1>1. TypeOK /\ Counted => TypeOK
      OBVIOUS
<1>2. QED
      BY <1>1, TypeInit, CountedInit, TypeStep, PTL DEF Spec

------------------------------------------------------------------------------
(* With faults *)

LEMMA NullIsNoTransfer == NULL \notin Transfers
BY DEF Transfers, Slots

LEMMA TransferShape == /\ \A t \in Transfers : /\ t[1] \in 1..MaxStarts /\ t[2] \in Slots
                                               /\ t = <<t[1], t[2]>>
                       /\ \A k \in 1..MaxStarts, i \in Slots :
                            <<k, i>> \in Transfers /\ <<k, i>>[1] = k /\ <<k, i>>[2] = i
BY DEF Transfers

\* What a start does to the slots and the transfers.
LEMMA SetUpFacts ==
    ASSUME TypeOK, Counted, NEW cb \in BOOLEAN, SetUp(cb)
    PROVE  /\ starts \in 1..MaxStarts
           /\ \A i \in Slots : transfers'[i] = <<starts, i>> /\ usb'[<<starts, i>>] = "idle"
           /\ \A t \in Transfers : usb'[t] = IF t[1] = starts THEN "idle" ELSE usb[t]
<1>1. starts \in 1..MaxStarts
      BY DEF SetUp, Counted, TypeOK
<1>2. \A t \in Transfers : usb'[t] = IF t[1] = starts THEN "idle" ELSE usb[t]
      BY DEF SetUp
<1>3. \A i \in Slots : transfers'[i] = <<starts, i>>
      BY DEF SetUp
<1>4. QED
      BY <1>1, <1>2, <1>3, TransferShape

\* A submission makes the transfer of its slot fly.
LEMMA SubmitFacts ==
    ASSUME TypeOK, Counted, ToSubmit, Submit
    PROVE  /\ transfers[cursor] = <<starts, cursor>> /\ <<starts, cursor>> \in Transfers
           /\ usb[<<starts, cursor>>] = "idle" /\ usb'[<<starts, cursor>>] = "flying"
           /\ \A t \in Transfers : t # <<starts, cursor>> => usb'[t] = usb[t]
<1>1. cursor \in Slots /\ starts \in 1..MaxStarts /\ cursor >= cursor
      BY DEF Submit, Counted, TypeOK, Slots
<1>2. transfers[cursor] = <<starts, cursor>> /\ usb[<<starts, cursor>>] = "idle"
      BY <1>1 DEF ToSubmit, Submit
<1>3. usb' = [usb EXCEPT ![<<starts, cursor>>] = "flying"]
      BY <1>2 DEF Submit
<1>4. QED
      BY <1>1, <1>2, <1>3, TransferShape DEF TypeOK

\* The steps that touch slots or transfers.
LEMMA StepsOnTransfers ==
    ASSUME [Next]_vars
    PROVE  \/ \E cb \in BOOLEAN : SetUp(cb)
           \/ Submit
           \/ \E t \in Transfers : Complete(t)
           \/ Resubmit \/ ResubmitFails
           \/ DeleteTransfer
           \/ UNCHANGED <<transfers, usb>>
BY DEF Next, OpenCtrl, CallStop, CallClose, StartStep, Start, StartRejected, SubmitFails, StopStep,
   StopRefused, StopBegins, StopLocks, Cancel, StopSleeps, StopWakes, StopDrained, StopJoins, Free,
   CallbackStep, SwapBuffers, NoFrame, DeviceLost, Decide, UserStep, UserSees, UserDelivers,
   PollCalls, PollStep, PollLocks, PollWakes, WakeUnasked, Unplug, vars, usbVars

LEMMA DanglingStep ==
    ASSUME TypeOK, Counted, ToSubmit, NoDanglingSlot, [Next]_vars
    PROVE  NoDanglingSlot'
<1> SUFFICES ASSUME NEW i \in Slots, transfers'[i] # NULL
             PROVE  usb'[transfers'[i]] \in {"idle", "flying", "callback"}
    BY DEF NoDanglingSlot
<1>0. transfers[i] # NULL => /\ transfers[i] \in Transfers
                             /\ usb[transfers[i]] \in {"idle", "flying", "callback"}
      BY DEF NoDanglingSlot, TypeOK
<1>1. CASE \E cb \in BOOLEAN : SetUp(cb)
      BY <1>1, SetUpFacts
<1>2. CASE Submit
  <2>1. UNCHANGED transfers
        BY <1>2 DEF Submit
  <2>2. QED
        BY <1>0, <1>2, <2>1, SubmitFacts
<1>3. CASE \E t \in Transfers : Complete(t)
      BY <1>0, <1>3 DEF Complete, TypeOK
<1>4. CASE Resubmit \/ ResubmitFails
      BY <1>0, <1>4 DEF Resubmit, ResubmitFails, TypeOK
<1>5. CASE DeleteTransfer
  <2>1. transfers'[i] = transfers[i] /\ transfers[i] # event.xfer
        BY <1>5 DEF DeleteTransfer, SlotsWithout
  <2>2. usb'[transfers[i]] = usb[transfers[i]]
        BY <1>0, <1>5, <2>1 DEF DeleteTransfer, TypeOK
  <2>3. QED
        BY <1>0, <2>1, <2>2
<1>6. CASE UNCHANGED <<transfers, usb>>
      BY <1>0, <1>6
<1>7. QED
      BY <1>1, <1>2, <1>3, <1>4, <1>5, <1>6, StepsOnTransfers

LEMMA CallbackInvStep ==
    ASSUME TypeOK, Counted, ToSubmit, Unborn, InCallback, [Next]_vars
    PROVE  InCallback'
<1> SUFFICES ASSUME event'.at # "idle" PROVE usb'[event'.xfer] = "callback"
    BY DEF InCallback
<1>0. event.at # "idle" => event.xfer \in Transfers /\ usb[event.xfer] = "callback"
      BY DEF InCallback, TypeOK
<1>1. CASE \E cb \in BOOLEAN : SetUp(cb)
  <2>1. event' = event /\ app = "setup"
        BY <1>1 DEF SetUp
  <2>2. event.xfer[1] # starts
        BY <1>0, <2>1 DEF Unborn
  <2>3. QED
        BY <1>0, <1>1, <2>1, <2>2, SetUpFacts
<1>2. CASE Submit
      BY <1>0, <1>2, SubmitFacts DEF Submit
<1>3. CASE \E t \in Transfers : Complete(t)
      BY <1>3 DEF Complete, TypeOK
<1>4. CASE Resubmit \/ ResubmitFails \/ DeleteTransfer
      BY <1>4 DEF Resubmit, ResubmitFails, DeleteTransfer, NoEvent
<1>5. CASE UNCHANGED <<transfers, usb>>
  <2>1. event.at # "idle" /\ event'.xfer = event.xfer
        BY <1>5 DEF Next, OpenCtrl, CallStop, CallClose, StartStep, Start, StartRejected, SetUp,
           Submit, SubmitFails, StopStep, StopRefused, StopBegins, StopLocks, Cancel, StopSleeps,
           StopWakes, StopDrained, StopJoins, Free, Complete, CallbackStep, SwapBuffers, NoFrame,
           DeviceLost, Decide, Resubmit, ResubmitFails, DeleteTransfer, NoEvent, UserStep, UserSees,
           UserDelivers, PollCalls, PollStep, PollLocks, PollWakes, WakeUnasked, Unplug, vars,
           TypeOK, EventPlaces
  <2>2. QED
        BY <1>0, <1>5, <2>1
<1>6. QED
      BY <1>1, <1>2, <1>3, <1>4, <1>5, StepsOnTransfers

LEMMA ToSubmitStep ==
    ASSUME TypeOK, Counted, ToSubmit, Unborn, InCallback, [Next]_vars
    PROVE  ToSubmit'
<1> SUFFICES ASSUME app' = "submit", NEW i \in Slots, i >= cursor'
             PROVE  transfers'[i] = <<starts', i>> /\ usb'[<<starts', i>>] = "idle"
    BY DEF ToSubmit
<1>1. CASE \E cb \in BOOLEAN : SetUp(cb)
      BY <1>1, SetUpFacts DEF SetUp
<1>2. CASE Submit
  <2>1. /\ starts' = starts /\ transfers' = transfers /\ app = "submit"
        /\ i >= cursor + 1 /\ cursor \in Slots /\ starts \in 1..MaxStarts
        BY <1>2 DEF Submit, TypeOK, Counted
  <2>2. i >= cursor /\ i # cursor
        BY <2>1 DEF Slots
  <2>3. transfers[i] = <<starts, i>> /\ usb[<<starts, i>>] = "idle"
        BY <2>1, <2>2 DEF ToSubmit
  <2>4. <<starts, i>> # <<starts, cursor>> /\ <<starts, i>> \in Transfers
        BY <2>1, <2>2, TransferShape
  <2>5. QED
        BY <1>2, <2>1, <2>3, <2>4, SubmitFacts
<1>3. CASE ~Submit /\ ~\E cb \in BOOLEAN : SetUp(cb)
  <2>1. app = "submit" /\ starts' = starts /\ cursor' = cursor
        BY <1>3 DEF Next, OpenCtrl, CallStop, CallClose, StartStep, Start, StartRejected, SubmitFails,
           StopStep, StopRefused, StopBegins, StopLocks, Cancel, StopSleeps, StopWakes, StopDrained,
           StopJoins, Free, AfterStop, Complete, CallbackStep, SwapBuffers, NoFrame, DeviceLost,
           Decide, Resubmit, ResubmitFails, DeleteTransfer, UserStep, UserSees, UserDelivers,
           PollCalls, PollStep, PollLocks, PollWakes, WakeUnasked, Unplug, ownVars, vars
  <2>2. /\ transfers[i] = <<starts, i>> /\ usb[<<starts, i>>] = "idle"
        /\ <<starts, i>> \in Transfers
        BY <2>1, TransferShape DEF ToSubmit, TypeOK, Counted
  <2>3. event.at # "idle" => event.xfer # <<starts, i>>
        BY <2>2 DEF InCallback
  <2>4. CASE \E t \in Transfers : Complete(t)
        BY <2>1, <2>2, <2>4 DEF Complete, TypeOK
  <2>5. CASE Resubmit \/ ResubmitFails
        BY <2>1, <2>2, <2>3, <2>5 DEF Resubmit, ResubmitFails, TypeOK
  <2>6. CASE DeleteTransfer
        BY <2>1, <2>2, <2>3, <2>6 DEF DeleteTransfer, SlotsWithout, TypeOK
  <2>7. CASE UNCHANGED <<transfers, usb>>
        BY <2>1, <2>2, <2>7
  <2>8. QED
        BY <1>3, <2>4, <2>5, <2>6, <2>7, StepsOnTransfers
<1>4. QED
      BY <1>1, <1>2, <1>3

\* The steps of the user threads' places, and of the variables that say who they are.
LEMMA StepsOnUsers ==
    ASSUME TypeOK, [Next]_vars
    PROVE  \/ \E cb \in BOOLEAN : SetUp(cb)
           \/ /\ UNCHANGED <<userCb, cbThread>>
              /\ \A u \in Users : user[u] = "none" => user'[u] = "none"
              /\ \A u \in Users : Alive(u)' => Alive(u)
<1>1. CASE \E u \in Users : UserStep(u)
      BY <1>1 DEF UserStep, UserSees, UserDelivers, Alive, ownVars, TypeOK
<1>2. CASE \E cb \in BOOLEAN : SetUp(cb)
      BY <1>2
<1>3. CASE UNCHANGED <<userCb, cbThread, user>>
      BY <1>3 DEF Alive
<1>4. QED
      BY <1>1, <1>2, <1>3 DEF Next, OpenCtrl, CallStop, CallClose, StartStep, Start, StartRejected,
         Submit, SubmitFails, StopStep, StopRefused, StopBegins, StopLocks, Cancel, StopSleeps,
         StopWakes, StopDrained, StopJoins, Free, Complete, CallbackStep, SwapBuffers, NoFrame,
         DeviceLost, Decide, Resubmit, ResubmitFails, DeleteTransfer, PollCalls, PollStep,
         PollLocks, PollWakes, WakeUnasked, Unplug, ownVars, vars

\* A start counts itself before it sets up; nothing else counts.
LEMMA StepsOnStarts ==
    ASSUME TypeOK, [Next]_vars
    PROVE  \/ Start
           \/ starts' = starts /\ (app' = "setup" => app = "setup")
BY DEF Next, OpenCtrl, CallStop, CallClose, StartStep, StartRejected, SetUp, Submit, SubmitFails,
   StopStep, StopRefused, StopBegins, StopLocks, Cancel, StopSleeps, StopWakes, StopDrained,
   StopJoins, Free, AfterStop, Complete, CallbackStep, SwapBuffers, NoFrame, DeviceLost, Decide,
   Resubmit, ResubmitFails, DeleteTransfer, UserStep, UserSees, UserDelivers, PollCalls, PollStep,
   PollLocks, PollWakes, WakeUnasked, Unplug, ownVars, vars

LEMMA UnbornStep ==
    ASSUME TypeOK, Counted, ToSubmit, InCallback, Unborn, [Next]_vars
    PROVE  Unborn'
<1>0. starts \in Nat
      BY DEF TypeOK
<1>1. CASE Start
      BY <1>0, <1>1, TransferShape DEF Start, usbVars, Unborn, Users
<1>2. CASE \E cb \in BOOLEAN : SetUp(cb)
  <2> PICK cb \in BOOLEAN : SetUp(cb)
      BY <1>2
  <2>1. starts' = starts /\ app' = "submit"
        BY DEF SetUp
  <2>2. \A t \in Transfers : t[1] > starts => usb'[t] = usb[t]
        BY <1>0, SetUpFacts
  <2>3. \A u \in Users : u > starts => user'[u] = user[u]
        BY <1>0 DEF SetUp, TypeOK, Users
  <2>4. QED
        BY <2>1, <2>2, <2>3 DEF Unborn
<1>3. CASE ~Start /\ ~\E cb \in BOOLEAN : SetUp(cb)
  <2>1. starts' = starts /\ (app' = "setup" => app = "setup")
        BY <1>3, StepsOnStarts
  <2>2. \A u \in Users : user[u] = "none" => user'[u] = "none"
        BY <1>3, StepsOnUsers
  <2>3. \A t \in Transfers : usb[t] = "none" => usb'[t] = "none"
    <3>1. event.at # "idle" => event.xfer \in Transfers /\ usb[event.xfer] = "callback"
          BY DEF InCallback, TypeOK
    <3>2. CASE Submit
          BY <3>2, SubmitFacts
    <3>3. CASE \E t \in Transfers : Complete(t)
          BY <3>3 DEF Complete, TypeOK
    <3>4. CASE Resubmit \/ ResubmitFails \/ DeleteTransfer
          BY <3>1, <3>4 DEF Resubmit, ResubmitFails, DeleteTransfer, TypeOK
    <3>5. QED
          BY <1>3, <3>2, <3>3, <3>4, StepsOnTransfers
  <2>4. QED
        BY <2>1, <2>2, <2>3 DEF Unborn
<1>4. QED
      BY <1>1, <1>2, <1>3

\* A transfer in use stays in its slot unless the callback frees it, and none becomes in
\* use but by a submission from its slot or in its callback.
LEMMA SlotStep ==
    ASSUME TypeOK, Counted, ToSubmit, InCallback, [Next]_vars, ~\E cb \in BOOLEAN : SetUp(cb),
           NEW t \in Transfers, InUse(t) => SlotOf(t) = t, InUse(t)'
    PROVE  SlotOf(t)' = t
<1>0. event.at # "idle" => event.xfer \in Transfers /\ usb[event.xfer] = "callback"
      BY DEF InCallback, TypeOK
<1> USE DEF InUse, SlotOf
<1>1. CASE Submit
  <2>1. transfers' = transfers
        BY <1>1 DEF Submit
  <2>2. CASE t = <<starts, cursor>>
        BY <1>1, <2>1, <2>2, SubmitFacts
  <2>3. CASE t # <<starts, cursor>>
        BY <1>1, <2>1, <2>3, SubmitFacts
  <2>4. QED
        BY <2>2, <2>3
<1>2. CASE \E x \in Transfers : Complete(x)
  <2>1. transfers' = transfers /\ (usb'[t] = usb[t] \/ usb[t] = "flying")
        BY <1>2 DEF Complete, TypeOK
  <2>2. QED
        BY <2>1
<1>3. CASE Resubmit \/ ResubmitFails
  <2>1. transfers' = transfers /\ (usb'[t] = usb[t] \/ t = event.xfer)
        BY <1>3 DEF Resubmit, ResubmitFails, TypeOK
  <2>2. QED
        BY <1>0, <1>3, <2>1 DEF Resubmit, ResubmitFails
<1>4. CASE DeleteTransfer
  <2>1. usb'[t] \in {"flying", "callback"} => t # event.xfer /\ usb'[t] = usb[t]
        BY <1>0, <1>4 DEF DeleteTransfer, TypeOK
  <2>2. t[2] \in Slots
        BY TransferShape
  <2>3. QED
        BY <1>4, <2>1, <2>2 DEF DeleteTransfer, SlotsWithout
<1>5. CASE UNCHANGED <<transfers, usb>>
      BY <1>5
<1>6. QED
      BY <1>1, <1>2, <1>3, <1>4, <1>5, StepsOnTransfers

LEMMA LastHeldStep ==
    ASSUME TypeOK, Counted, ToSubmit, InCallback, Unborn, LastHeld, [Next]_vars
    PROVE  LastHeld'
<1>0. starts \in Nat
      BY DEF TypeOK
<1>1. CASE Start
  <2>1. UNCHANGED <<usb, user>> /\ starts' = starts + 1
        BY <1>1 DEF Start, usbVars
  <2>2. /\ \A t \in Transfers : t[1] = starts' => ~InUse(t)'
        /\ \A u \in Users : u = starts' => ~Alive(u)'
        BY <1>0, <2>1 DEF Unborn, InUse, Alive
  <2>3. QED
        BY <2>2 DEF LastHeld
<1>2. CASE \E cb \in BOOLEAN : SetUp(cb)
  <2> PICK cb \in BOOLEAN : SetUp(cb)
      BY <1>2
  <2>1. \A t \in Transfers : t[1] = starts => ~InUse(t)'
        BY SetUpFacts DEF InUse
  <2>2. starts' = starts
        BY DEF SetUp
  <2>3. ASSUME NEW u \in Users, u = starts, Alive(u)' PROVE userCb' /\ cbThread' = u
    <3>1. user[u] = "none"
          BY <2>3 DEF SetUp, Unborn
    <3>2. CASE cb = FALSE
          BY <2>3, <3>1, <3>2 DEF SetUp, Alive
    <3>3. CASE cb = TRUE
          BY <2>3, <3>3 DEF SetUp
    <3>4. QED
          BY <3>2, <3>3
  <2>4. QED
        BY <2>1, <2>2, <2>3 DEF LastHeld
<1>3. CASE ~Start /\ ~\E cb \in BOOLEAN : SetUp(cb)
  <2>1. starts' = starts
        BY <1>3, StepsOnStarts
  <2>2. ASSUME NEW t \in Transfers, t[1] = starts, InUse(t)' PROVE SlotOf(t)' = t
        BY <1>3, <2>2, SlotStep DEF LastHeld
  <2>3. ASSUME NEW u \in Users, u = starts, Alive(u)' PROVE userCb' /\ cbThread' = u
        BY <1>3, <2>3, StepsOnUsers DEF LastHeld
  <2>4. QED
        BY <2>1, <2>2, <2>3 DEF LastHeld
<1>4. QED
      BY <1>1, <1>2, <1>3

LEMMA DrainedStep ==
    ASSUME TypeOK, Drained, [Next]_vars
    PROVE  Drained'
<1> SUFFICES ASSUME app' = "join" PROVE AllSlotsEmpty'
    BY DEF Drained
<1>1. CASE StopDrained
      BY <1>1 DEF StopDrained, AllSlotsEmpty
<1>2. CASE ~StopDrained
  <2>1. app = "join"
        BY <1>2 DEF Next, OpenCtrl, CallStop, CallClose, StartStep, Start, StartRejected, SetUp, Submit,
           SubmitFails, StopStep, StopRefused, StopBegins, StopLocks, Cancel, StopSleeps, StopWakes,
           StopJoins, Free, AfterStop, Complete, CallbackStep, SwapBuffers, NoFrame, DeviceLost,
           Decide, Resubmit, ResubmitFails, DeleteTransfer, UserStep, UserSees, UserDelivers,
           PollCalls, PollStep, PollLocks, PollWakes, WakeUnasked, Unplug, ownVars, vars
  <2>2. AllSlotsEmpty
        BY <2>1 DEF Drained
  <2>3. CASE DeleteTransfer
        BY <2>2, <2>3 DEF DeleteTransfer, SlotsWithout, AllSlotsEmpty
  <2>4. CASE UNCHANGED transfers
        BY <2>2, <2>4 DEF AllSlotsEmpty
  <2>5. QED
        BY <2>1, <2>3, <2>4, StepsOnTransfers DEF SetUp, Submit, Complete, Resubmit, ResubmitFails
<1>3. QED
      BY <1>1, <1>2

LEMMA InvInit == Init => IInv
<1> SUFFICES ASSUME Init PROVE IInv
    OBVIOUS
<1>1. TypeOK /\ Counted
      BY TypeInit, CountedInit
<1>2. NoDanglingSlot /\ InCallback /\ ToSubmit /\ Drained
      BY DEF Init, NoEvent, NoDanglingSlot, InCallback, ToSubmit, Drained
<1>3. Unborn /\ LastHeld
      BY DEF Init, Unborn, LastHeld, InUse, Alive
<1>4. QED
      BY <1>1, <1>2, <1>3 DEF IInv

LEMMA InvStep == IInv /\ [Next]_vars => IInv'
BY TypeStep, DanglingStep, CallbackInvStep, ToSubmitStep, UnbornStep, LastHeldStep, DrainedStep
   DEF IInv

\* A slot never points to a freed transfer, whatever is refused, pulled or restarted.
THEOREM SlotsNeverDangle == Spec => []NoDanglingSlot
<1>1. IInv => NoDanglingSlot
      BY DEF IInv
<1>2. QED
      BY <1>1, InvInit, InvStep, PTL DEF Spec

\* A stop that succeeds leaves nothing of the last start behind, whatever is refused, pulled
\* or left over from an earlier start.
THEOREM StopEndsLastStart == Spec => StopReturnsQuiet
<1> DEFINE Ended == /\ \A t \in Transfers : t[1] = starts => ~InUse(t)'
                    /\ \A u \in Users : u = starts => ~Alive(u)'
<1>1. IInv /\ [Next]_vars => [app = "join" /\ app' # "join" => Ended]_vars
  <2> SUFFICES ASSUME IInv, [Next]_vars, app = "join", app' # "join" PROVE Ended
      OBVIOUS
  <2>1. StopJoins
        BY DEF Next, OpenCtrl, CallStop, CallClose, StartStep, Start, StartRejected, SetUp, Submit,
           SubmitFails, StopStep, StopRefused, StopBegins, StopLocks, Cancel, StopSleeps, StopWakes,
           StopDrained, Free, AfterStop, Complete, CallbackStep, SwapBuffers, NoFrame, DeviceLost,
           Decide, Resubmit, ResubmitFails, DeleteTransfer, UserStep, UserSees, UserDelivers,
           PollCalls, PollStep, PollLocks, PollWakes, WakeUnasked, Unplug, ownVars, vars
  <2>2. UNCHANGED <<usb, user>> /\ Joinable
        BY <2>1 DEF StopJoins, usbVars
  <2>3. ASSUME NEW t \in Transfers, t[1] = starts PROVE ~InUse(t)'
    <3>1. t[2] \in Slots /\ t # NULL
          BY TransferShape, NullIsNoTransfer
    <3>2. SlotOf(t) # t
          BY <3>1 DEF IInv, Drained, AllSlotsEmpty, SlotOf
    <3>3. QED
          BY <2>2, <2>3, <3>2 DEF IInv, LastHeld, InUse
  <2>4. ASSUME NEW u \in Users, u = starts PROVE ~Alive(u)'
        BY <2>2, <2>4 DEF IInv, LastHeld, Joinable, Alive
  <2>5. QED
        BY <2>3, <2>4
<1>2. QED
      BY <1>1, InvInit, InvStep, PTL DEF Spec, StopReturnsQuiet

------------------------------------------------------------------------------
(* Without faults *)

LEMMA CleanInit == Init => CleanInv
<1> SUFFICES ASSUME Init PROVE CleanInv
    OBVIOUS
<1>1. IInv
      BY InvInit
<1>2. Reliable
      BY DEF Init, NoEvent, Reliable
<1>3. AllHeld /\ Still
      BY DEF Init, AllHeld, Still, Quiet, InUse, Alive, AllSlotsEmpty
<1>4. Rested
      BY <1>3 DEF Init, Rested
<1>5. QED
      BY <1>1, <1>2, <1>3, <1>4 DEF CleanInv

LEMMA ReliableStep ==
    ASSUME Faults = {}, TypeOK, Reliable, [Next]_vars
    PROVE  Reliable'
<1>1. CASE \E t \in Transfers : Complete(t)
  <2> PICK t \in Transfers : Complete(t)
      BY <1>1
  <2>1. PICK st \in Outcomes(t) : event' = [at |-> "process", xfer |-> t, status |-> st]
        BY DEF Complete
  <2>2. st # "NO_DEVICE"
        BY <2>1 DEF Outcomes, Reliable
  <2>3. QED
        BY <2>1, <2>2 DEF Complete, Reliable
<1>2. CASE CallbackStep
  <2>1. attached' = attached
        BY <1>2 DEF CallbackStep, SwapBuffers, NoFrame, DeviceLost, Decide, Resubmit, ResubmitFails,
           DeleteTransfer, usbVars
  <2>2. event' = NoEvent \/ \E place \in EventPlaces : event' = [event EXCEPT !.at = place]
        BY <1>2 DEF CallbackStep, SwapBuffers, NoFrame, DeviceLost, Decide, Resubmit, ResubmitFails,
           DeleteTransfer, EventPlaces
  <2>3. event \in [at : EventPlaces, xfer : Transfers \union {NULL}, status : Status]
        BY DEF TypeOK
  <2>4. event'.status \in {event.status, "COMPLETED"}
        BY <2>2, <2>3 DEF NoEvent
  <2>5. QED
        BY <2>1, <2>4 DEF Reliable
<1>3. CASE UNCHANGED <<attached, event>>
      BY <1>3 DEF Reliable
<1>4. QED
      BY <1>1, <1>2, <1>3 DEF Next, OpenCtrl, CallStop, CallClose, StartStep, Start, StartRejected,
         SetUp, Submit, SubmitFails, StopStep, StopRefused, StopBegins, StopLocks, Cancel, StopSleeps,
         StopWakes, StopDrained, StopJoins, Free, UserStep, UserSees, UserDelivers, PollCalls,
         PollStep, PollLocks, PollWakes, WakeUnasked, Unplug, usbVars, vars

LEMMA AllHeldStep ==
    ASSUME IInv, AllHeld, Rested, [Next]_vars
    PROVE  AllHeld'
<1>1. CASE \E cb \in BOOLEAN : SetUp(cb)
  <2> PICK cb \in BOOLEAN : SetUp(cb)
      BY <1>1
  <2>1. Quiet
        BY DEF SetUp, Rested, Still
  <2>2. \A t \in Transfers : ~InUse(t)'
        BY <2>1, SetUpFacts DEF IInv, Quiet, InUse
  <2>3. ASSUME NEW u \in Users, Alive(u)' PROVE userCb' /\ cbThread' = u
    <3>1. ~Alive(u)
          BY <2>1 DEF Quiet
    <3>2. CASE cb = FALSE
          BY <2>3, <3>1, <3>2 DEF SetUp, Alive
    <3>3. CASE cb = TRUE
          BY <2>3, <3>1, <3>3 DEF SetUp, Alive, IInv, TypeOK
    <3>4. QED
          BY <3>2, <3>3
  <2>4. QED
        BY <2>2, <2>3 DEF AllHeld
<1>2. CASE ~\E cb \in BOOLEAN : SetUp(cb)
  <2>1. ASSUME NEW t \in Transfers, InUse(t)' PROVE SlotOf(t)' = t
        BY <1>2, <2>1, SlotStep DEF AllHeld, IInv
  <2>2. ASSUME NEW u \in Users, Alive(u)' PROVE userCb' /\ cbThread' = u
        BY <1>2, <2>2, StepsOnUsers DEF AllHeld, IInv
  <2>3. QED
        BY <2>1, <2>2 DEF AllHeld
<1>3. QED
      BY <1>1, <1>2

\* Where nothing is in use, only a start can change that.
LEMMA StillStep ==
    ASSUME IInv, Still, [Next]_vars, ~Submit, ~\E cb \in BOOLEAN : SetUp(cb)
    PROVE  Still'
<1>1. event.at = "idle"
      BY DEF Still, Quiet, InUse, IInv, InCallback, TypeOK
<1>2. UNCHANGED <<transfers, usb>>
      BY <1>1, StepsOnTransfers DEF Resubmit, ResubmitFails, DeleteTransfer, Complete, Still, Quiet, InUse
<1>3. \A u \in Users : Alive(u)' => Alive(u)
      BY StepsOnUsers DEF IInv
<1>4. QED
      BY <1>2, <1>3 DEF Still, Quiet, InUse, AllSlotsEmpty

\* When the join returns, nothing is in use.
LEMMA JoinedIsStill ==
    ASSUME IInv, AllHeld, StopJoins
    PROVE  Still
<1>1. AllSlotsEmpty
      BY DEF IInv, Drained, StopJoins
<1>2. ASSUME NEW t \in Transfers PROVE ~InUse(t)
      BY <1>1, TransferShape, NullIsNoTransfer DEF AllHeld, SlotOf, AllSlotsEmpty
<1>3. ASSUME NEW u \in Users PROVE ~Alive(u)
      BY DEF AllHeld, StopJoins, Joinable
<1>4. QED
      BY <1>1, <1>2, <1>3 DEF Still, Quiet

LEMMA RestedStep ==
    ASSUME Faults = {}, IInv, Reliable, AllHeld, Rested, [Next]_vars
    PROVE  Rested'
<1> USE DEF Rested
<1>1. CASE \E cb \in BOOLEAN : SetUp(cb)
      BY <1>1 DEF SetUp
<1>2. CASE Submit
      BY <1>2 DEF Submit
<1>3. CASE ~Submit /\ ~\E cb \in BOOLEAN : SetUp(cb)
  <2>1. Still => Still'
        BY <1>3, StillStep
  <2>2. CASE StopJoins
        BY <2>1, <2>2, JoinedIsStill DEF StopJoins, AfterStop
  <2>3. CASE SubmitFails \/ DeviceLost \/ ResubmitFails
        BY <2>3 DEF SubmitFails, DeviceLost, ResubmitFails, SubmitRefused, Reliable
  <2>4. CASE Start \/ StartRejected \/ OpenCtrl \/ CallStop \/ CallClose
        BY <2>1, <2>4 DEF Start, StartRejected, OpenCtrl, CallStop, CallClose
  <2>5. CASE StopRefused \/ StopBegins \/ StopLocks \/ Cancel \/ StopSleeps \/ StopWakes
             \/ StopDrained \/ Free
        BY <2>1, <2>5 DEF StopRefused, StopBegins, StopLocks, Cancel, StopSleeps, StopWakes,
           StopDrained, Free, AfterStop
  <2>6. CASE UNCHANGED <<app, running, handle>>
        BY <2>1, <2>6
  <2>7. QED
        BY <1>3, <2>2, <2>3, <2>4, <2>5, <2>6 DEF Next, StartStep, StopStep, Complete, CallbackStep,
           SwapBuffers, NoFrame, Decide, Resubmit, DeleteTransfer, UserStep, UserSees, UserDelivers,
           PollCalls, PollStep, PollLocks, PollWakes, WakeUnasked, Unplug, ownVars, vars
<1>4. QED
      BY <1>1, <1>2, <1>3

\* When no cable is pulled, no submission refused and nobody polls, the handle is freed only
\* when no callback and no thread can use it any more.
THEOREM CloseIsSafe ==
    ASSUME Faults = {}, NumPollers = 0
    PROVE  Spec => []ClosedIsQuiet
<1>1. CleanInv /\ [Next]_vars => CleanInv'
      BY InvStep, ReliableStep, AllHeldStep, RestedStep DEF CleanInv, IInv
<1>2. CleanInv => ClosedIsQuiet
  <2>1. Pollers = {}
        BY DEF Pollers
  <2>2. QED
        BY <2>1 DEF CleanInv, Rested, Still, ClosedIsQuiet
<1>3. QED
      BY <1>1, <1>2, CleanInit, PTL DEF Spec

------------------------------------------------------------------------------
(* StreamLifecycle implements StreamService *)

\* Where the application may be while there is no open handle, or a stop is under way.
Placed == /\ handle = "none" => app = "idle" /\ ~running
          /\ handle = "freed" => app = "done"
          /\ app = "done" => handle = "freed" /\ ~running
          /\ app = "free" => ~running
          /\ Stopping => ~running

MapInv == CleanInv /\ Placed

LEMMA PlacedStep ==
    ASSUME Faults = {}, MapInv, [Next]_vars
    PROVE  Placed'
<1> USE DEF Placed, Stopping
<1>1. CASE OpenCtrl \/ CallStop \/ CallClose
      BY <1>1 DEF OpenCtrl, CallStop, CallClose, MapInv
<1>2. CASE StartStep
      BY <1>2 DEF StartStep, Start, StartRejected, SetUp, Submit, SubmitFails, MapInv
<1>3. CASE StopStep
      BY <1>3 DEF StopStep, StopRefused, StopBegins, StopLocks, Cancel, StopSleeps, StopWakes,
         StopDrained, StopJoins, Free, AfterStop, MapInv
<1>4. CASE DeviceLost
      BY <1>4 DEF DeviceLost, MapInv, CleanInv, Reliable
<1>5. CASE UNCHANGED <<handle, app, running>>
      BY <1>5 DEF MapInv
<1>6. QED
      BY <1>1, <1>2, <1>3, <1>4, <1>5 DEF Next, Complete, CallbackStep, SwapBuffers, NoFrame, Decide,
         Resubmit, ResubmitFails, DeleteTransfer, UserStep, UserSees, UserDelivers, PollCalls,
         PollStep, PollLocks, PollWakes, WakeUnasked, Unplug, ownVars, vars

LEMMA MapInvStep == ASSUME Faults = {}, MapInv, [Next]_vars PROVE MapInv'
BY InvStep, ReliableStep, AllHeldStep, RestedStep, PlacedStep DEF MapInv, CleanInv, IInv

LEMMA MapInvInit == Init => MapInv
BY CleanInit DEF Init, MapInv, Placed, Stopping

------------------------------------------------------------------------------
(* What a step does to the two abstract variables *)

\* An activity is a transfer in use or a user thread alive.
LEMMA ActiveMeans ==
    /\ Active \subseteq (1..MaxStarts) \X (0..NumTransfers)
    /\ Active' \subseteq (1..MaxStarts) \X (0..NumTransfers)
    /\ Still => Active = {}
<1>1. NumTransfers \in 0..NumTransfers
      OBVIOUS
<1>2. Transfers \subseteq (1..MaxStarts) \X (0..NumTransfers)
      BY DEF Transfers, Slots
<1>3. Users \X {NumTransfers} \subseteq (1..MaxStarts) \X (0..NumTransfers)
      BY <1>1 DEF Users
<1>4. QED
      BY <1>2, <1>3 DEF Active, Still, Quiet

LEMMA ActiveSame ==
    ASSUME \A t \in Transfers : InUse(t)' <=> InUse(t), \A u \in Users : Alive(u)' <=> Alive(u)
    PROVE  Active' = Active
BY DEF Active

\* Most steps leave both alone.
LEMMA SessionSame ==
    ASSUME UNCHANGED <<handle, running>>, Stopping' <=> Stopping
    PROVE  Session' = Session
BY DEF Session

\* The session, told from the concrete state.
LEMMA SessionIs ==
    ASSUME TypeOK
    PROVE  /\ handle = "none" => Session = "none"
           /\ handle = "freed" => Session = "closed"
           /\ handle = "open" /\ Stopping => Session = "stopping"
           /\ handle = "open" /\ ~Stopping /\ running => Session = "streaming"
           /\ handle = "open" /\ ~Stopping /\ ~running => Session = "open"
BY DEF Session, TypeOK

\* Steps of the application thread.
LEMMA AppSimulates ==
    ASSUME Faults = {}, MapInv, MapInv',
           OpenCtrl \/ CallStop \/ CallClose \/ StartStep \/ StopStep
    PROVE  [Service!ServiceNext]_(Service!sVars)
<1>0. TypeOK /\ TypeOK' /\ Counted /\ Placed /\ Placed' /\ Rested /\ Rested'
      BY DEF MapInv, CleanInv, IInv
<1>1. ASSUME UNCHANGED <<usb, user>> PROVE Active' = Active
      BY <1>1, ActiveSame DEF InUse, Alive
<1>2. Still => Active = {}
      BY ActiveMeans
<1> USE DEF Service!ServiceNext, Service!sVars, Stopping
<1>3. CASE OpenCtrl
  <2>1. Session = "none" /\ Session' = "open" /\ Active' = Active
        BY <1>0, <1>1, <1>3, SessionIs DEF OpenCtrl, usbVars, Placed, Session
  <2>2. QED
        BY <2>1 DEF Service!Open
<1>4. CASE CallStop \/ CallClose \/ StopRefused \/ StopLocks \/ Cancel \/ StopSleeps \/ StopWakes
           \/ StopDrained
  <2>1. Active' = Active
        BY <1>1, <1>4 DEF CallStop, CallClose, StopRefused, StopLocks, Cancel, StopSleeps, StopWakes,
           StopDrained, usbVars
  <2>2. UNCHANGED <<handle, running>> /\ (Stopping' <=> Stopping)
        BY <1>4 DEF CallStop, CallClose, StopRefused, StopLocks, Cancel, StopSleeps, StopWakes,
           StopDrained, AfterStop
  <2>3. QED
        BY <2>1, <2>2, SessionSame
<1>5. CASE Start
  <2>1. Session = "open" /\ Session' = "streaming" /\ Active' = Active /\ Active = {}
        BY <1>0, <1>1, <1>2, <1>5 DEF Start, Session, usbVars, Rested
  <2>2. QED
        BY <2>1 DEF Service!Start
<1>6. CASE StartRejected
  <2>1. Active' = Active /\ Active = {} /\ handle' = handle /\ ~Stopping /\ ~Stopping'
        BY <1>0, <1>1, <1>2, <1>6 DEF StartRejected, usbVars, Rested
  <2>2. handle = "open" /\ running /\ ~running'
        BY <1>0, <1>6 DEF StartRejected, Rested, Placed, TypeOK
  <2>3. Session = "streaming" /\ Session' = "open"
        BY <2>1, <2>2 DEF Session
  <2>4. QED
        BY <2>1, <2>3 DEF Service!StartFails
<1>7. CASE StopBegins
  <2>1. Active' = Active /\ handle' = handle /\ handle = "open"
        BY <1>0, <1>1, <1>7 DEF StopBegins, usbVars, Placed, TypeOK
  <2>2. Session = "streaming" /\ Session' = "stopping"
        BY <1>7, <2>1 DEF StopBegins, Session
  <2>3. QED
        BY <2>1, <2>2 DEF Service!Stop
<1>8. CASE StopJoins
  <2>1. Active' = Active /\ Active = {}
        BY <1>1, <1>2, <1>8, JoinedIsStill DEF StopJoins, usbVars, MapInv, CleanInv
  <2>2. handle' = handle /\ handle = "open" /\ ~running /\ ~running' /\ Stopping /\ ~Stopping'
        BY <1>0, <1>8 DEF StopJoins, AfterStop, Placed, TypeOK
  <2>3. Session = "stopping" /\ Session' = "open"
        BY <2>2 DEF Session
  <2>4. QED
        BY <2>1, <2>3 DEF Service!Stopped
<1>9. CASE Free
  <2>1. Active' = Active /\ Active = {}
        BY <1>0, <1>1, <1>2, <1>9 DEF Free, usbVars, Rested
  <2>2. handle' = "freed" /\ handle = "open" /\ ~running /\ ~Stopping
        BY <1>0, <1>9 DEF Free, Placed, TypeOK
  <2>3. Session = "open" /\ Session' = "closed"
        BY <2>2 DEF Session
  <2>4. QED
        BY <2>1, <2>3 DEF Service!Close
<1>10. CASE SubmitFails
       BY <1>10 DEF SubmitFails, SubmitRefused, MapInv, CleanInv, Reliable
<1>11. CASE (\E cb \in BOOLEAN : SetUp(cb)) \/ Submit
  <2>1. UNCHANGED <<handle, running>> /\ handle = "open" /\ running /\ ~Stopping /\ ~Stopping'
        BY <1>0, <1>11 DEF SetUp, Submit, Rested, Placed, TypeOK
  <2>2. Session = "streaming" /\ Session' = "streaming"
        BY <2>1 DEF Session
  <2>3. Active \subseteq Active'
    <3>1. CASE Submit
      <4>1. \A t \in Transfers : InUse(t) => InUse(t)'
            BY <1>0, <3>1, SubmitFacts DEF InUse, MapInv, CleanInv, IInv
      <4>2. user' = user
            BY <3>1 DEF Submit
      <4>3. QED
            BY <4>1, <4>2 DEF Active, Alive
    <3>2. CASE \E cb \in BOOLEAN : SetUp(cb)
          BY <1>0, <1>2, <3>2 DEF SetUp, Rested
    <3>3. QED
          BY <1>11, <3>1, <3>2
  <2>4. Active' \subseteq (1..MaxStarts) \X (0..NumTransfers)
        BY ActiveMeans
  <2>5. Active' = Active \union Active'
        BY <2>3
  <2>6. QED
        BY <2>2, <2>4, <2>5 DEF Service!Begin
<1>12. QED
       BY <1>3, <1>4, <1>5, <1>6, <1>7, <1>8, <1>9, <1>10, <1>11 DEF StartStep, StopStep

\* Steps of every other thread: at most one activity ends.
LEMMA OthersSimulate ==
    ASSUME Faults = {}, MapInv, [Next]_vars,
           ~(OpenCtrl \/ CallStop \/ CallClose \/ StartStep \/ StopStep)
    PROVE  [Service!ServiceNext]_(Service!sVars)
<1>0. TypeOK /\ InCallback /\ Reliable
      BY DEF MapInv, CleanInv, IInv
<1>1. event.at # "idle" => event.xfer \in Transfers /\ usb[event.xfer] = "callback"
      BY <1>0 DEF InCallback, TypeOK
<1>2. Session' = Session
  <2>1. UNCHANGED <<handle, app>>
        BY OthersLeaveApp DEF ownVars
  <2>2. running' = running
        BY <1>0 DEF Next, StartStep, StopStep, Complete, CallbackStep, SwapBuffers, NoFrame,
           DeviceLost, Decide, Resubmit, ResubmitFails, DeleteTransfer, UserStep, UserSees,
           UserDelivers, PollCalls, PollStep, PollLocks, PollWakes, WakeUnasked, Unplug, vars, Reliable
  <2>3. QED
        BY <2>1, <2>2, SessionSame DEF Stopping
<1>3. CASE \E t \in Transfers : Complete(t)
  <2>1. /\ \A t \in Transfers : InUse(t)' <=> InUse(t)
        /\ \A u \in Users : Alive(u)' <=> Alive(u)
        BY <1>0, <1>3 DEF Complete, InUse, Alive, TypeOK
  <2>2. QED
        BY <1>2, <2>1, ActiveSame DEF Service!sVars
<1>4. CASE Resubmit
  <2>1. /\ \A t \in Transfers : InUse(t)' <=> InUse(t)
        /\ \A u \in Users : Alive(u)' <=> Alive(u)
        BY <1>0, <1>1, <1>4 DEF Resubmit, InUse, Alive, TypeOK
  <2>2. QED
        BY <1>2, <2>1, ActiveSame DEF Service!sVars
<1>5. CASE DeleteTransfer
  <2> PICK x \in Transfers : x = event.xfer
      BY <1>1, <1>5 DEF DeleteTransfer
  <2>1. /\ usb' = [usb EXCEPT ![x] = "freed"] \/ usb' = [usb EXCEPT ![x] = "idle"]
        /\ user' = user /\ usb[x] = "callback"
        BY <1>1, <1>5 DEF DeleteTransfer
  <2>2. InUse(x) /\ ~InUse(x)'
        BY <1>0, <2>1 DEF InUse, TypeOK
  <2>3. \A t \in Transfers : t # x => (InUse(t)' <=> InUse(t))
        BY <1>0, <2>1 DEF InUse, TypeOK
  <2>4. x \notin Users \X {NumTransfers}
        BY TransferShape DEF Slots
  <2>5. x \in Active /\ Active' = Active \ {x}
        BY <2>1, <2>2, <2>3, <2>4 DEF Active, Alive
  <2>6. QED
        BY <1>2, <2>5 DEF Service!ServiceNext, Service!End, Service!sVars
<1>6. CASE \E u \in Users : UserStep(u)
  <2> PICK u \in Users : UserStep(u)
      BY <1>6
  <2>1. /\ \A t \in Transfers : InUse(t)' <=> InUse(t)
        /\ \A v \in Users : v # u => (Alive(v)' <=> Alive(v))
        /\ Alive(u)
        BY <1>0 DEF UserStep, UserSees, UserDelivers, InUse, Alive, TypeOK, usbVars
  <2>2. CASE Alive(u)'
        BY <1>2, <2>1, <2>2, ActiveSame DEF Service!sVars
  <2>3. CASE ~Alive(u)'
    <3>1. <<u, NumTransfers>> \notin Transfers
          BY TransferShape DEF Slots
    <3>2. <<u, NumTransfers>> \in Active /\ Active' = Active \ {<<u, NumTransfers>>}
          BY <2>1, <2>3, <3>1 DEF Active
    <3>3. QED
          BY <1>2, <3>2 DEF Service!ServiceNext, Service!End, Service!sVars
  <2>4. QED
        BY <2>2, <2>3
<1>7. CASE UNCHANGED <<usb, user>>
      BY <1>2, <1>7, ActiveSame DEF Service!sVars, InUse, Alive
<1>8. QED
      BY <1>0, <1>3, <1>4, <1>5, <1>6, <1>7 DEF Next, StartStep, StopStep, CallbackStep, SwapBuffers, NoFrame,
         DeviceLost, Decide, ResubmitFails, SubmitRefused, Reliable, PollCalls, PollStep, PollLocks,
         PollWakes, WakeUnasked, Unplug, usbVars, vars

\* The stream handle keeps the promise of StreamService.
THEOREM StreamImplementsService ==
    ASSUME Faults = {}
    PROVE  Spec => KeepsPromise
<1>1. Init => Service!ServiceInit
  <2> SUFFICES ASSUME Init PROVE Session = "none" /\ Active = {}
      BY DEF Service!ServiceInit
  <2>1. Still
        BY DEF Init, Still, Quiet, InUse, Alive, AllSlotsEmpty
  <2>2. QED
        BY <2>1, ActiveMeans DEF Init, Session
<1>2. MapInv /\ [Next]_vars => MapInv' /\ [Service!ServiceNext]_(Service!sVars)
      BY MapInvStep, AppSimulates, OthersSimulate
<1>3. QED
      BY <1>1, <1>2, MapInvInit, PTL DEF Spec, KeepsPromise, Service!StreamPromise
=============================================================================
