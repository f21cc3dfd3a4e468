--------------------------- MODULE EventLoop_proofs ---------------------------
(***************************************************************************)
(* Proofs about EventLoop, for any set of cameras and of threads and any   *)
(* number of openings and control transfers.                               *)
(*                                                                         *)
(* The argument.  A thread has the events lock exactly at the places where *)
(* the code is between taking and releasing it, the main thread when its   *)
(* chore is (Locks), and pollfd_modify and the control pipe follow from    *)
(* how far the chore is (Chores).  So no thread is in poll() when the main *)
(* thread, with the lock, changes what is polled; and who polls after that *)
(* has copied the new set (Polled).  A sleeper is on the condition         *)
(* variable only at one place of the loop (Asleep).                        *)
(***************************************************************************)
EXTENDS EventLoop, TLAPS

Holding == {"locked", "poll", "reap", "tell", "unlock"}

HasLock(t) == at[t] \in Holding \/ (t = Main /\ chore.step \in {"remove", "settle", "unlock"})

\* Who is at a place with the lock has it, and nobody else.
Locks == \A t \in Threads : HasLock(t) <=> lock = t

\* The main thread does one chore at a time, outside the loop; the counter and the pipe are
\* those of the chore.
Chores ==
    /\ chore.kind = "none" <=> chore.step = "none"
    /\ chore.kind = "none" <=> chore.dev = Nobody
    /\ chore.kind # "none" => at[Main] = "idle"
    /\ modify = IF chore.step \in {"lock", "remove", "settle"} THEN 1 ELSE 0
    /\ pipe = IF chore.step = "lock" THEN 1 ELSE 0
    /\ chore.kind \in {"open", "abandon"} => chore.dev \notin cameras
    /\ chore.step = "append" => chore.kind = "open"
    /\ chore.step = "remove" => chore.kind # "open"

Asleep == \A t \in asleep : at[t] = "wait"

\* The descriptors of open cameras, and of the one being opened, are to be polled; after the
\* interruption whoever polls polls the latter too.
Polled ==
    /\ cameras \ {chore.dev} \subseteq pollfds
    /\ chore.kind = "open" =>
         /\ chore.dev \in pollfds
         /\ chore.step \notin {"append", "interrupt", "lock"} =>
              \A t \in Threads : at[t] = "poll" => chore.dev \in watched[t]

\* The event thread is there only for open cameras.
Spawned == cameras = {} => at[Handler] \in {"none", "exited"}

\* The inductive invariant.
IInv == /\ TypeOK /\ Locks /\ Chores /\ Asleep /\ Polled /\ Spawned
        /\ NoLostWakeup /\ PollsWhatIsOpen /\ ServedUntilLastClose

USE EventLoopAssumption DEF EventLoopAssumption, Threads

------------------------------------------------------------------------------
(* Types *)

\* The type invariant, where the chore bounds the counter and the pipe.
LEMMA TypeStep == TypeOK /\ Chores /\ [Next]_vars => TypeOK'
<1> SUFFICES ASSUME TypeOK, Chores, [Next]_vars PROVE TypeOK'
    OBVIOUS
<1>1. ASSUME NEW t \in Threads, LookAtModify(t) PROVE TypeOK'
     BY <1>1 DEF LookAtModify, MayHandle, loopVars, deviceVars, TypeOK, Places, Chores
<1>2. ASSUME NEW t \in Threads, TryLock(t) PROVE TypeOK'
     BY <1>2 DEF TryLock, loopVars, deviceVars, TypeOK, Places, Chores
<1>3. ASSUME NEW t \in Threads, Poll(t) PROVE TypeOK'
     BY <1>3 DEF Poll, Completed, loopVars, deviceVars, TypeOK, Places, Chores
<1>4. ASSUME NEW t \in Threads, PollReturns(t) PROVE TypeOK'
     BY <1>4 DEF PollReturns, Found, Pending, loopVars, deviceVars, TypeOK, Places, Chores
<1>5. ASSUME NEW t \in Threads, PollTimesOut(t) PROVE TypeOK'
     BY <1>5 DEF PollTimesOut, Found, Pending, loopVars, deviceVars, TypeOK, Places, Chores
<1>6. ASSUME NEW t \in Threads, Reap(t) PROVE TypeOK'
     BY <1>6 DEF Reap, loopVars, deviceVars, TypeOK, Places, Chores
<1>7. ASSUME NEW t \in Threads, ReapEnds(t) PROVE TypeOK'
     BY <1>7 DEF ReapEnds, Pending, loopVars, deviceVars, TypeOK, Places, Chores
<1>8. ASSUME NEW t \in Threads, Tell(t) PROVE TypeOK'
     BY <1>8 DEF Tell, Broadcast, loopVars, deviceVars, TypeOK, Places, Chores
<1>9. ASSUME NEW t \in Threads, Unlock(t) PROVE TypeOK'
     BY <1>9 DEF Unlock, loopVars, deviceVars, TypeOK, Places, Chores
<1>10. ASSUME NEW t \in Threads, Unlocked(t) PROVE TypeOK'
     BY <1>10 DEF Unlocked, Broadcast, loopVars, deviceVars, TypeOK, Places, Chores
<1>11. ASSUME NEW t \in Threads, Wait(t) PROVE TypeOK'
     BY <1>11 DEF Wait, Completed, SomebodyActive, loopVars, deviceVars, TypeOK, Places,
        Chores
<1>12. ASSUME NEW t \in Threads, Wakes(t) PROVE TypeOK'
     BY <1>12 DEF Wakes, loopVars, deviceVars, TypeOK, Places, Chores
<1>13. ASSUME NEW t \in Threads, WaitTimesOut(t) PROVE TypeOK'
     BY <1>13 DEF WaitTimesOut, loopVars, deviceVars, TypeOK, Places, Chores
<1>14. CASE HandlerRound
     BY <1>14 DEF HandlerRound, loopVars, deviceVars, TypeOK, Places, Chores
<1>15. ASSUME NEW c \in Callers, CallerRound(c) PROVE TypeOK'
     BY <1>15 DEF CallerRound, Completed, NoRequest, loopVars, deviceVars, TypeOK, Places,
        Chores
<1>16. ASSUME NEW c \in Callers, NEW d \in Devices, Control(c, d) PROVE TypeOK'
     BY <1>16 DEF Control, NoChore, loopVars, deviceVars, TypeOK, Places, Chores
<1>17. ASSUME NEW c \in Callers, Answer(c) PROVE TypeOK'
     BY <1>17 DEF Answer, loopVars, deviceVars, TypeOK, Places, Chores
<1>18. ASSUME NEW d \in Devices, OtherUrb(d) PROVE TypeOK'
     BY <1>18 DEF OtherUrb, loopVars, deviceVars, TypeOK, Places, Chores
<1>19. ASSUME NEW d \in Devices, Open(d) PROVE TypeOK'
     BY <1>19 DEF Open, NoChore, loopVars, deviceVars, TypeOK, Places, Chores
<1>20. ASSUME NEW d \in Devices, Close(d) PROVE TypeOK'
     BY <1>20 DEF Close, NoChore, loopVars, deviceVars, TypeOK, Places, Chores
<1>21. CASE Append
     BY <1>21 DEF Append, Step, Goto, Reaping, loopVars, deviceVars, TypeOK, Places, Chores
<1>22. CASE Interrupt
     BY <1>22 DEF Interrupt, Step, Goto, loopVars, deviceVars, TypeOK, Places, Chores
<1>23. CASE LockEvents
     BY <1>23 DEF LockEvents, Step, Goto, LockFree, ReadByte, loopVars, deviceVars, TypeOK,
        Places, Chores
<1>24. CASE Remove
     BY <1>24 DEF Remove, Step, Goto, Broadcast, loopVars, deviceVars, TypeOK, Places, Chores
<1>25. CASE Settle
     BY <1>25 DEF Settle, Step, Goto, loopVars, deviceVars, TypeOK, Places, Chores
<1>26. CASE UnlockEvents
     BY <1>26 DEF UnlockEvents, Step, Goto, loopVars, deviceVars, TypeOK, Places, Chores
<1>27. CASE WakeWaiters
     BY <1>27 DEF WakeWaiters, Step, Goto, Broadcast, loopVars, deviceVars, TypeOK, Places,
        Chores
<1>28. CASE Opened
     BY <1>28 DEF Opened, Step, NeedsHandler, NoChore, loopVars, deviceVars, TypeOK, Places,
        Chores
<1>29. CASE OpenFails
     BY <1>29 DEF OpenFails, Step, loopVars, deviceVars, TypeOK, Places, Chores
<1>30. CASE Abandoned
     BY <1>30 DEF Abandoned, Step, NoChore, loopVars, deviceVars, TypeOK, Places, Chores
<1>31. CASE Closed
     BY <1>31 DEF Closed, Step, NoChore, loopVars, deviceVars, TypeOK, Places, Chores
<1>32. CASE UNCHANGED vars
     BY <1>32 DEF vars, TypeOK, Places, Chores
<1>33. QED
     BY <1>1, <1>2, <1>3, <1>4, <1>5, <1>6, <1>7, <1>8, <1>9, <1>10, <1>11, <1>12, <1>13,
        <1>14, <1>15, <1>16, <1>17, <1>18, <1>19, <1>20, <1>21, <1>22, <1>23, <1>24, <1>25,
        <1>26, <1>27, <1>28, <1>29, <1>30, <1>31, <1>32 DEF Next, LoopStep, TimeStep, ChoreStep

\* A step of the loop is the event thread's or a caller's own, on its way through the loop:
\* it moves no other thread and none that is outside, and leaves the devices alone.
LEMMA LoopFrame ==
    ASSUME TypeOK, Asleep, NEW t \in Threads, LoopStep(t) \/ TimeStep(t)
    PROVE  /\ UNCHANGED deviceVars
           /\ at[t] \notin {"idle", "none", "exited"}
           /\ \A u \in Threads : u # t => at'[u] = at[u]
<1>1. CASE LookAtModify(t) \/ TryLock(t) \/ Poll(t) \/ PollReturns(t)
      BY <1>1 DEF LookAtModify, TryLock, Poll, PollReturns, TypeOK
<1>2. CASE Reap(t) \/ ReapEnds(t) \/ Tell(t) \/ Unlock(t) \/ Unlocked(t)
      BY <1>2 DEF Reap, ReapEnds, Tell, Unlock, Unlocked, TypeOK
<1>3. CASE Wait(t) \/ Wakes(t) \/ PollTimesOut(t)
      BY <1>3 DEF Wait, Wakes, PollTimesOut, TypeOK
<1>4. CASE t = Handler /\ HandlerRound
      BY <1>4 DEF HandlerRound, TypeOK
<1>5. CASE t \in Callers /\ CallerRound(t)
      BY <1>5 DEF CallerRound, TypeOK
<1>6. CASE WaitTimesOut(t)
      BY <1>6 DEF WaitTimesOut, Asleep
<1>7. QED
      BY <1>1, <1>2, <1>3, <1>4, <1>5, <1>6 DEF LoopStep, TimeStep

------------------------------------------------------------------------------
(* The chore, the lock and the sleepers *)

\* Each step of a chore leaves the counter and the pipe as the next one expects them, and the
\* main thread outside the loop.
LEMMA ChoresStep == TypeOK /\ Asleep /\ Chores /\ [Next]_vars => Chores'
<1> SUFFICES ASSUME TypeOK, Asleep, Chores, [Next]_vars PROVE Chores'
    OBVIOUS
<1>1. ASSUME NEW t \in Threads, LoopStep(t) \/ TimeStep(t) PROVE Chores'
  <2>1. chore.kind # "none" => t # Main
        BY <1>1, LoopFrame DEF Chores
  <2>2. QED
        BY <1>1, <2>1, LoopFrame DEF Chores, deviceVars
<1>2. ASSUME NEW c \in Callers, NEW d \in Devices, Control(c, d) PROVE Chores'
      BY <1>2 DEF Control, Chores, NoChore, deviceVars, TypeOK
<1>3. CASE \/ \E c \in Callers : Answer(c)
           \/ \E d \in Devices : OtherUrb(d)
           \/ UNCHANGED vars
      BY <1>3 DEF Answer, OtherUrb, Chores, loopVars, deviceVars, vars
<1>4. ASSUME NEW d \in Devices, Open(d) \/ Close(d) PROVE Chores'
      BY <1>4 DEF Open, Close, Chores, NoChore, loopVars, TypeOK
<1>5. CASE Append \/ Interrupt \/ LockEvents \/ Remove
      BY <1>5 DEF Append, Interrupt, LockEvents, Remove, ReadByte, Step, Goto, Chores, loopVars,
         TypeOK
<1>6. CASE Settle \/ UnlockEvents \/ WakeWaiters
      BY <1>6 DEF Settle, UnlockEvents, WakeWaiters, Step, Goto, Chores, loopVars, TypeOK
<1>7. CASE OpenFails \/ Abandoned \/ Closed
  <2>1. CASE OpenFails
    <3>1. /\ chore'.kind = "abandon" /\ chore'.step = "interrupt" /\ chore'.dev = chore.dev
          /\ chore.kind = "open" /\ chore.step = "finish"
          BY <2>1 DEF OpenFails, Step, TypeOK
    <3>2. QED
          BY <2>1, <3>1 DEF OpenFails, Chores, loopVars
  <2>2. CASE Abandoned
        BY <2>2 DEF Abandoned, Step, NoChore, Chores, loopVars, TypeOK
  <2>3. CASE Closed
        BY <2>3 DEF Closed, Step, NoChore, Chores, loopVars, TypeOK
  <2>4. QED
        BY <1>7, <2>1, <2>2, <2>3
<1>8. CASE Opened
      BY <1>8 DEF Opened, Step, NoChore, Chores, TypeOK
<1>9. QED
      BY <1>1, <1>2, <1>3, <1>4, <1>5, <1>6, <1>7, <1>8 DEF Next, ChoreStep

\* Only who is at a place that holds the lock gives it away, and a place that holds it is
\* entered by taking it.
LEMMA LocksStep == TypeOK /\ Chores /\ Asleep /\ Spawned /\ Locks /\ [Next]_vars => Locks'
<1> SUFFICES ASSUME TypeOK, Chores, Asleep, Spawned, Locks, [Next]_vars PROVE Locks'
    OBVIOUS
<1> USE DEF Locks, HasLock, Holding
<1>1. ASSUME NEW t \in Threads, LoopStep(t) \/ TimeStep(t) PROVE Locks'
  <2>1. /\ UNCHANGED chore
        /\ at[t] \notin {"idle", "none", "exited"}
        /\ t = Main => chore.step = "none"
        BY <1>1, LoopFrame DEF deviceVars, Chores
  <2>2. CASE TryLock(t)
        BY <2>1, <2>2 DEF TryLock, TypeOK
  <2>3. CASE Unlock(t)
        BY <2>1, <2>3 DEF Unlock, TypeOK
  <2>4. CASE LookAtModify(t) \/ Poll(t) \/ PollReturns(t) \/ Wait(t)
        BY <2>1, <2>4 DEF LookAtModify, Poll, PollReturns, Wait, TypeOK
  <2>5. CASE PollTimesOut(t) \/ Reap(t) \/ ReapEnds(t) \/ Tell(t) \/ Unlocked(t) \/ Wakes(t)
        BY <2>1, <2>5 DEF PollTimesOut, Reap, ReapEnds, Tell, Unlocked, Wakes, TypeOK
  <2>6. CASE WaitTimesOut(t) \/ (t = Handler /\ HandlerRound)
        BY <2>1, <2>6 DEF WaitTimesOut, HandlerRound, TypeOK
  <2>7. CASE t \in Callers /\ CallerRound(t)
        BY <2>1, <2>7 DEF CallerRound, TypeOK
  <2>8. QED
        BY <1>1, <2>2, <2>3, <2>4, <2>5, <2>6, <2>7 DEF LoopStep, TimeStep
<1>2. ASSUME NEW c \in Callers, NEW d \in Devices, Control(c, d) PROVE Locks'
      BY <1>2 DEF Control, deviceVars, TypeOK
<1>3. CASE \/ \E c \in Callers : Answer(c)
           \/ \E d \in Devices : OtherUrb(d)
           \/ UNCHANGED vars
      BY <1>3 DEF Answer, OtherUrb, loopVars, deviceVars, vars
<1>4. ASSUME NEW d \in Devices, Open(d) \/ Close(d) PROVE Locks'
      BY <1>4 DEF Open, Close, NoChore, loopVars, TypeOK
<1>5. CASE LockEvents
      BY <1>5 DEF LockEvents, LockFree, Step, Goto, Chores, TypeOK
<1>6. CASE UnlockEvents
      BY <1>6 DEF UnlockEvents, Step, Goto, Chores, TypeOK
<1>7. CASE Append \/ Interrupt \/ Remove \/ Settle \/ WakeWaiters
      BY <1>7 DEF Append, Interrupt, Remove, Settle, WakeWaiters, Step, Goto, loopVars, TypeOK
<1>8. CASE OpenFails \/ Abandoned \/ Closed
  <2>1. CASE OpenFails
    <3>1. /\ chore'.kind = "abandon" /\ chore'.step = "interrupt" /\ chore'.dev = chore.dev
          /\ chore.kind = "open" /\ chore.step = "finish"
          BY <2>1 DEF OpenFails, Step, TypeOK
    <3>2. QED
          BY <2>1, <3>1 DEF OpenFails, loopVars
  <2>2. CASE Abandoned
        BY <2>2 DEF Abandoned, Step, NoChore, loopVars, TypeOK
  <2>3. CASE Closed
        BY <2>3 DEF Closed, Step, NoChore, loopVars, TypeOK
  <2>4. QED
        BY <1>8, <2>1, <2>2, <2>3
<1>9. CASE Opened
      BY <1>9 DEF Opened, NeedsHandler, Spawned, Step, NoChore, TypeOK
<1>10. QED
      BY <1>1, <1>2, <1>3, <1>4, <1>5, <1>6, <1>7, <1>8, <1>9 DEF Next, ChoreStep

\* Who sleeps is at the wait, and leaves it only awake.
LEMMA AsleepStep == TypeOK /\ Spawned /\ Asleep /\ [Next]_vars => Asleep'
<1> SUFFICES ASSUME TypeOK, Spawned, Asleep, [Next]_vars PROVE Asleep'
    OBVIOUS
<1> USE DEF Asleep
<1>1. ASSUME NEW t \in Threads, LoopStep(t) \/ TimeStep(t) PROVE Asleep'
  <2>1. CASE LookAtModify(t) \/ TryLock(t) \/ Poll(t) \/ PollReturns(t) \/ PollTimesOut(t)
        BY <2>1 DEF LookAtModify, TryLock, Poll, PollReturns, PollTimesOut, TypeOK
  <2>2. CASE Reap(t) \/ ReapEnds(t) \/ Tell(t) \/ Unlock(t) \/ Unlocked(t)
        BY <2>2 DEF Reap, ReapEnds, Tell, Unlock, Unlocked, Broadcast, TypeOK
  <2>3. CASE Wait(t) \/ Wakes(t) \/ WaitTimesOut(t)
        BY <2>3 DEF Wait, Wakes, WaitTimesOut, TypeOK
  <2>4. CASE t = Handler /\ HandlerRound
        BY <2>4 DEF HandlerRound, TypeOK
  <2>5. CASE t \in Callers /\ CallerRound(t)
        BY <2>5 DEF CallerRound, TypeOK
  <2>6. QED
        BY <1>1, <2>1, <2>2, <2>3, <2>4, <2>5 DEF LoopStep, TimeStep
<1>2. ASSUME NEW c \in Callers, NEW d \in Devices, Control(c, d) PROVE Asleep'
      BY <1>2 DEF Control, TypeOK
<1>3. CASE \/ \E c \in Callers : Answer(c)
           \/ \E d \in Devices : OtherUrb(d) \/ Open(d) \/ Close(d)
           \/ UNCHANGED vars
      BY <1>3 DEF Answer, OtherUrb, Open, Close, loopVars, vars
<1>4. CASE Append \/ Interrupt \/ LockEvents \/ Remove \/ Settle \/ UnlockEvents
      BY <1>4 DEF Append, Interrupt, LockEvents, Remove, Settle, UnlockEvents, Broadcast, loopVars
<1>5. CASE WakeWaiters \/ OpenFails \/ Abandoned \/ Closed
      BY <1>5 DEF WakeWaiters, OpenFails, Abandoned, Closed, Broadcast, loopVars
<1>6. CASE Opened
      BY <1>6 DEF Opened, NeedsHandler, Spawned, TypeOK
<1>7. QED
      BY <1>1, <1>2, <1>3, <1>4, <1>5, <1>6 DEF Next, ChoreStep

\* The event thread starts with the first camera and is joined with the last; it ends by
\* itself only when it has been told to.
LEMMA SpawnedStep ==
    TypeOK /\ Chores /\ Asleep /\ Spawned /\ ServedUntilLastClose /\ [Next]_vars
        => Spawned' /\ ServedUntilLastClose'
<1> SUFFICES ASSUME TypeOK, Chores, Asleep, Spawned, ServedUntilLastClose, [Next]_vars
             PROVE  Spawned' /\ ServedUntilLastClose'
    OBVIOUS
<1> USE DEF Spawned, ServedUntilLastClose
<1>1. ASSUME NEW t \in Threads, LoopStep(t) \/ TimeStep(t)
      PROVE  Spawned' /\ ServedUntilLastClose'
  <2>1. CASE t # Handler
        BY <1>1, <2>1, LoopFrame DEF deviceVars
  <2>2. ASSUME t = Handler, ~kill PROVE at'[Handler] \notin {"none", "exited"}
    <3>1. CASE HandlerRound
          BY <2>2, <3>1 DEF HandlerRound, TypeOK
    <3>2. CASE LookAtModify(t) \/ TryLock(t) \/ Poll(t) \/ PollReturns(t) \/ PollTimesOut(t)
          BY <2>2, <3>2 DEF LookAtModify, TryLock, Poll, PollReturns, PollTimesOut, TypeOK
    <3>3. CASE Reap(t) \/ ReapEnds(t) \/ Tell(t) \/ Unlock(t) \/ Unlocked(t)
          BY <2>2, <3>3 DEF Reap, ReapEnds, Tell, Unlock, Unlocked, TypeOK
    <3>4. CASE Wait(t) \/ Wakes(t)
          BY <2>2, <3>4 DEF Wait, Wakes, TypeOK
    <3>5. CASE WaitTimesOut(t)
          BY <2>2, <3>5 DEF WaitTimesOut, Asleep, TypeOK
    <3>6. QED
          BY <1>1, <2>2, <3>1, <3>2, <3>3, <3>4, <3>5 DEF LoopStep, TimeStep
  <2>3. QED
        BY <1>1, <2>1, <2>2, LoopFrame DEF deviceVars
<1>2. ASSUME NEW c \in Callers, NEW d \in Devices, Control(c, d)
      PROVE  Spawned' /\ ServedUntilLastClose'
      BY <1>2 DEF Control, deviceVars, TypeOK
<1>3. CASE \/ \E c \in Callers : Answer(c)
           \/ \E d \in Devices : OtherUrb(d) \/ Open(d) \/ Close(d)
           \/ UNCHANGED vars
      BY <1>3 DEF Answer, OtherUrb, Open, Close, loopVars, deviceVars, vars
<1>4. CASE Append \/ Interrupt \/ LockEvents \/ Remove \/ Settle \/ UnlockEvents
      BY <1>4 DEF Append, Interrupt, LockEvents, Remove, Settle, UnlockEvents, loopVars
<1>5. CASE WakeWaiters \/ OpenFails \/ Abandoned
      BY <1>5 DEF WakeWaiters, OpenFails, Abandoned, loopVars
<1>6. CASE Closed
      BY <1>6 DEF Closed, loopVars
<1>7. CASE Opened
      BY <1>7 DEF Opened, NeedsHandler, TypeOK
<1>8. QED
      BY <1>1, <1>2, <1>3, <1>4, <1>5, <1>6, <1>7 DEF Next, ChoreStep

------------------------------------------------------------------------------
(* What is polled *)

\* A thread that begins to poll copies the current set; the set changes for those who poll
\* already only while the main thread has the lock, when there are none, or by a camera
\* nobody may use yet.
LEMMA PolledStep ==
    TypeOK /\ Chores /\ Asleep /\ Spawned /\ Locks /\ Polled /\ PollsWhatIsOpen /\ [Next]_vars
        => Polled' /\ PollsWhatIsOpen'
<1> SUFFICES ASSUME TypeOK, Chores, Asleep, Spawned, Locks, Polled, PollsWhatIsOpen, [Next]_vars
             PROVE  Polled' /\ PollsWhatIsOpen'
    OBVIOUS
<1> USE DEF Polled, PollsWhatIsOpen
<1>1. ASSUME NEW t \in Threads, LoopStep(t) \/ TimeStep(t) PROVE Polled' /\ PollsWhatIsOpen'
  <2>1. UNCHANGED <<pollfds, cameras, chore>> /\ \A u \in Threads : u # t => at'[u] = at[u]
        BY <1>1, LoopFrame DEF deviceVars
  <2>2. CASE Poll(t)
        BY <2>1, <2>2 DEF Poll, TypeOK
  <2>3. CASE PollReturns(t) \/ ReapEnds(t)
        BY <2>1, <2>3 DEF PollReturns, ReapEnds, TypeOK
  <2>4. CASE LookAtModify(t) \/ TryLock(t) \/ PollTimesOut(t) \/ Reap(t) \/ Tell(t)
        BY <2>1, <2>4 DEF LookAtModify, TryLock, PollTimesOut, Reap, Tell, TypeOK
  <2>5. CASE Unlock(t) \/ Unlocked(t) \/ Wait(t) \/ Wakes(t) \/ WaitTimesOut(t)
        BY <2>1, <2>5 DEF Unlock, Unlocked, Wait, Wakes, WaitTimesOut, TypeOK
  <2>6. CASE t = Handler /\ HandlerRound
        BY <2>1, <2>6 DEF HandlerRound, TypeOK
  <2>7. CASE t \in Callers /\ CallerRound(t)
        BY <2>1, <2>7 DEF CallerRound, TypeOK
  <2>8. QED
        BY <1>1, <2>2, <2>3, <2>4, <2>5, <2>6, <2>7 DEF LoopStep, TimeStep
<1>2. ASSUME NEW c \in Callers, NEW d \in Devices, Control(c, d)
      PROVE  Polled' /\ PollsWhatIsOpen'
      BY <1>2 DEF Control, deviceVars, TypeOK
<1>3. CASE \/ \E c \in Callers : Answer(c)
           \/ \E d \in Devices : OtherUrb(d)
           \/ UNCHANGED vars
      BY <1>3 DEF Answer, OtherUrb, loopVars, deviceVars, vars
<1>4. ASSUME NEW d \in Devices, Open(d) \/ Close(d) PROVE Polled' /\ PollsWhatIsOpen'
      BY <1>4 DEF Open, Close, NoChore, loopVars, TypeOK
<1>5. CASE Append \/ Interrupt \/ UnlockEvents \/ Settle \/ WakeWaiters
      BY <1>5 DEF Append, Interrupt, UnlockEvents, Settle, WakeWaiters, Step, Goto, loopVars, TypeOK
<1>6. CASE LockEvents \/ Remove
  <2>1. \A t \in Threads : at'[t] = at[t] /\ at[t] # "poll"
        BY <1>6 DEF LockEvents, LockFree, Remove, Step, Locks, HasLock, Holding, Chores, TypeOK
  <2>2. QED
        BY <1>6, <2>1 DEF LockEvents, Remove, Step, Goto, Chores, TypeOK
<1>7. CASE Opened
      BY <1>7 DEF Opened, NeedsHandler, Step, NoChore, TypeOK
<1>8. CASE OpenFails \/ Abandoned \/ Closed
  <2>1. CASE OpenFails
    <3>1. /\ chore'.kind = "abandon" /\ chore'.step = "interrupt" /\ chore'.dev = chore.dev
          /\ chore.kind = "open" /\ chore.step = "finish"
          BY <2>1 DEF OpenFails, Step, TypeOK
    <3>2. QED
          BY <2>1, <3>1 DEF OpenFails, Chores, loopVars
  <2>2. CASE Abandoned
        BY <2>2 DEF Abandoned, Step, NoChore, Chores, loopVars, TypeOK
  <2>3. CASE Closed
        BY <2>3 DEF Closed, Step, NoChore, Chores, loopVars, TypeOK
  <2>4. QED
        BY <1>8, <2>1, <2>2, <2>3
<1>9. QED
      BY <1>1, <1>2, <1>3, <1>4, <1>5, <1>6, <1>7, <1>8 DEF Next, ChoreStep

------------------------------------------------------------------------------
(* Who wakes the sleepers *)

\* Whoever stops handling events, or modifying the descriptors, still has its broadcast to do
\* when the others may be asleep; a broadcast leaves nobody asleep; and nobody falls asleep
\* without somebody who is active.
LEMMA WakeupStep ==
    TypeOK /\ Chores /\ Asleep /\ Spawned /\ NoLostWakeup /\ [Next]_vars => NoLostWakeup'
<1> SUFFICES ASSUME TypeOK, Chores, Asleep, Spawned, NoLostWakeup, [Next]_vars
             PROVE  NoLostWakeup'
    OBVIOUS
<1> USE DEF NoLostWakeup, Completed
<1>1. ASSUME NEW t \in Threads, LoopStep(t) \/ TimeStep(t) PROVE NoLostWakeup'
  <2>1. /\ UNCHANGED <<modify, chore>>
        /\ \A u \in Threads : u # t => at'[u] = at[u]
        BY <1>1, LoopFrame DEF deviceVars
  <2>2. CASE Tell(t) \/ Unlocked(t)
        BY <2>2 DEF Tell, Unlocked, Broadcast
  <2>3. CASE Unlock(t)
    <3>1. at'[t] = "unlocked" /\ UNCHANGED <<asleep, request>>
          BY <2>3 DEF Unlock, TypeOK
    <3>2. \A u \in Threads : at[u] = "tell" => at'[u] = "tell"
          BY <2>1, <2>3 DEF Unlock
    <3>3. QED
          BY <3>1, <3>2 DEF TypeOK
  <2>4. CASE Reap(t)
    <3>1. /\ at'[t] = "tell" /\ at[t] = "reap"
          /\ UNCHANGED <<asleep, active>>
          BY <2>4 DEF Reap, TypeOK
    <3>2. QED
          BY <2>1, <3>1 DEF TypeOK
  <2>5. CASE Wait(t)
        BY <2>1, <2>5 DEF Wait, SomebodyActive, TypeOK
  <2>6. CASE LookAtModify(t) \/ TryLock(t) \/ Poll(t) \/ PollReturns(t) \/ PollTimesOut(t)
        BY <2>1, <2>6 DEF LookAtModify, TryLock, Poll, PollReturns, PollTimesOut, TypeOK
  <2>7. CASE ReapEnds(t) \/ Wakes(t) \/ WaitTimesOut(t)
        BY <2>1, <2>7 DEF ReapEnds, Wakes, WaitTimesOut, TypeOK
  <2>8. CASE t = Handler /\ HandlerRound
        BY <2>1, <2>8 DEF HandlerRound, TypeOK
  <2>9. CASE t \in Callers /\ CallerRound(t)
        BY <2>1, <2>9 DEF CallerRound, NoRequest, Asleep, TypeOK
  <2>10. QED
        BY <1>1, <2>2, <2>3, <2>4, <2>5, <2>6, <2>7, <2>8, <2>9 DEF LoopStep, TimeStep
<1>2. ASSUME NEW c \in Callers, NEW d \in Devices, Control(c, d) PROVE NoLostWakeup'
      BY <1>2 DEF Control, deviceVars, Asleep, TypeOK
<1>3. ASSUME NEW c \in Callers, Answer(c) PROVE NoLostWakeup'
      BY <1>3 DEF Answer, loopVars, deviceVars, TypeOK
<1>4. CASE (\E d \in Devices : OtherUrb(d)) \/ UNCHANGED vars
      BY <1>4 DEF OtherUrb, loopVars, deviceVars, vars
<1>5. ASSUME NEW d \in Devices, Open(d) \/ Close(d) PROVE NoLostWakeup'
      BY <1>5 DEF Open, Close, NoChore, loopVars, TypeOK
<1>6. CASE Append \/ Interrupt \/ LockEvents
      BY <1>6 DEF Append, Interrupt, LockEvents, Step, Goto, loopVars, TypeOK
<1>7. CASE Remove \/ WakeWaiters
      BY <1>7 DEF Remove, WakeWaiters, Broadcast
<1>8. CASE Settle \/ UnlockEvents
      BY <1>8 DEF Settle, UnlockEvents, Step, Goto, loopVars, TypeOK
<1>9. CASE OpenFails \/ Abandoned \/ Closed
      BY <1>9 DEF OpenFails, Abandoned, Closed, Step, NoChore, loopVars, TypeOK
<1>10. CASE Opened
  <2>1. \A u \in Threads : at[u] \in {"tell", "unlock", "unlocked"} => at'[u] = at[u]
        BY <1>10 DEF Opened, NeedsHandler, Spawned, TypeOK
  <2>2. QED
        BY <1>10, <2>1 DEF Opened, Step, NoChore, TypeOK
<1>11. QED
      BY <1>1, <1>2, <1>3, <1>4, <1>5, <1>6, <1>7, <1>8, <1>9, <1>10 DEF Next, ChoreStep

------------------------------------------------------------------------------
(* The theorems *)

LEMMA InvInit == Init => IInv
<1> SUFFICES ASSUME Init PROVE IInv
    OBVIOUS
<1> USE DEF Init, NoChore
<1>1. TypeOK
  <2>1. at \in [Threads -> Places] /\ watched \in [Threads -> SUBSET Devices]
        BY DEF Places
  <2>2. request \in [Callers -> [state : {"none", "sent", "answered", "done"},
                                dev : Devices \union {Nobody}]]
        BY DEF NoRequest
  <2>3. opens \in 0..MaxOpens /\ calls \in 0..MaxCalls
        OBVIOUS
  <2>4. chore \in [kind : {"none", "open", "close", "abandon"}, dev : Devices \union {Nobody},
                  step : {"none", "append", "interrupt", "lock", "remove",
                          "settle", "unlock", "broadcast", "finish"}]
        OBVIOUS
  <2>5. active \in BOOLEAN /\ kill \in BOOLEAN
        OBVIOUS
  <2>6. modify \in 0..1 /\ pipe \in 0..1
        OBVIOUS
  <2>7. /\ pollfds \subseteq Devices /\ openDevs \subseteq Devices /\ cameras \subseteq Devices
        /\ ready \subseteq Devices /\ asleep \subseteq Threads
        /\ lock \in Threads \union {Nobody}
        OBVIOUS
  <2>8. QED
        BY <2>1, <2>2, <2>3, <2>4, <2>5, <2>6, <2>7, Zenon DEF TypeOK
<1>2. Locks /\ Asleep
      BY DEF Locks, HasLock, Holding, Asleep
<1>3. Chores
      BY DEF Chores
<1>4. Polled /\ PollsWhatIsOpen
      BY DEF Polled, PollsWhatIsOpen
<1>5. Spawned /\ ServedUntilLastClose /\ NoLostWakeup
      BY DEF Spawned, ServedUntilLastClose, NoLostWakeup
<1>6. QED
      BY <1>1, <1>2, <1>3, <1>4, <1>5 DEF IInv

LEMMA InvStep == IInv /\ [Next]_vars => IInv'
BY TypeStep, ChoresStep, LocksStep, AsleepStep, SpawnedStep, PolledStep, WakeupStep DEF IInv

LEMMA Invariance == Spec => []IInv
BY InvInit, InvStep, PTL DEF Spec

\* The type invariant of libusb's and libuvc's contexts, their threads and transfers.
THEOREM TypeCorrect == Spec => []TypeOK
<1>1. IInv => TypeOK
      BY DEF IInv
<1>2. QED
      BY <1>1, Invariance, PTL

\* However many threads wait for events while cameras are opened and closed, each sleeper has
\* somebody who will wake it (libusb_wait_for_event).
THEOREM SleepersAreWoken == Spec => []NoLostWakeup
<1>1. IInv => NoLostWakeup
      BY DEF IInv
<1>2. QED
      BY <1>1, Invariance, PTL

\* Whoever polls polls every open camera and no removed descriptor (usbi_fd_notification,
\* libusb_close).
THEOREM PollerUpToDate == Spec => []PollsWhatIsOpen
<1>1. IInv => PollsWhatIsOpen
      BY DEF IInv
<1>2. QED
      BY <1>1, Invariance, PTL

\* The event thread lives as long as cameras are open, until the last has been closed once.
THEOREM CamerasAreServed == Spec => []ServedUntilLastClose
<1>1. IInv => ServedUntilLastClose
      BY DEF IInv
<1>2. QED
      BY <1>1, Invariance, PTL
=============================================================================
