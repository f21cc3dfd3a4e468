------------------------- MODULE CameraHandle_proofs -------------------------
(***************************************************************************)
(* Proofs about CameraHandle, for any set of streaming interfaces and any  *)
(* number of openings, other programs and status packets.                  *)
(*                                                                         *)
(* The argument.  Each call of the application goes through few places, on *)
(* the control interface or on that of a stream (Calls), and only one      *)
(* handle is open (Handles).  While a call works on an interface, what it  *)
(* has done to the claim so far is known (Streams); bandwidth is only      *)
(* where a claim is (Bandwidth).  An interface that refuses a claim is     *)
(* another program's or is left from an earlier handle of this file, which *)
(* the retry releases, and no URB of that handle takes it back (Refusals,  *)
(* Urbs).  And every interface is the driver's, or claimed by the open     *)
(* handle and to be released by what owns it, or between the release and   *)
(* the new claim of a reset, or left over (Owners).                        *)
(***************************************************************************)
EXTENDS CameraHandle, SequenceTheorems, TLAPS

OnControl == {"info", "claim", "retry", "again", "refused", "status", "release", "attach", "close"}
OnStream  == {"claim", "retry", "again", "refused", "commit"}
OnFree    == {"release", "attach", "free"}
OnClose   == {"streams", "release", "attach", "close"}

\* Where calls can be, and on which interface.
Calls ==
    /\ call # NoCall => open
    /\ \/ call = NoCall
       \/ call.op = "open" /\ call.iface = Ctrl /\ call.at \in OnControl
       \/ call.op = "stream" /\ call.iface \in StreamIfs /\ call.at \in OnStream
       \/ call.op \in {"stop", "close"} /\ call.iface \in StreamIfs /\ call.at \in OnFree
       \/ call.op = "close" /\ call.iface = Ctrl /\ call.at \in OnClose
       \/ call.op = "reset" /\ call.iface = Ctrl /\ call.at \in {"down", "up"}

\* All handles but the open one have been freed.
Handles ==
    /\ open => handle > 0
    /\ freed = 1..(IF open THEN handle - 1 ELSE handle)
    /\ ~open => claimed = {} /\ streams = {}

\* What the call that is going on knows of claims and streams.
Streams ==
    /\ streams \subseteq claimed \cup {call.iface} \cup lost
    /\ todo \subseteq claimed /\ (call.op # "reset" => todo = {})
    /\ call.op = "open" => streams = {}
    /\ call.op = "stream" => call.iface \notin streams
    /\ call.op = "close" /\ call.iface = Ctrl /\ call.at # "streams" => streams = {}
    /\ call.at \in {"retry", "again", "attach"} => call.iface \notin claimed
    /\ call.at = "commit" => call.iface \in claimed

\* Bandwidth is where a stream is, and a claim; at "free" it is gone.
Bandwidth ==
    /\ alt \subseteq streams
    /\ \A i \in alt : i \in claimed /\ bound[i] = "us"
    /\ call.at = "free" => call.iface \notin alt
    /\ At("reset", "down") => alt \subseteq todo
    /\ At("reset", "up") => alt = {}

Agreed == present /\ ~resetFailed => \A i \in claimed \ Between : bound[i] = "us"

\* The URBs in the kernel or to be reaped belong to these handles.
UrbsOf(S) == pending \in S \cup {0} /\ \A k \in DOMAIN done : done[k][1] \in S

Urbs ==
    /\ UrbsOf(1..handle)
    /\ call.op = "open" => UrbsOf(1..(handle - 1))
    /\ build = "desktop" => UrbsOf(IF open THEN {handle} ELSE {})
    /\ NoFreedReapOnDesktop

\* Why an interface refuses a claim.
Refusals ==
    /\ open /\ ~(call.op = "open" /\ call.at \in {"info", "close"}) => auto
    /\ \A i \in Ifaces : bound[i] = "other" => i \in taken
    /\ call.at = "retry" /\ present => call.iface \in taken \/ bound[call.iface] = "us"
    /\ call.at = "again" /\ present => call.iface \in taken \/ bound[call.iface] = "nobody"

\* Who will give an interface back.
Owned(i) == \/ i \in streams \/ i = Ctrl \/ i \in leftover
            \/ call.op = "stream" /\ call.iface = i

\* What the driver lacks is claimed, or released in this moment, or between the release and the
\* new claim of a reset.
Back(i) == \/ bound[i] = "driver"
           \/ bound[i] = "us" /\ i \in claimed \ Between
           \/ bound[i] # "us" /\ i \in Between
           \/ bound[i] = "nobody" /\ call.at = "attach" /\ call.iface = i

Owners ==
    present =>
        /\ \A i \in claimed : Owned(i) /\ (bound[i] = "us" \/ i \in leftover \cup Between)
        /\ call.op = "open" /\ call.at = "info" => claimed = {}
        /\ call.at = "refused" => call.iface \notin claimed
        /\ call.at = "free" => call.iface \notin claimed \/ call.iface \in leftover
        /\ call.at = "close" => Ctrl \notin claimed \/ Ctrl \in leftover
        /\ fits => \A i \in Ifaces \ (taken \cup leftover) : Back(i)

\* The inductive invariant.
IInv == /\ TypeOK /\ Calls /\ Handles /\ Streams /\ Bandwidth /\ Agreed
        /\ Urbs /\ Refusals /\ Owners

USE CameraHandleAssumption DEF CameraHandleAssumption

------------------------------------------------------------------------------
(* Types *)

Names == (1..MaxOpens) \X {"event", "killed", "gone"}

CallType == [op : {"none", "open", "stream", "stop", "close", "reset"}, iface : Ifaces,
             at : {"idle", "info", "claim", "retry", "again", "refused", "status", "commit",
                   "release", "attach", "free", "streams", "close", "down", "up"}]

USE DEF CallType

\* TypeOK in two parts: the URBs, and the rest.
UrbTypes == pending \in 0..MaxOpens /\ done \in Seq(Names)

Types ==
    /\ build \in {"android", "desktop"} /\ claimIoctl \in BOOLEAN /\ fits \in BOOLEAN
    /\ present \in BOOLEAN /\ bound \in [Ifaces -> {"nobody", "driver", "us", "other"}]
    /\ alt \subseteq StreamIfs
    /\ handle \in 0..MaxOpens /\ open \in BOOLEAN /\ auto \in BOOLEAN
    /\ claimed \subseteq Ifaces /\ streams \subseteq StreamIfs /\ flying \in BOOLEAN
    /\ freed \subseteq 1..MaxOpens /\ touched \subseteq freed
    /\ call \in CallType
    /\ others \in 0..MaxOthers /\ events \in 0..MaxEvents
    /\ todo \subseteq Ifaces /\ resetFailed \in BOOLEAN /\ lost \subseteq Ifaces
    /\ taken \subseteq Ifaces /\ leftover \subseteq Ifaces

LEMMA TypeParts == TypeOK <=> UrbTypes /\ Types
    BY Zenon DEF TypeOK, UrbTypes, Types, Names

LEMMA IfaceKinds == Ctrl \in Ifaces /\ StreamIfs \subseteq Ifaces
                    /\ \A i \in Ifaces : i # Ctrl => i \in StreamIfs
    BY DEF Ifaces

\* What the kernel does when interfaces are lost: a URB that waited is killed.
LEMMA Losing ==
    ASSUME UrbTypes, NEW S, LosesInterfaces(S)
    PROVE  /\ alt' = alt \ S
           /\ UrbTypes'
           /\ pending' \in {0, pending}
           /\ \A k \in DOMAIN done' :
                 \/ k \in DOMAIN done /\ done'[k] = done[k]
                 \/ pending # 0 /\ done'[k][1] = pending
<1> USE DEF UrbTypes, LosesInterfaces
<1>1. CASE Ctrl \in S /\ pending # 0
    <2>1. PICK why \in {"killed", "gone"} : done' = Append(done, <<pending, why>>)
        BY <1>1 DEF Ended
    <2>2. <<pending, why>> \in Names
        BY <1>1 DEF Names
    <2>3. /\ done' \in Seq(Names) /\ DOMAIN done = 1..Len(done) /\ DOMAIN done' = 1..(Len(done) + 1)
          /\ \A k \in 1..Len(done) : done'[k] = done[k]
          /\ done'[Len(done) + 1] = <<pending, why>>
        BY <2>1, <2>2, AppendProperties
    <2>4. QED
        BY <1>1, <2>3
<1>2. CASE Ctrl \in S /\ pending = 0
    BY <1>2 DEF Ended
<1>3. CASE Ctrl \notin S
    BY <1>3 DEF urbs
<1>4. QED
    BY <1>1, <1>2, <1>3

\* The oldest URB is taken away.
LEMMA Taking ==
    ASSUME UrbTypes, done # <<>>
    PROVE  /\ Head(done) = done[1] /\ done[1] \in Names /\ 1 \in DOMAIN done
           /\ Tail(done) \in Seq(Names)
           /\ \A k \in DOMAIN Tail(done) : k + 1 \in DOMAIN done /\ Tail(done)[k] = done[k + 1]
    BY HeadTailProperties DEF UrbTypes

\* A URB ends.
LEMMA Adding ==
    ASSUME UrbTypes, NEW e \in Names
    PROVE  /\ Append(done, e) \in Seq(Names)
           /\ \A k \in DOMAIN Append(done, e) :
                 \/ k \in DOMAIN done /\ Append(done, e)[k] = done[k]
                 \/ Append(done, e)[k] = e
<1>1. done \in Seq(Names)
    BY DEF UrbTypes
<1>2. /\ Append(done, e) \in Seq(Names) /\ DOMAIN done = 1..Len(done)
      /\ DOMAIN Append(done, e) = 1..(Len(done) + 1)
      /\ \A k \in 1..Len(done) : Append(done, e)[k] = done[k]
      /\ Append(done, e)[Len(done) + 1] = e
    BY <1>1, AppendProperties
<1>3. QED
    BY <1>1, <1>2

\* Every step preserves the types, but for those of the URBs.
LEMMA TypesStep == UrbTypes /\ Types /\ Calls /\ Handles /\ [Next]_vars => Types'
<1> SUFFICES ASSUME UrbTypes, Types, Calls, Handles, [Next]_vars PROVE Types'
    OBVIOUS
<1> USE DEF Types, fixed, kernel, urbs, devh, reset, ghosts
<1>1. ASSUME NEW i \in Ifaces, OtherTakes(i) PROVE Types'
    BY <1>1, IfaceKinds DEF OtherTakes
<1>2. ASSUME NEW i \in Ifaces, OtherLeaves(i) PROVE Types'
    BY <1>2, IfaceKinds DEF OtherLeaves
<1>3. CASE Unplug
    <2>1. bound' = [i \in Ifaces |-> "nobody"] /\ alt' = alt \ Ifaces
        BY <1>3, Losing DEF Unplug
    <2>2. bound' \in [Ifaces -> {"nobody", "driver", "us", "other"}] /\ alt' \subseteq StreamIfs
        BY <2>1
    <2>3. /\ UNCHANGED <<build, claimIoctl, fits, handle, open, auto, claimed, streams, flying, freed>>
          /\ call' = call /\ UNCHANGED <<todo, resetFailed, lost, others, events, taken, leftover, touched>>
          /\ present' \in BOOLEAN
        BY <1>3 DEF Unplug
    <2>4. QED
        BY <2>2, <2>3
<1>4. CASE StatusPacket
    BY <1>4, IfaceKinds DEF StatusPacket
<1>5. CASE LibusbOpen
    <2>1. call' \in CallType
        BY <1>5, IfaceKinds DEF LibusbOpen
    <2>2. handle' \in 0..MaxOpens
        BY <1>5 DEF LibusbOpen
    <2>3. QED
        BY <1>5, <2>1, <2>2 DEF LibusbOpen
<1>6. ASSUME call.op = "open", Claim("status") PROVE Types'
    BY <1>6, IfaceKinds DEF Claim, ClaimDone, Goes, Grants, GrantsTo
<1>7. ASSUME call.op = "open", ClaimAgain("status") PROVE Types'
    BY <1>7, IfaceKinds DEF ClaimAgain, ClaimDone, Goes, Grants, GrantsTo
<1>8. CASE OpenRefused
    BY <1>8, IfaceKinds DEF OpenRefused, At, Goes
<1>9. CASE NoStatusEndpoint
    BY <1>9, IfaceKinds DEF NoStatusEndpoint, At, NoCall
<1>10. ASSUME call.op = "open", Release("close") PROVE Types'
    BY <1>10, Losing, IfaceKinds DEF Release, Goes
<1>11. ASSUME call.op = "open", Attach("close") PROVE Types'
    BY <1>11, IfaceKinds DEF Attach, Goes
<1>12. ASSUME NEW ok \in BOOLEAN, DeviceInfo(ok) PROVE Types'
    BY <1>12, IfaceKinds DEF DeviceInfo, At, Goes
<1>13. ASSUME NEW ok \in BOOLEAN, SubmitStatus(ok) PROVE Types'
    <2>1. NoCall \in CallType
        BY IfaceKinds DEF NoCall
    <2>2. CASE ok /\ present /\ bound[Ctrl] = "us"
        BY <1>13, <2>1, <2>2 DEF SubmitStatus
    <2>3. CASE ~(ok /\ present /\ bound[Ctrl] = "us")
        BY <1>13, <2>3 DEF SubmitStatus, Goes
    <2>4. QED
        BY <2>2, <2>3
<1>14. CASE ClaimRetry
    BY <1>14, Losing, IfaceKinds DEF ClaimRetry, Retries, Goes
<1>15. ASSUME NEW i \in StreamIfs, OpenStream(i) PROVE Types'
    BY <1>15, IfaceKinds DEF OpenStream, NoCall
<1>16. ASSUME NEW i \in StreamIfs, SelectAltsetting(i) PROVE Types'
    BY <1>16, IfaceKinds DEF SelectAltsetting, NoCall
<1>17. ASSUME NEW i \in StreamIfs, CloseStream(i) PROVE Types'
    BY <1>17, IfaceKinds DEF CloseStream, At, NoCall, ReleasedFirst
<1>18. ASSUME call.op = "stream", Claim("commit") PROVE Types'
    BY <1>18, IfaceKinds DEF Claim, ClaimDone, Goes, Grants, GrantsTo
<1>19. ASSUME call.op = "stream", ClaimAgain("commit") PROVE Types'
    BY <1>19, IfaceKinds DEF ClaimAgain, ClaimDone, Goes, Grants, GrantsTo
<1>20. CASE StreamRefused
    BY <1>20, IfaceKinds DEF StreamRefused, At, NoCall
<1>21. ASSUME call.op \in {"stop", "close"}, call.iface # Ctrl, Release("free") PROVE Types'
    BY <1>21, Losing, IfaceKinds DEF Release, Goes
<1>22. ASSUME call.op \in {"stop", "close"}, call.iface # Ctrl, Attach("free") PROVE Types'
    BY <1>22, IfaceKinds DEF Attach, Goes
<1>23. CASE FreeStream
    BY <1>23, IfaceKinds DEF FreeStream, NoCall
<1>24. ASSUME NEW ok \in BOOLEAN, Commit(ok) PROVE Types'
    <2>1. call.iface \in StreamIfs /\ call.iface \in Ifaces
        BY <1>24, IfaceKinds DEF Commit, At, Calls, NoCall
    <2>2. NoCall \in CallType
        BY IfaceKinds DEF NoCall
    <2>3. QED
        BY <1>24, <2>1, <2>2 DEF Commit
<1>25. CASE CloseCamera
    BY <1>25, IfaceKinds DEF CloseCamera, NoCall
<1>26. CASE StreamsClosed
    BY <1>26, IfaceKinds DEF StreamsClosed, At, Goes
<1>27. ASSUME call.op = "close", call.iface = Ctrl, Release("close") PROVE Types'
    BY <1>27, Losing, IfaceKinds DEF Release, Goes
<1>28. ASSUME call.op = "close", call.iface = Ctrl, Attach("close") PROVE Types'
    BY <1>28, IfaceKinds DEF Attach, Goes
<1>29. CASE CloseHandle
    <2>1. NoCall \in CallType
        BY IfaceKinds DEF NoCall
    <2>2. bound' \in [Ifaces -> {"nobody", "driver", "us", "other"}] /\ alt' \subseteq StreamIfs
        BY <1>29 DEF CloseHandle
    <2>3. call # NoCall
        BY <1>29 DEF CloseHandle, NoCall
    <2>4. handle \in 1..MaxOpens
        BY <1>29, <2>3 DEF CloseHandle, Handles, Calls
    <2>5. freed' \subseteq 1..MaxOpens /\ touched' \subseteq freed'
        BY <1>29, <2>4 DEF CloseHandle
    <2>6. UNCHANGED <<build, claimIoctl, fits, present, handle, todo, resetFailed, lost, others, events,
                      taken, leftover>>
          /\ open' = FALSE /\ auto' = FALSE /\ claimed' = {} /\ streams' = {} /\ flying' = FALSE
          /\ call' = NoCall
        BY <1>29 DEF CloseHandle
    <2>7. QED
        BY <2>1, <2>2, <2>5, <2>6
<1>30. CASE ResetDevice
    BY <1>30, IfaceKinds DEF ResetDevice, At
<1>31. ASSUME NEW i \in Ifaces, ResetReleases(i) PROVE Types'
    <2>1. bound' \in [Ifaces -> {"nobody", "driver", "us", "other"}] /\ alt' \subseteq StreamIfs
        BY <1>31, Losing DEF ResetReleases
    <2>2. /\ UNCHANGED <<build, claimIoctl, fits, present, handle, open, auto, claimed, streams, flying>>
          /\ call' = call
          /\ UNCHANGED <<freed, resetFailed, lost, others, events, taken, leftover, touched>>
          /\ todo' \subseteq Ifaces
        BY <1>31 DEF ResetReleases
    <2>3. QED
        BY <2>1, <2>2
<1>32. CASE DeviceReset
    <2>1. bound' \in [Ifaces -> {"nobody", "driver", "us", "other"}] /\ alt' \subseteq StreamIfs
        BY <1>32, Losing DEF DeviceReset
    <2>2. call' \in CallType
        BY <1>32 DEF DeviceReset, Goes
    <2>3. /\ UNCHANGED <<build, claimIoctl, fits, present, handle, open, auto, claimed, streams, flying>>
          /\ UNCHANGED <<freed, lost, others, events, taken, leftover, touched>>
          /\ todo' = claimed /\ resetFailed' = FALSE
        BY <1>32 DEF DeviceReset
    <2>4. todo' \subseteq Ifaces /\ resetFailed' \in BOOLEAN
        BY <2>3
    <2>5. QED
        BY <2>1, <2>2, <2>3, <2>4
<1>33. CASE ResetFails
    BY <1>33, IfaceKinds DEF ResetFails, At, NoCall
<1>34. ASSUME NEW i \in Ifaces, ResetReclaims(i) PROVE Types'
    <2>1. bound' \in [Ifaces -> {"nobody", "driver", "us", "other"}]
        BY <1>34 DEF ResetReclaims
    <2>2. claimed' \subseteq Ifaces /\ lost' \subseteq Ifaces /\ todo' \subseteq Ifaces
        BY <1>34 DEF ResetReclaims, Reclaimed
    <2>3. /\ UNCHANGED <<build, claimIoctl, fits, present, alt, handle, open, auto, streams, flying>>
          /\ call' = call /\ UNCHANGED <<freed, resetFailed, others, events, taken, leftover, touched>>
        BY <1>34 DEF ResetReclaims
    <2>4. QED
        BY <2>1, <2>2, <2>3
<1>35. CASE ResetReturns
    BY <1>35, IfaceKinds DEF ResetReturns, At, NoCall
<1>36. CASE Reap
    <2>1. bound' \in [Ifaces -> {"nobody", "driver", "us", "other"}] /\ leftover' \subseteq Ifaces
        BY <1>36, IfaceKinds DEF Reap
    <2>2. flying' \in BOOLEAN
        BY <1>36 DEF Reap
    <2>3. touched' \subseteq freed'
        BY <1>36 DEF Reap
    <2>4. QED
        BY <1>36, <2>1, <2>2, <2>3 DEF Reap
<1>37. CASE UNCHANGED vars
    BY <1>37, IfaceKinds DEF vars
<1>38. QED
    BY <1>1, <1>2, <1>3, <1>4, <1>5, <1>6, <1>7, <1>8, <1>9, <1>10, <1>11, <1>12, <1>13, <1>14,
        <1>15, <1>16, <1>17, <1>18, <1>19, <1>20, <1>21, <1>22, <1>23, <1>24, <1>25, <1>26,
        <1>27, <1>28, <1>29, <1>30, <1>31, <1>32, <1>33, <1>34, <1>35, <1>36, <1>37
    DEF Next, KernelStep, OpenStep, StreamStep, CloseStep, ResetStep, OpenClaims, OpenReleases,
        StreamClaims, StreamReleases, CloseReleases

\* And it preserves the types of the URBs.
LEMMA UrbTypesStep == UrbTypes /\ Types /\ Calls /\ Handles /\ [Next]_vars => UrbTypes'
<1> SUFFICES ASSUME UrbTypes, Types, Calls, Handles, [Next]_vars PROVE UrbTypes'
    OBVIOUS
<1> USE DEF UrbTypes, fixed, kernel, urbs, devh, reset, ghosts
<1>1. ASSUME NEW i \in Ifaces, OtherTakes(i) PROVE UrbTypes'
    BY <1>1 DEF OtherTakes
<1>2. ASSUME NEW i \in Ifaces, OtherLeaves(i) PROVE UrbTypes'
    BY <1>2 DEF OtherLeaves
<1>3. CASE Unplug
    BY <1>3, Losing DEF Unplug, Goes
<1>4. CASE StatusPacket
    <2>1. <<pending, "event">> \in Names
        BY <1>4 DEF StatusPacket, Names
    <2>2. QED
        BY <1>4, <2>1, Adding DEF StatusPacket
<1>5. CASE LibusbOpen
    BY <1>5 DEF LibusbOpen, NoCall
<1>6. ASSUME call.op = "open", Claim("status") PROVE UrbTypes'
    BY <1>6 DEF Claim, ClaimDone, Goes, Grants, GrantsTo
<1>7. ASSUME call.op = "open", ClaimAgain("status") PROVE UrbTypes'
    BY <1>7 DEF ClaimAgain, ClaimDone, Goes, Grants, GrantsTo
<1>8. CASE OpenRefused
    BY <1>8 DEF OpenRefused, At, Goes
<1>9. CASE NoStatusEndpoint
    BY <1>9 DEF NoStatusEndpoint, At, NoCall
<1>10. ASSUME call.op = "open", Release("close") PROVE UrbTypes'
    BY <1>10, Losing DEF Release, Goes
<1>11. ASSUME call.op = "open", Attach("close") PROVE UrbTypes'
    BY <1>11 DEF Attach, Goes
<1>12. ASSUME NEW ok \in BOOLEAN, DeviceInfo(ok) PROVE UrbTypes'
    BY <1>12 DEF DeviceInfo, At, Goes
<1>13. ASSUME NEW ok \in BOOLEAN, SubmitStatus(ok) PROVE UrbTypes'
    <2>1. open
        BY <1>13 DEF SubmitStatus, At, Calls, NoCall
    <2>2. handle \in 0..MaxOpens
        BY DEF Types
    <2>3. QED
        BY <1>13, <2>1, <2>2 DEF SubmitStatus
<1>14. CASE ClaimRetry
    BY <1>14, Losing DEF ClaimRetry, Goes
<1>15. ASSUME NEW i \in StreamIfs, OpenStream(i) PROVE UrbTypes'
    BY <1>15 DEF OpenStream, NoCall
<1>16. ASSUME NEW i \in StreamIfs, SelectAltsetting(i) PROVE UrbTypes'
    BY <1>16 DEF SelectAltsetting, NoCall
<1>17. ASSUME NEW i \in StreamIfs, CloseStream(i) PROVE UrbTypes'
    BY <1>17 DEF CloseStream, At, NoCall, ReleasedFirst
<1>18. ASSUME call.op = "stream", Claim("commit") PROVE UrbTypes'
    BY <1>18 DEF Claim, ClaimDone, Goes, Grants, GrantsTo
<1>19. ASSUME call.op = "stream", ClaimAgain("commit") PROVE UrbTypes'
    BY <1>19 DEF ClaimAgain, ClaimDone, Goes, Grants, GrantsTo
<1>20. CASE StreamRefused
    BY <1>20 DEF StreamRefused, At, NoCall
<1>21. ASSUME call.op \in {"stop", "close"}, call.iface # Ctrl, Release("free") PROVE UrbTypes'
    BY <1>21, Losing DEF Release, Goes
<1>22. ASSUME call.op \in {"stop", "close"}, call.iface # Ctrl, Attach("free") PROVE UrbTypes'
    BY <1>22 DEF Attach, Goes
<1>23. CASE FreeStream
    BY <1>23 DEF FreeStream, NoCall
<1>24. ASSUME NEW ok \in BOOLEAN, Commit(ok) PROVE UrbTypes'
    BY <1>24 DEF Commit, At, NoCall
<1>25. CASE CloseCamera
    BY <1>25 DEF CloseCamera, NoCall
<1>26. CASE StreamsClosed
    BY <1>26 DEF StreamsClosed, At, Goes
<1>27. ASSUME call.op = "close", call.iface = Ctrl, Release("close") PROVE UrbTypes'
    BY <1>27, Losing DEF Release, Goes
<1>28. ASSUME call.op = "close", call.iface = Ctrl, Attach("close") PROVE UrbTypes'
    BY <1>28 DEF Attach, Goes
<1>29. CASE CloseHandle
    <2>1. <<>> \in Seq(Names)
        OBVIOUS
    <2>2. CASE ClosesFile
        BY <1>29, <2>1, <2>2 DEF CloseHandle
    <2>3. CASE ~ClosesFile
        BY <1>29, <2>3 DEF CloseHandle
    <2>4. QED
        BY <2>2, <2>3
<1>30. CASE ResetDevice
    BY <1>30 DEF ResetDevice, At
<1>31. ASSUME NEW i \in Ifaces, ResetReleases(i) PROVE UrbTypes'
    BY <1>31, Losing DEF ResetReleases, At
<1>32. CASE DeviceReset
    BY <1>32, Losing DEF DeviceReset, At, Goes
<1>33. CASE ResetFails
    BY <1>33 DEF ResetFails, At
<1>34. ASSUME NEW i \in Ifaces, ResetReclaims(i) PROVE UrbTypes'
    BY <1>34 DEF ResetReclaims, Reclaimed, At, GrantsTo
<1>35. CASE ResetReturns
    BY <1>35 DEF ResetReturns, At
<1>36. CASE Reap
    <2>1. Head(done) \in Names /\ Tail(done) \in Seq(Names) /\ Head(done)[1] \in 0..MaxOpens
        BY <1>36, Taking DEF Reap, Names
    <2>2. done' = Tail(done) /\ pending' \in {pending, Head(done)[1]}
        BY <1>36 DEF Reap
    <2>3. QED
        BY <2>1, <2>2
<1>37. CASE UNCHANGED vars
    BY <1>37 DEF vars
<1>38. QED
    BY <1>1, <1>2, <1>3, <1>4, <1>5, <1>6, <1>7, <1>8, <1>9, <1>10, <1>11, <1>12, <1>13, <1>14,
        <1>15, <1>16, <1>17, <1>18, <1>19, <1>20, <1>21, <1>22, <1>23, <1>24, <1>25, <1>26,
        <1>27, <1>28, <1>29, <1>30, <1>31, <1>32, <1>33, <1>34, <1>35, <1>36, <1>37
    DEF Next, KernelStep, OpenStep, StreamStep, CloseStep, ResetStep, OpenClaims, OpenReleases,
        StreamClaims, StreamReleases, CloseReleases

\* A call stays in its places, and belongs to the open handle.
LEMMA CallsStep == Types /\ Calls /\ Handles /\ [Next]_vars => Calls'
<1> SUFFICES ASSUME Types, Calls, Handles, [Next]_vars PROVE Calls'
    OBVIOUS
<1> USE DEF Types, Calls, OnControl, OnStream, OnFree, OnClose, NoCall, fixed, kernel, urbs,
            devh, reset, ghosts
<1>1. ASSUME NEW i \in Ifaces, OtherTakes(i) PROVE Calls'
    BY <1>1, IfaceKinds DEF OtherTakes
<1>2. ASSUME NEW i \in Ifaces, OtherLeaves(i) PROVE Calls'
    BY <1>2, IfaceKinds DEF OtherLeaves
<1>3. CASE Unplug
    BY <1>3, IfaceKinds DEF Unplug
<1>4. CASE StatusPacket
    BY <1>4, IfaceKinds DEF StatusPacket
<1>5. CASE LibusbOpen
    BY <1>5, IfaceKinds DEF LibusbOpen
<1>6. ASSUME call.op = "open", Claim("status") PROVE Calls'
    BY <1>6, IfaceKinds DEF Claim, ClaimDone, Goes, Grants, GrantsTo
<1>7. ASSUME call.op = "open", ClaimAgain("status") PROVE Calls'
    BY <1>7, IfaceKinds DEF ClaimAgain, ClaimDone, Goes, Grants, GrantsTo
<1>8. CASE OpenRefused
    BY <1>8, IfaceKinds DEF OpenRefused, At, Goes
<1>9. CASE NoStatusEndpoint
    BY <1>9, IfaceKinds DEF NoStatusEndpoint, At
<1>10. ASSUME call.op = "open", Release("close") PROVE Calls'
    BY <1>10, IfaceKinds DEF Release, Goes
<1>11. ASSUME call.op = "open", Attach("close") PROVE Calls'
    BY <1>11, IfaceKinds DEF Attach, Goes
<1>12. ASSUME NEW ok \in BOOLEAN, DeviceInfo(ok) PROVE Calls'
    BY <1>12, IfaceKinds DEF DeviceInfo, At, Goes
<1>13. ASSUME NEW ok \in BOOLEAN, SubmitStatus(ok) PROVE Calls'
    BY <1>13, IfaceKinds DEF SubmitStatus, At, Goes
<1>14. CASE ClaimRetry
    BY <1>14, IfaceKinds DEF ClaimRetry, Retries, Goes
<1>15. ASSUME NEW i \in StreamIfs, OpenStream(i) PROVE Calls'
    BY <1>15, IfaceKinds DEF OpenStream
<1>16. ASSUME NEW i \in StreamIfs, SelectAltsetting(i) PROVE Calls'
    BY <1>16, IfaceKinds DEF SelectAltsetting
<1>17. ASSUME NEW i \in StreamIfs, CloseStream(i) PROVE Calls'
    <2>1. CASE call = NoCall /\ call' = [op |-> "stop", iface |-> i, at |-> "release"]
        BY <1>17, <2>1, IfaceKinds DEF CloseStream, Handles
    <2>2. CASE At("close", "streams") /\ call' = [op |-> "close", iface |-> i, at |-> "release"]
        BY <1>17, <2>2, IfaceKinds DEF CloseStream, At
    <2>3. QED
        BY <1>17, <2>1, <2>2 DEF CloseStream, ReleasedFirst
<1>18. ASSUME call.op = "stream", Claim("commit") PROVE Calls'
    BY <1>18, IfaceKinds DEF Claim, ClaimDone, Goes, Grants, GrantsTo
<1>19. ASSUME call.op = "stream", ClaimAgain("commit") PROVE Calls'
    BY <1>19, IfaceKinds DEF ClaimAgain, ClaimDone, Goes, Grants, GrantsTo
<1>20. CASE StreamRefused
    BY <1>20, IfaceKinds DEF StreamRefused, At
<1>21. ASSUME call.op \in {"stop", "close"}, call.iface # Ctrl, Release("free") PROVE Calls'
    BY <1>21, IfaceKinds DEF Release, Goes
<1>22. ASSUME call.op \in {"stop", "close"}, call.iface # Ctrl, Attach("free") PROVE Calls'
    BY <1>22, IfaceKinds DEF Attach, Goes
<1>23. CASE FreeStream
    BY <1>23, IfaceKinds DEF FreeStream
<1>24. ASSUME NEW ok \in BOOLEAN, Commit(ok) PROVE Calls'
    BY <1>24, IfaceKinds DEF Commit, At
<1>25. CASE CloseCamera
    BY <1>25, IfaceKinds DEF CloseCamera
<1>26. CASE StreamsClosed
    BY <1>26, IfaceKinds DEF StreamsClosed, At, Goes
<1>27. ASSUME call.op = "close", call.iface = Ctrl, Release("close") PROVE Calls'
    BY <1>27, IfaceKinds DEF Release, Goes
<1>28. ASSUME call.op = "close", call.iface = Ctrl, Attach("close") PROVE Calls'
    BY <1>28, IfaceKinds DEF Attach, Goes
<1>29. CASE CloseHandle
    BY <1>29, IfaceKinds DEF CloseHandle, ClosesFile
<1>30. CASE ResetDevice
    BY <1>30, IfaceKinds DEF ResetDevice, At
<1>31. ASSUME NEW i \in Ifaces, ResetReleases(i) PROVE Calls'
    BY <1>31, IfaceKinds DEF ResetReleases, At
<1>32. CASE DeviceReset
    BY <1>32, IfaceKinds DEF DeviceReset, At, Goes
<1>33. CASE ResetFails
    BY <1>33, IfaceKinds DEF ResetFails, At
<1>34. ASSUME NEW i \in Ifaces, ResetReclaims(i) PROVE Calls'
    BY <1>34, IfaceKinds DEF ResetReclaims, Reclaimed, At, GrantsTo
<1>35. CASE ResetReturns
    BY <1>35, IfaceKinds DEF ResetReturns, At
<1>36. CASE Reap
    BY <1>36, IfaceKinds DEF Reap, Resubmits
<1>37. CASE UNCHANGED vars
    BY <1>37, IfaceKinds DEF vars
<1>38. QED
    BY <1>1, <1>2, <1>3, <1>4, <1>5, <1>6, <1>7, <1>8, <1>9, <1>10, <1>11, <1>12, <1>13, <1>14,
        <1>15, <1>16, <1>17, <1>18, <1>19, <1>20, <1>21, <1>22, <1>23, <1>24, <1>25, <1>26,
        <1>27, <1>28, <1>29, <1>30, <1>31, <1>32, <1>33, <1>34, <1>35, <1>36, <1>37
    DEF Next, KernelStep, OpenStep, StreamStep, CloseStep, ResetStep, OpenClaims, OpenReleases,
        StreamClaims, StreamReleases, CloseReleases

\* A handle is freed when it is closed, and with it its claims and streams.
LEMMA HandlesStep == Types /\ Calls /\ Handles /\ [Next]_vars => Handles'
<1> SUFFICES ASSUME Types, Calls, Handles, [Next]_vars PROVE Handles'
    OBVIOUS
<1> USE DEF Types, Handles, NoCall, fixed, kernel, urbs, devh, reset, ghosts
<1>1. ASSUME NEW i \in Ifaces, OtherTakes(i) PROVE Handles'
    BY <1>1 DEF OtherTakes
<1>2. ASSUME NEW i \in Ifaces, OtherLeaves(i) PROVE Handles'
    BY <1>2 DEF OtherLeaves
<1>3. CASE Unplug
    BY <1>3 DEF Unplug
<1>4. CASE StatusPacket
    BY <1>4 DEF StatusPacket
<1>5. CASE LibusbOpen
    BY <1>5 DEF LibusbOpen
<1>6. ASSUME call.op = "open", Claim("status") PROVE Handles'
    <2>1. open
        BY <1>6 DEF Claim, Calls
    <2>2. open' = open /\ freed' = freed /\ handle' = handle
        BY <1>6 DEF Claim, ClaimDone
    <2>3. QED
        BY <2>1, <2>2
<1>7. ASSUME call.op = "open", ClaimAgain("status") PROVE Handles'
    <2>1. open
        BY <1>7 DEF ClaimAgain, Calls
    <2>2. open' = open /\ freed' = freed /\ handle' = handle
        BY <1>7 DEF ClaimAgain, ClaimDone
    <2>3. QED
        BY <2>1, <2>2
<1>8. CASE OpenRefused
    BY <1>8 DEF OpenRefused, At, Goes
<1>9. CASE NoStatusEndpoint
    BY <1>9 DEF NoStatusEndpoint, At
<1>10. ASSUME call.op = "open", Release("close") PROVE Handles'
    BY <1>10 DEF Release, Goes
<1>11. ASSUME call.op = "open", Attach("close") PROVE Handles'
    BY <1>11 DEF Attach, Goes
<1>12. ASSUME NEW ok \in BOOLEAN, DeviceInfo(ok) PROVE Handles'
    BY <1>12 DEF DeviceInfo, At, Goes
<1>13. ASSUME NEW ok \in BOOLEAN, SubmitStatus(ok) PROVE Handles'
    BY <1>13 DEF SubmitStatus, At, Goes
<1>14. CASE ClaimRetry
    BY <1>14 DEF ClaimRetry, Retries, Goes
<1>15. ASSUME NEW i \in StreamIfs, OpenStream(i) PROVE Handles'
    BY <1>15 DEF OpenStream
<1>16. ASSUME NEW i \in StreamIfs, SelectAltsetting(i) PROVE Handles'
    BY <1>16 DEF SelectAltsetting
<1>17. ASSUME NEW i \in StreamIfs, CloseStream(i) PROVE Handles'
    BY <1>17 DEF CloseStream, At, ReleasedFirst
<1>18. ASSUME call.op = "stream", Claim("commit") PROVE Handles'
    <2>1. open
        BY <1>18 DEF Claim, Calls
    <2>2. open' = open /\ freed' = freed /\ handle' = handle
        BY <1>18 DEF Claim, ClaimDone
    <2>3. QED
        BY <2>1, <2>2
<1>19. ASSUME call.op = "stream", ClaimAgain("commit") PROVE Handles'
    <2>1. open
        BY <1>19 DEF ClaimAgain, Calls
    <2>2. open' = open /\ freed' = freed /\ handle' = handle
        BY <1>19 DEF ClaimAgain, ClaimDone
    <2>3. QED
        BY <2>1, <2>2
<1>20. CASE StreamRefused
    BY <1>20 DEF StreamRefused, At
<1>21. ASSUME call.op \in {"stop", "close"}, call.iface # Ctrl, Release("free") PROVE Handles'
    BY <1>21 DEF Release, Goes
<1>22. ASSUME call.op \in {"stop", "close"}, call.iface # Ctrl, Attach("free") PROVE Handles'
    BY <1>22 DEF Attach, Goes
<1>23. CASE FreeStream
    BY <1>23 DEF FreeStream
<1>24. ASSUME NEW ok \in BOOLEAN, Commit(ok) PROVE Handles'
    <2>1. open
        BY <1>24 DEF Commit, At, Calls
    <2>2. open' = open /\ freed' = freed /\ handle' = handle
        BY <1>24 DEF Commit
    <2>3. QED
        BY <2>1, <2>2
<1>25. CASE CloseCamera
    BY <1>25 DEF CloseCamera
<1>26. CASE StreamsClosed
    BY <1>26 DEF StreamsClosed, At, Goes
<1>27. ASSUME call.op = "close", call.iface = Ctrl, Release("close") PROVE Handles'
    BY <1>27 DEF Release, Goes
<1>28. ASSUME call.op = "close", call.iface = Ctrl, Attach("close") PROVE Handles'
    BY <1>28 DEF Attach, Goes
<1>29. CASE CloseHandle
    <2>1. open /\ handle \in Nat /\ handle > 0
        BY <1>29 DEF CloseHandle, Calls
    <2>2. 1..handle = 1..(handle - 1) \cup {handle}
        BY <2>1
    <2>3. QED
        BY <1>29, <2>1, <2>2 DEF CloseHandle
<1>30. CASE ResetDevice
    BY <1>30 DEF ResetDevice, At
<1>31. ASSUME NEW i \in Ifaces, ResetReleases(i) PROVE Handles'
    BY <1>31 DEF ResetReleases, At
<1>32. CASE DeviceReset
    BY <1>32 DEF DeviceReset, At, Goes
<1>33. CASE ResetFails
    BY <1>33 DEF ResetFails, At
<1>34. ASSUME NEW i \in Ifaces, ResetReclaims(i) PROVE Handles'
    BY <1>34 DEF ResetReclaims, Reclaimed, At, GrantsTo
<1>35. CASE ResetReturns
    BY <1>35 DEF ResetReturns, At
<1>36. CASE Reap
    BY <1>36 DEF Reap, Resubmits
<1>37. CASE UNCHANGED vars
    BY <1>37 DEF vars
<1>38. QED
    BY <1>1, <1>2, <1>3, <1>4, <1>5, <1>6, <1>7, <1>8, <1>9, <1>10, <1>11, <1>12, <1>13, <1>14,
        <1>15, <1>16, <1>17, <1>18, <1>19, <1>20, <1>21, <1>22, <1>23, <1>24, <1>25, <1>26,
        <1>27, <1>28, <1>29, <1>30, <1>31, <1>32, <1>33, <1>34, <1>35, <1>36, <1>37
    DEF Next, KernelStep, OpenStep, StreamStep, CloseStep, ResetStep, OpenClaims, OpenReleases,
        StreamClaims, StreamReleases, CloseReleases

\* What a call knows of claims and streams stays true: the interface of a stream is released
\* before its stream is freed.
LEMMA StreamsStep == Types /\ Calls /\ Handles /\ Streams /\ [Next]_vars => Streams'
<1> SUFFICES ASSUME Types, Calls, Handles, Streams, [Next]_vars PROVE Streams'
    OBVIOUS
<1> USE DEF Types, Calls, Handles, Streams, OnControl, OnStream, OnFree, OnClose, NoCall, fixed,
            kernel, urbs, devh, reset, ghosts
<1>1. ASSUME NEW i \in Ifaces, OtherTakes(i) PROVE Streams'
    BY <1>1 DEF OtherTakes
<1>2. ASSUME NEW i \in Ifaces, OtherLeaves(i) PROVE Streams'
    BY <1>2 DEF OtherLeaves
<1>3. CASE Unplug
    BY <1>3 DEF Unplug
<1>4. CASE StatusPacket
    BY <1>4 DEF StatusPacket
<1>5. CASE LibusbOpen
    BY <1>5 DEF LibusbOpen
<1>6. ASSUME call.op = "open", Claim("status") PROVE Streams'
    BY <1>6 DEF Claim, ClaimDone, Goes, Grants, GrantsTo
<1>7. ASSUME call.op = "open", ClaimAgain("status") PROVE Streams'
    BY <1>7 DEF ClaimAgain, ClaimDone, Goes, Grants, GrantsTo
<1>8. CASE OpenRefused
    BY <1>8 DEF OpenRefused, At, Goes
<1>9. CASE NoStatusEndpoint
    BY <1>9 DEF NoStatusEndpoint, At
<1>10. ASSUME call.op = "open", Release("close") PROVE Streams'
    BY <1>10 DEF Release, Goes
<1>11. ASSUME call.op = "open", Attach("close") PROVE Streams'
    BY <1>11 DEF Attach, Goes
<1>12. ASSUME NEW ok \in BOOLEAN, DeviceInfo(ok) PROVE Streams'
    BY <1>12 DEF DeviceInfo, At, Goes
<1>13. ASSUME NEW ok \in BOOLEAN, SubmitStatus(ok) PROVE Streams'
    BY <1>13 DEF SubmitStatus, At, Goes
<1>14. CASE ClaimRetry
    BY <1>14 DEF ClaimRetry, Retries, Goes
<1>15. ASSUME NEW i \in StreamIfs, OpenStream(i) PROVE Streams'
    BY <1>15 DEF OpenStream
<1>16. ASSUME NEW i \in StreamIfs, SelectAltsetting(i) PROVE Streams'
    BY <1>16 DEF SelectAltsetting
<1>17. ASSUME NEW i \in StreamIfs, CloseStream(i) PROVE Streams'
    BY <1>17 DEF CloseStream, At, ReleasedFirst
<1>18. ASSUME call.op = "stream", Claim("commit") PROVE Streams'
    BY <1>18 DEF Claim, ClaimDone, Goes, Grants, GrantsTo
<1>19. ASSUME call.op = "stream", ClaimAgain("commit") PROVE Streams'
    BY <1>19 DEF ClaimAgain, ClaimDone, Goes, Grants, GrantsTo
<1>20. CASE StreamRefused
    BY <1>20 DEF StreamRefused, At
<1>21. ASSUME call.op \in {"stop", "close"}, call.iface # Ctrl, Release("free") PROVE Streams'
    BY <1>21 DEF Release, Goes
<1>22. ASSUME call.op \in {"stop", "close"}, call.iface # Ctrl, Attach("free") PROVE Streams'
    BY <1>22 DEF Attach, Goes
<1>23. CASE FreeStream
    BY <1>23 DEF FreeStream
<1>24. ASSUME NEW ok \in BOOLEAN, Commit(ok) PROVE Streams'
    BY <1>24 DEF Commit, At
<1>25. CASE CloseCamera
    BY <1>25 DEF CloseCamera
<1>26. CASE StreamsClosed
    BY <1>26 DEF StreamsClosed, At, Goes
<1>27. ASSUME call.op = "close", call.iface = Ctrl, Release("close") PROVE Streams'
    BY <1>27 DEF Release, Goes
<1>28. ASSUME call.op = "close", call.iface = Ctrl, Attach("close") PROVE Streams'
    BY <1>28 DEF Attach, Goes
<1>29. CASE CloseHandle
    BY <1>29 DEF CloseHandle, ClosesFile
<1>30. CASE ResetDevice
    BY <1>30 DEF ResetDevice, At
<1>31. ASSUME NEW i \in Ifaces, ResetReleases(i) PROVE Streams'
    BY <1>31 DEF ResetReleases, At
<1>32. CASE DeviceReset
    BY <1>32 DEF DeviceReset, At, Goes
<1>33. CASE ResetFails
    BY <1>33 DEF ResetFails, At
<1>34. ASSUME NEW i \in Ifaces, ResetReclaims(i) PROVE Streams'
    BY <1>34 DEF ResetReclaims, Reclaimed, At, GrantsTo
<1>35. CASE ResetReturns
    BY <1>35 DEF ResetReturns, At
<1>36. CASE Reap
    BY <1>36 DEF Reap, Resubmits
<1>37. CASE UNCHANGED vars
    BY <1>37 DEF vars
<1>38. QED
    BY <1>1, <1>2, <1>3, <1>4, <1>5, <1>6, <1>7, <1>8, <1>9, <1>10, <1>11, <1>12, <1>13, <1>14,
        <1>15, <1>16, <1>17, <1>18, <1>19, <1>20, <1>21, <1>22, <1>23, <1>24, <1>25, <1>26,
        <1>27, <1>28, <1>29, <1>30, <1>31, <1>32, <1>33, <1>34, <1>35, <1>36, <1>37
    DEF Next, KernelStep, OpenStep, StreamStep, CloseStep, ResetStep, OpenClaims, OpenReleases,
        StreamClaims, StreamReleases, CloseReleases

\* A stream that is freed has no bandwidth any more: the release of its interface took it.
LEMMA BandwidthStep ==
    UrbTypes /\ Types /\ Calls /\ Handles /\ Streams /\ Bandwidth /\ [Next]_vars => Bandwidth'
<1> SUFFICES ASSUME UrbTypes, Types, Calls, Handles, Streams, Bandwidth, [Next]_vars
             PROVE Bandwidth'
    OBVIOUS
<1> USE DEF At, Goes, Types, Calls, Handles, Streams, Bandwidth, OnControl, OnStream, OnFree, OnClose,
            NoCall, fixed, kernel, urbs, devh, reset, ghosts
<1>1. ASSUME NEW i \in Ifaces, OtherTakes(i) PROVE Bandwidth'
    BY <1>1 DEF OtherTakes
<1>2. ASSUME NEW i \in Ifaces, OtherLeaves(i) PROVE Bandwidth'
    BY <1>2 DEF OtherLeaves
<1>3. CASE Unplug
    BY <1>3, Losing DEF Unplug
<1>4. CASE StatusPacket
    BY <1>4 DEF StatusPacket
<1>5. CASE LibusbOpen
    BY <1>5 DEF LibusbOpen
<1>6. ASSUME call.op = "open", Claim("status") PROVE Bandwidth'
    BY <1>6 DEF Claim, ClaimDone, Goes, Grants, GrantsTo
<1>7. ASSUME call.op = "open", ClaimAgain("status") PROVE Bandwidth'
    BY <1>7 DEF ClaimAgain, ClaimDone, Goes, Grants, GrantsTo
<1>8. CASE OpenRefused
    BY <1>8 DEF OpenRefused, At, Goes
<1>9. CASE NoStatusEndpoint
    BY <1>9 DEF NoStatusEndpoint, At
<1>10. ASSUME call.op = "open", Release("close") PROVE Bandwidth'
    BY <1>10, Losing DEF Release, Goes
<1>11. ASSUME call.op = "open", Attach("close") PROVE Bandwidth'
    BY <1>11 DEF Attach, Goes
<1>12. ASSUME NEW ok \in BOOLEAN, DeviceInfo(ok) PROVE Bandwidth'
    BY <1>12 DEF DeviceInfo, At, Goes
<1>13. ASSUME NEW ok \in BOOLEAN, SubmitStatus(ok) PROVE Bandwidth'
    BY <1>13 DEF SubmitStatus, At, Goes
<1>14. CASE ClaimRetry
    BY <1>14, Losing DEF ClaimRetry, Retries, Goes
<1>15. ASSUME NEW i \in StreamIfs, OpenStream(i) PROVE Bandwidth'
    BY <1>15 DEF OpenStream
<1>16. ASSUME NEW i \in StreamIfs, SelectAltsetting(i) PROVE Bandwidth'
    BY <1>16 DEF SelectAltsetting
<1>17. ASSUME NEW i \in StreamIfs, CloseStream(i) PROVE Bandwidth'
    BY <1>17 DEF CloseStream, At, ReleasedFirst
<1>18. ASSUME call.op = "stream", Claim("commit") PROVE Bandwidth'
    BY <1>18 DEF Claim, ClaimDone, Goes, Grants, GrantsTo
<1>19. ASSUME call.op = "stream", ClaimAgain("commit") PROVE Bandwidth'
    BY <1>19 DEF ClaimAgain, ClaimDone, Goes, Grants, GrantsTo
<1>20. CASE StreamRefused
    BY <1>20 DEF StreamRefused, At
<1>21. ASSUME call.op \in {"stop", "close"}, call.iface # Ctrl, Release("free") PROVE Bandwidth'
    BY <1>21, Losing DEF Release, Goes
<1>22. ASSUME call.op \in {"stop", "close"}, call.iface # Ctrl, Attach("free") PROVE Bandwidth'
    BY <1>22 DEF Attach, Goes
<1>23. CASE FreeStream
    BY <1>23 DEF FreeStream
<1>24. ASSUME NEW ok \in BOOLEAN, Commit(ok) PROVE Bandwidth'
    BY <1>24 DEF Commit, At
<1>25. CASE CloseCamera
    BY <1>25 DEF CloseCamera
<1>26. CASE StreamsClosed
    BY <1>26 DEF StreamsClosed, At, Goes
<1>27. ASSUME call.op = "close", call.iface = Ctrl, Release("close") PROVE Bandwidth'
    BY <1>27, Losing DEF Release, Goes
<1>28. ASSUME call.op = "close", call.iface = Ctrl, Attach("close") PROVE Bandwidth'
    BY <1>28 DEF Attach, Goes
<1>29. CASE CloseHandle
    BY <1>29 DEF CloseHandle, ClosesFile
<1>30. CASE ResetDevice
    BY <1>30 DEF ResetDevice, At
<1>31. ASSUME NEW i \in Ifaces, ResetReleases(i) PROVE Bandwidth'
    BY <1>31, Losing DEF ResetReleases, At
<1>32. CASE DeviceReset
    BY <1>32, Losing DEF DeviceReset, At, Goes
<1>33. CASE ResetFails
    BY <1>33 DEF ResetFails, At
<1>34. ASSUME NEW i \in Ifaces, ResetReclaims(i) PROVE Bandwidth'
    BY <1>34 DEF ResetReclaims, Reclaimed, At, GrantsTo
<1>35. CASE ResetReturns
    BY <1>35 DEF ResetReturns, At
<1>36. CASE Reap
    BY <1>36 DEF Reap, Resubmits
<1>37. CASE UNCHANGED vars
    BY <1>37 DEF vars
<1>38. QED
    BY <1>1, <1>2, <1>3, <1>4, <1>5, <1>6, <1>7, <1>8, <1>9, <1>10, <1>11, <1>12, <1>13, <1>14,
        <1>15, <1>16, <1>17, <1>18, <1>19, <1>20, <1>21, <1>22, <1>23, <1>24, <1>25, <1>26,
        <1>27, <1>28, <1>29, <1>30, <1>31, <1>32, <1>33, <1>34, <1>35, <1>36, <1>37
    DEF Next, KernelStep, OpenStep, StreamStep, CloseStep, ResetStep, OpenClaims, OpenReleases,
        StreamClaims, StreamReleases, CloseReleases

\* libusb and the kernel stay of one opinion about claims.
LEMMA AgreedStep == Types /\ Calls /\ Handles /\ Streams /\ Agreed /\ [Next]_vars => Agreed'
<1> SUFFICES ASSUME Types, Calls, Handles, Streams, Agreed, [Next]_vars PROVE Agreed'
    OBVIOUS
<1> USE DEF At, Goes, Between, Types, Calls, Handles, Streams, Agreed, OnControl, OnStream, OnFree, OnClose,
            NoCall, fixed, kernel, urbs, devh, reset, ghosts
<1>1. ASSUME NEW i \in Ifaces, OtherTakes(i) PROVE Agreed'
    BY <1>1 DEF OtherTakes
<1>2. ASSUME NEW i \in Ifaces, OtherLeaves(i) PROVE Agreed'
    BY <1>2 DEF OtherLeaves
<1>3. CASE Unplug
    BY <1>3 DEF Unplug
<1>4. CASE StatusPacket
    BY <1>4 DEF StatusPacket
<1>5. CASE LibusbOpen
    BY <1>5 DEF LibusbOpen
<1>6. ASSUME call.op = "open", Claim("status") PROVE Agreed'
    BY <1>6 DEF Claim, ClaimDone, Goes, Grants, GrantsTo
<1>7. ASSUME call.op = "open", ClaimAgain("status") PROVE Agreed'
    BY <1>7 DEF ClaimAgain, ClaimDone, Goes, Grants, GrantsTo
<1>8. CASE OpenRefused
    BY <1>8 DEF OpenRefused, At, Goes
<1>9. CASE NoStatusEndpoint
    BY <1>9 DEF NoStatusEndpoint, At
<1>10. ASSUME call.op = "open", Release("close") PROVE Agreed'
    BY <1>10 DEF Release, Goes
<1>11. ASSUME call.op = "open", Attach("close") PROVE Agreed'
    BY <1>11 DEF Attach, Goes
<1>12. ASSUME NEW ok \in BOOLEAN, DeviceInfo(ok) PROVE Agreed'
    BY <1>12 DEF DeviceInfo, At, Goes
<1>13. ASSUME NEW ok \in BOOLEAN, SubmitStatus(ok) PROVE Agreed'
    BY <1>13 DEF SubmitStatus, At, Goes
<1>14. CASE ClaimRetry
    BY <1>14 DEF ClaimRetry, Retries, Goes
<1>15. ASSUME NEW i \in StreamIfs, OpenStream(i) PROVE Agreed'
    BY <1>15 DEF OpenStream
<1>16. ASSUME NEW i \in StreamIfs, SelectAltsetting(i) PROVE Agreed'
    BY <1>16 DEF SelectAltsetting
<1>17. ASSUME NEW i \in StreamIfs, CloseStream(i) PROVE Agreed'
    BY <1>17 DEF CloseStream, At, ReleasedFirst
<1>18. ASSUME call.op = "stream", Claim("commit") PROVE Agreed'
    BY <1>18 DEF Claim, ClaimDone, Goes, Grants, GrantsTo
<1>19. ASSUME call.op = "stream", ClaimAgain("commit") PROVE Agreed'
    BY <1>19 DEF ClaimAgain, ClaimDone, Goes, Grants, GrantsTo
<1>20. CASE StreamRefused
    BY <1>20 DEF StreamRefused, At
<1>21. ASSUME call.op \in {"stop", "close"}, call.iface # Ctrl, Release("free") PROVE Agreed'
    BY <1>21 DEF Release, Goes
<1>22. ASSUME call.op \in {"stop", "close"}, call.iface # Ctrl, Attach("free") PROVE Agreed'
    BY <1>22 DEF Attach, Goes
<1>23. CASE FreeStream
    BY <1>23 DEF FreeStream
<1>24. ASSUME NEW ok \in BOOLEAN, Commit(ok) PROVE Agreed'
    BY <1>24 DEF Commit, At
<1>25. CASE CloseCamera
    BY <1>25 DEF CloseCamera
<1>26. CASE StreamsClosed
    BY <1>26 DEF StreamsClosed, At, Goes
<1>27. ASSUME call.op = "close", call.iface = Ctrl, Release("close") PROVE Agreed'
    BY <1>27 DEF Release, Goes
<1>28. ASSUME call.op = "close", call.iface = Ctrl, Attach("close") PROVE Agreed'
    BY <1>28 DEF Attach, Goes
<1>29. CASE CloseHandle
    BY <1>29 DEF CloseHandle, ClosesFile
<1>30. CASE ResetDevice
    BY <1>30 DEF ResetDevice, At
<1>31. ASSUME NEW i \in Ifaces, ResetReleases(i) PROVE Agreed'
    BY <1>31 DEF ResetReleases, At
<1>32. CASE DeviceReset
    BY <1>32 DEF DeviceReset, At, Goes
<1>33. CASE ResetFails
    BY <1>33 DEF ResetFails, At
<1>34. ASSUME NEW i \in Ifaces, ResetReclaims(i) PROVE Agreed'
    BY <1>34 DEF ResetReclaims, Reclaimed, At, GrantsTo
<1>35. CASE ResetReturns
    BY <1>35 DEF ResetReturns, At
<1>36. CASE Reap
    BY <1>36 DEF Reap, Resubmits
<1>37. CASE UNCHANGED vars
    BY <1>37 DEF vars
<1>38. QED
    BY <1>1, <1>2, <1>3, <1>4, <1>5, <1>6, <1>7, <1>8, <1>9, <1>10, <1>11, <1>12, <1>13, <1>14,
        <1>15, <1>16, <1>17, <1>18, <1>19, <1>20, <1>21, <1>22, <1>23, <1>24, <1>25, <1>26,
        <1>27, <1>28, <1>29, <1>30, <1>31, <1>32, <1>33, <1>34, <1>35, <1>36, <1>37
    DEF Next, KernelStep, OpenStep, StreamStep, CloseStep, ResetStep, OpenClaims, OpenReleases,
        StreamClaims, StreamReleases, CloseReleases

\* A new handle has no URB until its status transfer is submitted; a file that is closed
\* takes the URBs of its handle along.
LEMMA UrbsStep == UrbTypes /\ Types /\ Calls /\ Handles /\ Urbs /\ [Next]_vars => Urbs'
<1> SUFFICES ASSUME UrbTypes, Types, Calls, Handles, Urbs, [Next]_vars PROVE Urbs'
    OBVIOUS
<1> USE DEF Types, Calls, Handles, Urbs, UrbsOf, NoFreedReapOnDesktop, OnControl, OnStream,
            OnFree, OnClose, NoCall, fixed, kernel, urbs, devh, reset, ghosts
<1>1. ASSUME NEW i \in Ifaces, OtherTakes(i) PROVE Urbs'
    BY <1>1 DEF OtherTakes
<1>2. ASSUME NEW i \in Ifaces, OtherLeaves(i) PROVE Urbs'
    BY <1>2 DEF OtherLeaves
<1>3. CASE Unplug
    BY <1>3, Losing DEF Unplug
<1>4. CASE StatusPacket
    BY <1>4 DEF StatusPacket
<1>5. CASE LibusbOpen
    BY <1>5 DEF LibusbOpen
<1>6. ASSUME call.op = "open", Claim("status") PROVE Urbs'
    BY <1>6 DEF Claim, ClaimDone, Goes, Grants, GrantsTo
<1>7. ASSUME call.op = "open", ClaimAgain("status") PROVE Urbs'
    BY <1>7 DEF ClaimAgain, ClaimDone, Goes, Grants, GrantsTo
<1>8. CASE OpenRefused
    BY <1>8 DEF OpenRefused, At, Goes
<1>9. CASE NoStatusEndpoint
    BY <1>9 DEF NoStatusEndpoint, At
<1>10. ASSUME call.op = "open", Release("close") PROVE Urbs'
    BY <1>10, Losing DEF Release, Goes
<1>11. ASSUME call.op = "open", Attach("close") PROVE Urbs'
    BY <1>11 DEF Attach, Goes
<1>12. ASSUME NEW ok \in BOOLEAN, DeviceInfo(ok) PROVE Urbs'
    BY <1>12 DEF DeviceInfo, At, Goes
<1>13. ASSUME NEW ok \in BOOLEAN, SubmitStatus(ok) PROVE Urbs'
    BY <1>13 DEF SubmitStatus, At, Goes
<1>14. CASE ClaimRetry
    BY <1>14, Losing DEF ClaimRetry, Retries, Goes
<1>15. ASSUME NEW i \in StreamIfs, OpenStream(i) PROVE Urbs'
    BY <1>15 DEF OpenStream
<1>16. ASSUME NEW i \in StreamIfs, SelectAltsetting(i) PROVE Urbs'
    BY <1>16 DEF SelectAltsetting
<1>17. ASSUME NEW i \in StreamIfs, CloseStream(i) PROVE Urbs'
    BY <1>17 DEF CloseStream, At, ReleasedFirst
<1>18. ASSUME call.op = "stream", Claim("commit") PROVE Urbs'
    BY <1>18 DEF Claim, ClaimDone, Goes, Grants, GrantsTo
<1>19. ASSUME call.op = "stream", ClaimAgain("commit") PROVE Urbs'
    BY <1>19 DEF ClaimAgain, ClaimDone, Goes, Grants, GrantsTo
<1>20. CASE StreamRefused
    BY <1>20 DEF StreamRefused, At
<1>21. ASSUME call.op \in {"stop", "close"}, call.iface # Ctrl, Release("free") PROVE Urbs'
    BY <1>21, Losing DEF Release, Goes
<1>22. ASSUME call.op \in {"stop", "close"}, call.iface # Ctrl, Attach("free") PROVE Urbs'
    BY <1>22 DEF Attach, Goes
<1>23. CASE FreeStream
    BY <1>23 DEF FreeStream
<1>24. ASSUME NEW ok \in BOOLEAN, Commit(ok) PROVE Urbs'
    BY <1>24 DEF Commit, At
<1>25. CASE CloseCamera
    BY <1>25 DEF CloseCamera
<1>26. CASE StreamsClosed
    BY <1>26 DEF StreamsClosed, At, Goes
<1>27. ASSUME call.op = "close", call.iface = Ctrl, Release("close") PROVE Urbs'
    BY <1>27, Losing DEF Release, Goes
<1>28. ASSUME call.op = "close", call.iface = Ctrl, Attach("close") PROVE Urbs'
    BY <1>28 DEF Attach, Goes
<1>29. CASE CloseHandle
    BY <1>29 DEF CloseHandle, ClosesFile
<1>30. CASE ResetDevice
    BY <1>30 DEF ResetDevice, At
<1>31. ASSUME NEW i \in Ifaces, ResetReleases(i) PROVE Urbs'
    BY <1>31, Losing DEF ResetReleases, At
<1>32. CASE DeviceReset
    BY <1>32, Losing DEF DeviceReset, At, Goes
<1>33. CASE ResetFails
    BY <1>33 DEF ResetFails, At
<1>34. ASSUME NEW i \in Ifaces, ResetReclaims(i) PROVE Urbs'
    BY <1>34 DEF ResetReclaims, Reclaimed, At, GrantsTo
<1>35. CASE ResetReturns
    BY <1>35 DEF ResetReturns, At
<1>36. CASE Reap
    <2>1. /\ Head(done) = done[1] /\ 1 \in DOMAIN done
          /\ \A k \in DOMAIN Tail(done) : k + 1 \in DOMAIN done /\ Tail(done)[k] = done[k + 1]
        BY <1>36, Taking DEF Reap
    <2>2. done' = Tail(done) /\ pending' \in {pending, done[1][1]}
        BY <1>36, <2>1 DEF Reap
    <2>3. open /\ UNCHANGED <<open, handle, call, build>>
        BY <1>36 DEF Reap
    <2>4. ASSUME NEW S, UrbsOf(S)
          PROVE  pending' \in S \cup {0} /\ \A k \in DOMAIN done' : done'[k][1] \in S
        BY <2>1, <2>2, <2>4
    <2>5. build = "desktop" => UrbsOf({handle})
        BY <2>3
    <2>6. build = "desktop" => touched' = {}
      <3>1. build = "desktop" => done[1][1] \notin freed
        BY <2>1, <2>3, <2>5
      <3>2. QED
        BY <1>36, <2>1, <3>1 DEF Reap
    <2>7. /\ pending' \in 1..handle \cup {0} /\ \A k \in DOMAIN done' : done'[k][1] \in 1..handle
          /\ call.op = "open" =>
                /\ pending' \in 1..(handle - 1) \cup {0}
                /\ \A k \in DOMAIN done' : done'[k][1] \in 1..(handle - 1)
          /\ build = "desktop" =>
                /\ pending' \in {handle} \cup {0}
                /\ \A k \in DOMAIN done' : done'[k][1] \in {handle}
        BY <2>4, <2>5, Zenon
    <2>8. QED
        BY <2>3, <2>6, <2>7
<1>37. CASE UNCHANGED vars
    BY <1>37 DEF vars
<1>38. QED
    BY <1>1, <1>2, <1>3, <1>4, <1>5, <1>6, <1>7, <1>8, <1>9, <1>10, <1>11, <1>12, <1>13, <1>14,
        <1>15, <1>16, <1>17, <1>18, <1>19, <1>20, <1>21, <1>22, <1>23, <1>24, <1>25, <1>26,
        <1>27, <1>28, <1>29, <1>30, <1>31, <1>32, <1>33, <1>34, <1>35, <1>36, <1>37
    DEF Next, KernelStep, OpenStep, StreamStep, CloseStep, ResetStep, OpenClaims, OpenReleases,
        StreamClaims, StreamReleases, CloseReleases

\* An interface that refuses was another program's, or the retry finds it left over.
LEMMA RefusalsStep ==
        UrbTypes /\ Types /\ Calls /\ Handles /\ Streams /\ Agreed /\ Urbs /\ Refusals /\
        [Next]_vars => Refusals'
<1> SUFFICES ASSUME UrbTypes, Types, Calls, Handles, Streams, Agreed, Urbs, Refusals, [Next]_vars
             PROVE Refusals'
    OBVIOUS
<1> USE DEF Types, Calls, Handles, Streams, OnControl, OnStream, OnFree, OnClose, NoCall,
            Refusals, fixed, kernel, urbs, devh, reset, ghosts
<1>1. ASSUME NEW i \in Ifaces, OtherTakes(i) PROVE Refusals'
    BY <1>1 DEF OtherTakes
<1>2. ASSUME NEW i \in Ifaces, OtherLeaves(i) PROVE Refusals'
    BY <1>2 DEF OtherLeaves
<1>3. CASE Unplug
    BY <1>3, Losing DEF Unplug
<1>4. CASE StatusPacket
    BY <1>4 DEF StatusPacket
<1>5. CASE LibusbOpen
    BY <1>5 DEF LibusbOpen
<1>6. ASSUME call.op = "open", Claim("status") PROVE Refusals'
    BY <1>6 DEF Claim, ClaimDone, Goes, Grants, GrantsTo
<1>7. ASSUME call.op = "open", ClaimAgain("status") PROVE Refusals'
    BY <1>7 DEF ClaimAgain, ClaimDone, Goes, Grants, GrantsTo
<1>8. CASE OpenRefused
    BY <1>8 DEF OpenRefused, At, Goes
<1>9. CASE NoStatusEndpoint
    BY <1>9 DEF NoStatusEndpoint, At
<1>10. ASSUME call.op = "open", Release("close") PROVE Refusals'
    BY <1>10, Losing DEF Release, Goes
<1>11. ASSUME call.op = "open", Attach("close") PROVE Refusals'
    BY <1>11 DEF Attach, Goes
<1>12. ASSUME NEW ok \in BOOLEAN, DeviceInfo(ok) PROVE Refusals'
    BY <1>12 DEF DeviceInfo, At, Goes
<1>13. ASSUME NEW ok \in BOOLEAN, SubmitStatus(ok) PROVE Refusals'
    BY <1>13 DEF SubmitStatus, At, Goes
<1>14. CASE ClaimRetry
    BY <1>14, Losing DEF ClaimRetry, Retries, Goes
<1>15. ASSUME NEW i \in StreamIfs, OpenStream(i) PROVE Refusals'
    BY <1>15 DEF OpenStream
<1>16. ASSUME NEW i \in StreamIfs, SelectAltsetting(i) PROVE Refusals'
    BY <1>16 DEF SelectAltsetting
<1>17. ASSUME NEW i \in StreamIfs, CloseStream(i) PROVE Refusals'
    BY <1>17 DEF CloseStream, At, ReleasedFirst
<1>18. ASSUME call.op = "stream", Claim("commit") PROVE Refusals'
    BY <1>18 DEF Claim, ClaimDone, Goes, Grants, GrantsTo
<1>19. ASSUME call.op = "stream", ClaimAgain("commit") PROVE Refusals'
    BY <1>19 DEF ClaimAgain, ClaimDone, Goes, Grants, GrantsTo
<1>20. CASE StreamRefused
    BY <1>20 DEF StreamRefused, At
<1>21. ASSUME call.op \in {"stop", "close"}, call.iface # Ctrl, Release("free") PROVE Refusals'
    BY <1>21, Losing DEF Release, Goes
<1>22. ASSUME call.op \in {"stop", "close"}, call.iface # Ctrl, Attach("free") PROVE Refusals'
    BY <1>22 DEF Attach, Goes
<1>23. CASE FreeStream
    BY <1>23 DEF FreeStream
<1>24. ASSUME NEW ok \in BOOLEAN, Commit(ok) PROVE Refusals'
    BY <1>24 DEF Commit, At
<1>25. CASE CloseCamera
    BY <1>25 DEF CloseCamera
<1>26. CASE StreamsClosed
    BY <1>26 DEF StreamsClosed, At, Goes
<1>27. ASSUME call.op = "close", call.iface = Ctrl, Release("close") PROVE Refusals'
    BY <1>27, Losing DEF Release, Goes
<1>28. ASSUME call.op = "close", call.iface = Ctrl, Attach("close") PROVE Refusals'
    BY <1>28 DEF Attach, Goes
<1>29. CASE CloseHandle
    BY <1>29 DEF CloseHandle, ClosesFile
<1>30. CASE ResetDevice
    BY <1>30 DEF ResetDevice, At
<1>31. ASSUME NEW i \in Ifaces, ResetReleases(i) PROVE Refusals'
    BY <1>31, Losing DEF ResetReleases, At
<1>32. CASE DeviceReset
    BY <1>32, Losing DEF DeviceReset, At, Goes
<1>33. CASE ResetFails
    BY <1>33 DEF ResetFails, At
<1>34. ASSUME NEW i \in Ifaces, ResetReclaims(i) PROVE Refusals'
    BY <1>34 DEF ResetReclaims, Reclaimed, At, GrantsTo
<1>35. CASE ResetReturns
    BY <1>35 DEF ResetReturns, At
<1>36. CASE Reap
    <2>1. Head(done) = done[1] /\ 1 \in DOMAIN done
        BY <1>36, Taking DEF Reap
    <2>2. call.op = "open" => done[1][1] \in freed
        BY <1>36, <2>1 DEF Reap, Urbs, UrbsOf
    <2>3. /\ \A i \in Ifaces : bound'[i] # bound[i] => i = Ctrl /\ bound'[i] = "us"
          /\ call.op = "open" => bound' = bound
        BY <1>36, <2>1, <2>2 DEF Reap
    <2>4. UNCHANGED <<open, auto, call, present, taken>>
        BY <1>36 DEF Reap
    <2>5. call.at = "again" => call.iface # Ctrl \/ call.op = "open"
        OBVIOUS
    <2>6. QED
        BY <2>3, <2>4, <2>5
<1>37. CASE UNCHANGED vars
    BY <1>37 DEF vars
<1>38. QED
    BY <1>1, <1>2, <1>3, <1>4, <1>5, <1>6, <1>7, <1>8, <1>9, <1>10, <1>11, <1>12, <1>13, <1>14,
        <1>15, <1>16, <1>17, <1>18, <1>19, <1>20, <1>21, <1>22, <1>23, <1>24, <1>25, <1>26,
        <1>27, <1>28, <1>29, <1>30, <1>31, <1>32, <1>33, <1>34, <1>35, <1>36, <1>37
    DEF Next, KernelStep, OpenStep, StreamStep, CloseStep, ResetStep, OpenClaims, OpenReleases,
        StreamClaims, StreamReleases, CloseReleases

\* What the driver lacks stays in somebody's hands: the retry detaches a driver only where it
\* was refused, and what is released is attached at the next place of the call.
LEMMA OwnersStep ==
        UrbTypes /\ Types /\ Calls /\ Handles /\ Streams /\ Bandwidth /\ Agreed /\ Refusals /\
        Owners /\ [Next]_vars => Owners'
<1> SUFFICES ASSUME UrbTypes, Types, Calls, Handles, Streams, Bandwidth, Agreed, Refusals, Owners, [Next]_vars
             PROVE Owners'
    OBVIOUS
<1> USE DEF Types, Calls, Handles, Streams, OnControl, OnStream, OnFree, OnClose, NoCall,
            Bandwidth, Agreed, Refusals, Owners, Owned, Back, At, Goes, Between, fixed, kernel, urbs, devh, reset, ghosts
<1>1. ASSUME NEW i \in Ifaces, OtherTakes(i) PROVE Owners'
    BY <1>1 DEF OtherTakes
<1>2. ASSUME NEW i \in Ifaces, OtherLeaves(i) PROVE Owners'
    BY <1>2 DEF OtherLeaves
<1>3. CASE Unplug
    BY <1>3, Losing DEF Unplug
<1>4. CASE StatusPacket
    BY <1>4 DEF StatusPacket
<1>5. CASE LibusbOpen
    BY <1>5 DEF LibusbOpen
<1>6. ASSUME call.op = "open", Claim("status") PROVE Owners'
    BY <1>6 DEF Claim, ClaimDone, Goes, Grants, GrantsTo
<1>7. ASSUME call.op = "open", ClaimAgain("status") PROVE Owners'
    BY <1>7 DEF ClaimAgain, ClaimDone, Goes, Grants, GrantsTo
<1>8. CASE OpenRefused
    BY <1>8 DEF OpenRefused, At, Goes
<1>9. CASE NoStatusEndpoint
    BY <1>9 DEF NoStatusEndpoint, At
<1>10. ASSUME call.op = "open", Release("close") PROVE Owners'
    BY <1>10, Losing DEF Release, Goes
<1>11. ASSUME call.op = "open", Attach("close") PROVE Owners'
    BY <1>11 DEF Attach, Goes
<1>12. ASSUME NEW ok \in BOOLEAN, DeviceInfo(ok) PROVE Owners'
    BY <1>12 DEF DeviceInfo, At, Goes
<1>13. ASSUME NEW ok \in BOOLEAN, SubmitStatus(ok) PROVE Owners'
    BY <1>13 DEF SubmitStatus, At, Goes
<1>14. CASE ClaimRetry
    BY <1>14, Losing DEF ClaimRetry, Retries, Goes
<1>15. ASSUME NEW i \in StreamIfs, OpenStream(i) PROVE Owners'
    BY <1>15 DEF OpenStream
<1>16. ASSUME NEW i \in StreamIfs, SelectAltsetting(i) PROVE Owners'
    BY <1>16 DEF SelectAltsetting
<1>17. ASSUME NEW i \in StreamIfs, CloseStream(i) PROVE Owners'
    BY <1>17 DEF CloseStream, At, ReleasedFirst
<1>18. ASSUME call.op = "stream", Claim("commit") PROVE Owners'
    BY <1>18 DEF Claim, ClaimDone, Goes, Grants, GrantsTo
<1>19. ASSUME call.op = "stream", ClaimAgain("commit") PROVE Owners'
    BY <1>19 DEF ClaimAgain, ClaimDone, Goes, Grants, GrantsTo
<1>20. CASE StreamRefused
    BY <1>20 DEF StreamRefused, At
<1>21. ASSUME call.op \in {"stop", "close"}, call.iface # Ctrl, Release("free") PROVE Owners'
    BY <1>21, Losing DEF Release, Goes
<1>22. ASSUME call.op \in {"stop", "close"}, call.iface # Ctrl, Attach("free") PROVE Owners'
    BY <1>22 DEF Attach, Goes
<1>23. CASE FreeStream
    BY <1>23 DEF FreeStream
<1>24. ASSUME NEW ok \in BOOLEAN, Commit(ok) PROVE Owners'
    BY <1>24 DEF Commit, At
<1>25. CASE CloseCamera
    BY <1>25 DEF CloseCamera
<1>26. CASE StreamsClosed
    BY <1>26 DEF StreamsClosed, At, Goes
<1>27. ASSUME call.op = "close", call.iface = Ctrl, Release("close") PROVE Owners'
    BY <1>27, Losing DEF Release, Goes
<1>28. ASSUME call.op = "close", call.iface = Ctrl, Attach("close") PROVE Owners'
    BY <1>28 DEF Attach, Goes
<1>29. CASE CloseHandle
    BY <1>29 DEF CloseHandle, ClosesFile
<1>30. CASE ResetDevice
    BY <1>30 DEF ResetDevice, At
<1>31. ASSUME NEW i \in Ifaces, ResetReleases(i) PROVE Owners'
    BY <1>31, Losing DEF ResetReleases, At
<1>32. CASE DeviceReset
    BY <1>32, Losing DEF DeviceReset, At, Goes
<1>33. CASE ResetFails
    BY <1>33 DEF ResetFails, At
<1>34. ASSUME NEW i \in Ifaces, ResetReclaims(i) PROVE Owners'
    BY <1>34 DEF ResetReclaims, Reclaimed, At, GrantsTo
<1>35. CASE ResetReturns
    BY <1>35 DEF ResetReturns, At
<1>36. CASE Reap
    BY <1>36 DEF Reap, Resubmits
<1>37. CASE UNCHANGED vars
    BY <1>37 DEF vars
<1>38. QED
    BY <1>1, <1>2, <1>3, <1>4, <1>5, <1>6, <1>7, <1>8, <1>9, <1>10, <1>11, <1>12, <1>13, <1>14,
        <1>15, <1>16, <1>17, <1>18, <1>19, <1>20, <1>21, <1>22, <1>23, <1>24, <1>25, <1>26,
        <1>27, <1>28, <1>29, <1>30, <1>31, <1>32, <1>33, <1>34, <1>35, <1>36, <1>37
    DEF Next, KernelStep, OpenStep, StreamStep, CloseStep, ResetStep, OpenClaims, OpenReleases,
        StreamClaims, StreamReleases, CloseReleases

------------------------------------------------------------------------------
(* The inductive invariant *)

USE DEF TypeOK

LEMMA InitIInv == Init => IInv
<1> SUFFICES ASSUME Init PROVE IInv
    OBVIOUS
<1> USE DEF Init
<1>1. UrbTypes /\ Types
    <2>1. call \in CallType
        BY IfaceKinds DEF NoCall
    <2>2. bound \in [Ifaces -> {"nobody", "driver", "us", "other"}]
        OBVIOUS
    <2>3. pending \in 0..MaxOpens /\ done \in Seq(Names) /\ handle \in 0..MaxOpens
          /\ others \in 0..MaxOthers /\ events \in 0..MaxEvents
        OBVIOUS
    <2>4. QED
        BY <2>1, <2>2, <2>3 DEF UrbTypes, Types
<1>2. Calls /\ Handles /\ Streams /\ Bandwidth /\ Agreed
    BY DEF Calls, Handles, Streams, Bandwidth, Agreed, NoCall
<1>3. Urbs
    BY DEF Urbs, UrbsOf, NoFreedReapOnDesktop, NoCall
<1>4. Refusals /\ Owners
    BY DEF Refusals, Owners, Back, NoCall
<1>5. QED
    BY <1>1, <1>2, <1>3, <1>4, TypeParts DEF IInv

LEMMA IInvStep == IInv /\ [Next]_vars => IInv'
<1> SUFFICES ASSUME IInv, [Next]_vars PROVE IInv'
    OBVIOUS
<1>1. UrbTypes /\ Types /\ Calls /\ Handles /\ Streams /\ Bandwidth /\ Agreed
      /\ Urbs /\ Refusals /\ Owners
    BY TypeParts DEF IInv
<1>2. UrbTypes' /\ Types'
    BY <1>1, TypesStep, UrbTypesStep
<1>3. Calls' /\ Handles' /\ Streams' /\ Bandwidth' /\ Agreed'
    BY <1>1, CallsStep, HandlesStep, StreamsStep, BandwidthStep, AgreedStep
<1>4. Urbs' /\ Refusals' /\ Owners'
    BY <1>1, UrbsStep, RefusalsStep, OwnersStep
<1>5. TypeOK'
    BY <1>2, TypeParts, Zenon DEF UrbTypes, Types, Names
<1>6. QED
    BY <1>3, <1>4, <1>5 DEF IInv

LEMMA IInvHolds == Spec => []IInv
    BY InitIInv, IInvStep, PTL DEF Spec

\* The variables keep their types (device.c, stream.c, core.c).
THEOREM TypeCorrect == Spec => []TypeOK
<1>1. IInv => TypeOK
    BY DEF IInv
<1>2. QED
    BY <1>1, IInvHolds, PTL

\* For any set of streaming interfaces and any number of handles: what libusb has in
\* claimed_interfaces the kernel has given it, but for what a reset under way has released and for
\* the time after one that failed; streams are on what is claimed or what a reset did not get
\* back, and bandwidth is where streams are (libusb_claim_interface, op_reset_device,
\* uvc_stream_open_ctrl, uvc_stream_close).
THEOREM ClaimsAgreeHolds == Spec => []ClaimsAgree
<1>1. IInv => ClaimsAgree
    BY DEF IInv, ClaimsAgree, Agreed, Streams, Bandwidth
<1>2. QED
    BY <1>1, IInvHolds, PTL

\* A closed camera is the kernel driver's again, up to what other programs, failing commits and
\* resets and the status callback keep from it (uvc_release_if, uvc_close).
THEOREM DriverBackHolds == Spec => []DriverBack
<1>1. IInv => DriverBack
  <2> SUFFICES ASSUME IInv, ~open, present, fits, NEW i \in Ifaces \ (taken \cup leftover)
               PROVE bound[i] = "driver"
      BY DEF DriverBack
  <2>1. call = NoCall /\ claimed = {}
      BY DEF IInv, Calls, Handles
  <2>2. Back(i)
      BY DEF IInv, Owners
  <2>3. Between = {}
      BY <2>1 DEF Between, At, NoCall
  <2>4. QED
      BY <2>1, <2>2, <2>3 DEF Back, NoCall
<1>2. QED
    BY <1>1, IInvHolds, PTL

\* Where the file is closed with its handle, no URB of a freed status transfer is ever reaped
\* (uvc_free_devh, libusb_close).
THEOREM NoFreedReapHolds == Spec => []NoFreedReapOnDesktop
<1>1. IInv => NoFreedReapOnDesktop
    BY DEF IInv, Urbs
<1>2. QED
    BY <1>1, IInvHolds, PTL

\* One step: only an interface that another program had, or an unplugged camera, refuses a claim.
LEMMA RefusalStep ==
    IInv /\ [Next]_vars => [call.at # "refused" /\ call'.at = "refused" =>
                               ~present' \/ call.iface \in taken']_vars
<1> SUFFICES ASSUME IInv, Next, call.at # "refused", call'.at = "refused"
             PROVE ~present' \/ call.iface \in taken'
    BY DEF vars, fixed, kernel, urbs, devh, reset, ghosts
<1> USE DEF fixed, kernel, urbs, devh, reset, ghosts, NoCall, At, Goes
<1>1. Types /\ Calls /\ Streams /\ Agreed /\ Refusals
    BY TypeParts DEF IInv
<1>2. CASE ClaimRetry
    <2>1. bound[call.iface] # "us" /\ call.at = "retry" /\ UNCHANGED <<present, taken>>
        BY <1>1, <1>2 DEF ClaimRetry, Retries, Types
    <2>2. QED
        BY <1>1, <2>1 DEF Refusals
<1>3. ASSUME NEW next \in {"status", "commit"}, Claim(next) PROVE ~present'
    BY <1>1, <1>3 DEF Claim, ClaimDone, Types
<1>4. ASSUME NEW next \in {"status", "commit"}, ClaimAgain(next)
      PROVE ~present' \/ call.iface \in taken'
    <2>1. call.at = "again" /\ UNCHANGED <<present, taken>> 
          /\ ~(present /\ bound[call.iface] = "nobody")
        BY <1>1, <1>4 DEF ClaimAgain, ClaimDone, Grants, GrantsTo, Types
    <2>2. QED
        BY <1>1, <2>1 DEF Refusals
<1>5. ASSUME NEW next \in {"close", "free"}, Release(next) \/ Attach(next) PROVE FALSE
    BY <1>5, <1>1 DEF Release, Attach, Types
<1>6. ASSUME KernelStep \/ Reap \/ LibusbOpen \/ OpenRefused \/ NoStatusEndpoint PROVE FALSE
    BY <1>6 DEF KernelStep, OtherTakes, OtherLeaves, Unplug, StatusPacket, Reap, LibusbOpen,
                OpenRefused, NoStatusEndpoint
<1>7. ASSUME NEW ok \in BOOLEAN, DeviceInfo(ok) \/ SubmitStatus(ok) \/ Commit(ok)
      PROVE FALSE
    BY <1>7, <1>1 DEF DeviceInfo, SubmitStatus, Commit, Types
<1>8. ASSUME NEW i \in StreamIfs, OpenStream(i) \/ SelectAltsetting(i) \/ CloseStream(i) PROVE FALSE
    BY <1>8 DEF OpenStream, SelectAltsetting, CloseStream, ReleasedFirst
<1>9. ASSUME StreamRefused \/ FreeStream \/ CloseCamera \/ StreamsClosed \/ CloseHandle PROVE FALSE
    BY <1>9, <1>1 DEF StreamRefused, FreeStream, CloseCamera, StreamsClosed, CloseHandle, Types
<1>10. ASSUME ResetStep PROVE FALSE
    <2>1. CASE ResetDevice
        BY <2>1 DEF ResetDevice
    <2>2. CASE DeviceReset
        BY <2>2, <1>1 DEF DeviceReset, Types
    <2>3. CASE ResetFails
        BY <2>3 DEF ResetFails
    <2>4. CASE ResetReturns
        BY <2>4 DEF ResetReturns
    <2>5. ASSUME NEW i \in Ifaces, ResetReleases(i) \/ ResetReclaims(i) PROVE FALSE
        BY <2>5 DEF ResetReleases, ResetReclaims
    <2>6. QED
        BY <1>10, <2>1, <2>2, <2>3, <2>4, <2>5 DEF ResetStep
<1>11. QED
    BY <1>2, <1>3, <1>4, <1>5, <1>6, <1>7, <1>8, <1>9, <1>10
    DEF Next, OpenStep, StreamStep, CloseStep, OpenClaims, OpenReleases, StreamClaims,
        StreamReleases, CloseReleases

\* What a closed handle left claimed on the same file never keeps the next one out: the retry of
\* libusb_claim_interface releases it (core.c, os/android_usbfs.c).
THEOREM ReopenWorksHolds == Spec => ReopenWorks
    BY IInvHolds, RefusalStep, PTL DEF Spec, ReopenWorks
=============================================================================
