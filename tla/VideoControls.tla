---------------------------- MODULE VideoControls ----------------------------
(***************************************************************************)
(* The controls of an open camera and its status events: the getters and   *)
(* setters of libuvc/ctrl.c, each a control transfer of                    *)
(* libusb/sync.c, and the status interrupts of libuvc/device.c with the    *)
(* callbacks that an application registers for them.                       *)
(*                                                                         *)
(* An application thread makes one call at a time and waits in it; one     *)
(* event thread completes its transfers, reaps the status transfer and     *)
(* runs the callbacks, under status_mutex.                                 *)
(***************************************************************************)
EXTENDS Integers, Sequences

CONSTANTS Byte,       \* values of a byte (256), a multiple of 4
          Uses,       \* the sets of controls that an application may use
          Reported,   \* those of which the camera reports what happens to them
          Given,      \* for each control, the values that it may call the setter with
          MaxCalls,   \* bound: calls it makes
          Events,     \* status packets that a camera may send
          MaxSent,    \* bound: how many it sends
          Faults      \* what may go wrong, a subset of FaultKinds

\* "stall": the camera refuses a request.  "short": it moves some bytes, not all.
\* "retried", "ended": the status transfer ends with a status after which it is, or is not,
\* submitted again.  "submit": it cannot be submitted again.
FaultKinds == {"stall", "short", "retried", "ended", "submit"}

------------------------------------------------------------------------------
(* The table of the controls, from the functions uvc_get_... and uvc_set_...: the unit that the
   request goes to, the selector, and of each parameter the place in data[], the bytes and the
   type. *)

Field(at, n, type) == [at |-> at, bytes |-> n, type |-> type]

UInt(at, n) == Field(at, n, "unsigned")
SInt(at, n) == Field(at, n, "signed")
Flag        == Field(0, 1, "flag") \* the setter sends 0 or 1
Int32       == Field(0, 1, "int")  \* the setter takes an int and sends one byte of it
Words(n)    == [k \in 1..n |-> UInt(2 * (k - 1), 2)]

Row(name, unit, selector, fields) ==
    [name |-> name, unit |-> unit, selector |-> selector, fields |-> fields]
Interface(name, fields)  == Row(name, "interface", name, fields)
Terminal(name, fields)   == Row(name, "terminal", name, fields)
Processing(name, fields) == Row(name, "processing", name, fields)

InterfaceControls ==
    {Interface("power_mode", <<UInt(0, 1)>>)}

ExposureControls ==
    {Terminal("ae_mode", <<UInt(0, 1)>>), Terminal("ae_priority", <<UInt(0, 1)>>),
     Terminal("exposure_abs", <<SInt(0, 4)>>), Terminal("exposure_rel", <<Int32>>)}

FocusControls ==
    {Terminal("scanning_mode", <<UInt(0, 1)>>), Terminal("focus_auto", <<UInt(0, 1)>>),
     Terminal("focus_abs", <<SInt(0, 2)>>), Terminal("focus_rel", <<SInt(0, 1), UInt(1, 1)>>)}

\* The iris functions have the selectors of the focus.
IrisControls ==
    {Row("iris_abs", "terminal", "focus_abs", <<UInt(0, 2)>>),
     Row("iris_rel", "terminal", "focus_rel", <<UInt(0, 1)>>)}

ZoomControls ==
    {Terminal("zoom_abs", <<UInt(0, 2)>>),
     Terminal("zoom_rel", <<SInt(0, 1), UInt(1, 1), UInt(2, 1)>>)}

PantiltControls ==
    {Terminal("pantilt_abs", <<SInt(0, 4), SInt(4, 4)>>),
     Terminal("pantilt_rel", <<SInt(0, 1), UInt(1, 1), SInt(2, 1), UInt(3, 1)>>)}

RollControls ==
    {Terminal("roll_abs", <<SInt(0, 2)>>), Terminal("roll_rel", <<SInt(0, 1), UInt(1, 1)>>),
     Terminal("privacy", <<UInt(0, 1)>>)}

WindowControls ==
    {Terminal("digital_window", Words(6)), Terminal("digital_roi", Words(5))}

LightControls ==
    {Processing("backlight_compensation", <<SInt(0, 2)>>),
     Processing("brightness", <<SInt(0, 2)>>), Processing("contrast", <<UInt(0, 2)>>),
     Processing("contrast_auto", <<Flag>>)}

GainControls ==
    {Processing("gain", <<UInt(0, 2)>>), Processing("powerline_freqency", <<UInt(0, 1)>>)}

HueControls ==
    {Processing("hue", <<SInt(0, 2)>>), Processing("hue_auto", <<Flag>>),
     Processing("saturation", <<UInt(0, 2)>>), Processing("sharpness", <<UInt(0, 2)>>)}

WhiteControls ==
    {Processing("gamma", <<UInt(0, 2)>>), Processing("white_balance_temperature", <<UInt(0, 2)>>),
     Processing("white_balance_temperature_auto", <<Flag>>)}

ComponentControls ==
    {Processing("white_balance_component", <<UInt(0, 4)>>),
     Processing("white_balance_component_auto", <<Flag>>),
     Processing("digital_multiplier", <<UInt(0, 2)>>)}

AnalogControls ==
    {Processing("digital_multiplier_limit", <<UInt(0, 2)>>),
     Processing("analog_video_standard", <<UInt(0, 1)>>),
     Processing("analog_video_lockstate", <<UInt(0, 1)>>)}

Rows ==
    InterfaceControls \cup ExposureControls \cup FocusControls \cup IrisControls
    \cup ZoomControls \cup PantiltControls \cup RollControls \cup WindowControls
    \cup LightControls \cup GainControls \cup HueControls \cup WhiteControls
    \cup ComponentControls \cup AnalogControls

Controls == [c \in {r.name : r \in Rows} |-> CHOOSE r \in Rows : r.name = c]

Key(c)    == <<Controls[c].unit, Controls[c].selector>>
Fields(c) == Controls[c].fields

\* What each byte of a number counts, and how many numbers n bytes have.
Weight  == <<1, Byte, Byte * Byte, Byte * Byte * Byte>>
Full(n) == Byte * Weight[n]

Numbers(n, type) ==
    IF type = "signed" THEN -(Full(n) \div 2)..(Full(n) \div 2 - 1) ELSE 0..(Full(n) - 1)

\* The numbers that a setter can be called with.
Arguments(f) == IF f.type = "int" THEN Numbers(4, "signed") ELSE Numbers(f.bytes, f.type)

ASSUME ControlsAssumption ==
    /\ Byte \in Nat /\ Byte > 0 /\ Byte % 4 = 0
    /\ Uses \subseteq SUBSET DOMAIN Controls
    /\ Reported \subseteq Uses /\ Faults \subseteq FaultKinds
    /\ \A c \in UNION Uses : \A values \in Given[c] :
          /\ values \in [DOMAIN Fields(c) -> Int]
          /\ \A k \in DOMAIN values : values[k] \in Arguments(Fields(c)[k])
    /\ MaxCalls \in Nat /\ MaxSent \in Nat

VARIABLES
    inUse,      \* the controls that this application uses
    isUvc15,    \* bcdUVC >= 0x0150
    stored,     \* the bytes of each control of the camera
    call,       \* the call that the application waits in
    out,        \* what the last one gave
    set,        \* what its setters have set and no failure has made doubtful
    calls,      \* number of calls
    queue, sent,\* status packets the camera has ready; number of packets
    listening,  \* the status transfer is submitted, in the event thread's hands, or at its end
    thread,     \* where the event thread is, with the packet in hand and the callback
    callback    \* status_cb and button_cb; 0 is none

controlVars == <<stored, call, out, set, calls>>
statusVars  == <<queue, sent, listening, thread>>
allVars     == <<inUse, isUvc15, controlVars, statusVars, callback>>

NoCall   == [op |-> "none"]
NoAnswer == [op |-> "none"]
Idle     == [at |-> "idle"]

------------------------------------------------------------------------------
(* Numbers and bytes *)

\* SHORT_TO_SW, INT_TO_DW: byte i of a number, the lowest one first.
Encoded(v, i) == (v \div Weight[i]) % Byte

\* SW_TO_SHORT, DW_TO_INT, and the assignment to the type of the parameter.
ByteOfVariant(data, f, i) == data[i]
ByteOf(data, f, i)        == data[f.at + i]

Unsigned(data, f) ==
    LET Part(i) == IF i <= f.bytes THEN ByteOf(data, f, i) * Weight[i] ELSE 0
    IN  Part(1) + Part(2) + Part(3) + Part(4)
Decoded(data, f) ==
    LET n == Unsigned(data, f)
    IN  IF f.type = "signed" /\ 2 * n >= Full(f.bytes) THEN n - Full(f.bytes) ELSE n

\* The bytes of each control, and the size of one of the camera, which has them all as the
\* standard says.
Width(fields) == LET last == fields[Len(fields)] IN last.at + last.bytes
Widths        == [c \in DOMAIN Controls |-> Width(Fields(c))]
Size(key)     == Widths[key[2]]

\* The parameter that byte b is of; data[] of a setter, and what a getter makes of it.
Place(fields, b)     == CHOOSE k \in DOMAIN fields : b - fields[k].at \in 1..fields[k].bytes
Data(values, fields) ==
    [b \in 1..Width(fields) |->
        LET k == Place(fields, b) IN Encoded(values[k], b - fields[k].at)]
Values(data, fields) == [k \in DOMAIN fields |-> Decoded(data, fields[k])]

------------------------------------------------------------------------------

ControlsInit ==
    /\ inUse \in Uses
    /\ isUvc15 \in {FALSE, "powerline_freqency" \in inUse}  \* nobody else looks at it
    /\ stored = [key \in {Key(c) : c \in inUse} |-> [b \in 1..Size(key) |-> 0]]
    /\ call = NoCall /\ out = NoAnswer /\ set = <<>> /\ calls = 0
    /\ queue = <<>> /\ sent = 0 /\ listening = "yes" /\ thread = Idle
    /\ callback = [status |-> 0, button |-> 0]

------------------------------------------------------------------------------
(* Calls of the application *)

Calls(c, op, values) ==
    /\ call = NoCall /\ calls < MaxCalls
    /\ calls' = calls + 1 /\ out' = NoAnswer
    /\ call' = [op |-> op, control |-> c, values |-> values]
    /\ UNCHANGED <<inUse, isUvc15, stored, set, statusVars, callback>>

Get == \E c \in inUse : Calls(c, "get", <<>>)

\* uvc_set_powerline_freqency asks for the default when the frequency is 0xff, and when it has
\* the two bits of AUTO set, which only UVC 1.5 knows.
AsksDefaultVariant(freq) == freq = Byte - 1
AsksDefault(freq)        == freq = Byte - 1 \/ (freq % 4 = 3 /\ ~isUvc15)

\* "autoHue ? 1 : 0".
AsSent(f, v) == IF f.type = "flag" /\ v # 0 THEN 1 ELSE v

Set ==
    \E c \in inUse : \E values \in Given[c] :
        IF c # "powerline_freqency"
          THEN Calls(c, "set", [k \in DOMAIN values |-> AsSent(Fields(c)[k], values[k])])
        ELSE IF AsksDefault(values[1]) THEN Calls(c, "get_def", <<>>)
        ELSE Calls(c, "set", <<values[1] % 4>>)

\* uvc_set_status_callback, uvc_set_button_callback: under status_mutex.
MayRegisterVariant(kind) == TRUE
MayRegister(kind)        == thread.at # "calling"

Register(kind, cb) ==
    /\ inUse \in Reported /\ call = NoCall /\ MayRegister(kind)
    /\ callback' = [callback EXCEPT ![kind] = cb]
    /\ UNCHANGED <<inUse, isUvc15, controlVars, statusVars>>

------------------------------------------------------------------------------
(* What the camera does, and the return of the call: do_sync..., libusb_control_transfer *)

Sent == Data(call.values, Fields(call.control))

\* The camera takes a SET_CUR of the size that the control has.
Accepts == call.op = "set" => Len(Sent) = Size(Key(call.control))

Returns(result) == out' = result /\ call' = NoCall

\* Not every byte, or an error: what the setter was to set is unknown from here on.
Fails(code) ==
    /\ Returns([op |-> call.op, control |-> call.control, code |-> code])
    /\ \/ /\ call.op = "set" /\ Accepts
          /\ stored' = [stored EXCEPT ![Key(call.control)] = Sent]
       \/ UNCHANGED stored
    /\ set' = [c \in DOMAIN set \ {c \in inUse : Key(c) = Key(call.control)} |-> set[c]]
    /\ UNCHANGED calls

EventThread == thread.at = "idle"

\* The camera sends what it has, up to the bytes that are asked for.
GetDone ==
    /\ EventThread /\ call.op = "get"
    /\ LET fields == Fields(call.control)
           answer == SubSeq(stored[Key(call.control)], 1, Widths[call.control])
       IN  Returns([op |-> "get", control |-> call.control, code |-> "ok",
                    values |-> Values(answer, fields)])
    /\ UNCHANGED <<inUse, isUvc15, stored, set, calls, statusVars, callback>>

SetDone ==
    /\ EventThread /\ call.op = "set" /\ Accepts
    /\ stored' = [stored EXCEPT ![Key(call.control)] = Sent]
    /\ set' = [c \in DOMAIN set \cup {call.control} |->
                IF c = call.control THEN call.values ELSE set[c]]
    /\ Returns([op |-> "set", control |-> call.control, code |-> "ok"])
    /\ UNCHANGED <<inUse, isUvc15, calls, statusVars, callback>>

\* The default of the power line frequency, which the setter then sends.
DefaultDone ==
    /\ EventThread /\ call.op = "get_def"
    /\ \E freq \in 0..(IF isUvc15 THEN 3 ELSE 2) :
          call' = [call EXCEPT !.op = "set", !.values = <<freq % 4>>]
    /\ UNCHANGED <<inUse, isUvc15, stored, out, set, calls, statusVars, callback>>

CallFails ==
    /\ EventThread /\ call # NoCall
    /\ \/ ("stall" \in Faults \/ ~Accepts) /\ Fails("stall")
       \/ "short" \in Faults /\ Widths[call.control] > 1 /\ Fails("short")
    /\ UNCHANGED <<inUse, isUvc15, statusVars, callback>>

------------------------------------------------------------------------------
(* Status events *)

CameraSends ==
    /\ inUse \in Reported /\ sent < MaxSent
    /\ \E p \in Events : queue' = Append(queue, p)
    /\ sent' = sent + 1
    /\ UNCHANGED <<inUse, isUvc15, controlVars, listening, thread, callback>>

\* _uvc_status_callback: a completed transfer has a packet, and is submitted again after it was
\* looked at; so is one that timed out or stalled, and the others are the last.
StatusDone ==
    /\ thread.at = "idle" /\ listening = "yes" /\ queue # <<>>
    /\ queue' = Tail(queue)
    /\ \/ thread' = [at |-> "look", packet |-> Head(queue)] /\ listening' = "no"
       \/ "retried" \in Faults /\ thread' = [at |-> "again"] /\ listening' = "no"
       \/ "ended" \in Faults /\ listening' = "ended" /\ UNCHANGED thread
    /\ UNCHANGED <<inUse, isUvc15, controlVars, sent, callback>>

\* Which callback a packet is for: uvc_process_control_status, uvc_process_streaming_status.
ForStatus(p) == p.type = 1 /\ p.len >= 5 /\ p.originator \in {"terminal", "unit"} /\ p.event = 0
ForButton(p) == p.type = 2 /\ p.len >= 4 /\ p.event = 0

KindOf(p) == IF ForStatus(p) THEN "status" ELSE "button"

\* What becomes of a packet that nobody is to hear of.
AfterIgnoredVariant == Idle
AfterIgnored        == [at |-> "again"]

\* The callback is read and called under status_mutex.
LookAt ==
    /\ thread.at = "look"
    /\ LET p == thread.packet
       IN  \/ /\ ForStatus(p) \/ ForButton(p)
              /\ thread' = IF callback[KindOf(p)] = 0 THEN [at |-> "again"]
                           ELSE [at |-> "calling", kind |-> KindOf(p), cb |-> callback[KindOf(p)]]
           \/ /\ ~(ForStatus(p) \/ ForButton(p))
              /\ thread' = AfterIgnored
    /\ UNCHANGED <<inUse, isUvc15, controlVars, queue, sent, listening, callback>>

CallbackReturns ==
    /\ thread.at = "calling"
    /\ thread' = [at |-> "again"]
    /\ UNCHANGED <<inUse, isUvc15, controlVars, queue, sent, listening, callback>>

\* The result of the submission is not looked at.
SubmitAgain ==
    /\ thread.at = "again"
    /\ thread' = Idle
    /\ listening' \in {"yes"} \cup (IF "submit" \in Faults THEN {"ended"} ELSE {})
    /\ UNCHANGED <<inUse, isUvc15, controlVars, queue, sent, callback>>

Completes == GetDone \/ SetDone \/ DefaultDone \/ CallFails
Handles   == StatusDone \/ LookAt \/ CallbackReturns \/ SubmitAgain

ControlsNext ==
    \/ Get \/ Set
    \/ \E kind \in {"status", "button"}, cb \in 0..1 : Register(kind, cb)
    \/ GetDone \/ SetDone \/ DefaultDone \/ CallFails
    \/ CameraSends
    \/ StatusDone \/ LookAt \/ CallbackReturns \/ SubmitAgain

\* The event thread goes on: callbacks return, the camera answers.
ControlsSpec ==
    ControlsInit /\ [][ControlsNext]_allVars /\ WF_allVars(Completes) /\ WF_allVars(Handles)

------------------------------------------------------------------------------
(* Properties *)

\* Types: each control keeps its size, and the event thread holds the status transfer exactly
\* while it works on it.
ControlsTypeOK ==
    /\ stored \in [{Key(c) : c \in inUse} -> Seq(0..(Byte - 1))]
    /\ \A key \in DOMAIN stored : Len(stored[key]) = Size(key)
    /\ call.op \in {"none", "get", "set", "get_def"} /\ call # NoCall => call.control \in inUse
    /\ DOMAIN set \subseteq inUse /\ calls \in 0..MaxCalls
    /\ queue \in Seq(Events) /\ sent \in 0..MaxSent /\ Len(queue) <= sent
    /\ thread.at \in {"idle", "look", "calling", "again"}
    /\ listening \in {"yes", "no", "ended"} /\ (listening = "no" <=> thread.at # "idle")
    /\ callback \in [{"status", "button"} -> 0..1]

\* "The uvc_get_* and uvc_set_* functions are used to read and write the settings" (ctrl.c): what
\* a getter gives is what the setter of the same control set last, whatever else was set since.
GetIsSet ==
    out.op = "get" /\ out.code = "ok" /\ out.control \in DOMAIN set =>
        out.values = set[out.control]

\* "AUTO(0x03) is only available for UVC1.5" (ctrl.c): no older camera is ever set to it, with
\* any frequency that an application gives.
AutoIsOfUvc15 ==
    ~isUvc15 /\ "powerline_freqency" \in inUse => stored[Key("powerline_freqency")] # <<3>>

\* The callback that runs is the one that is registered: when uvc_set_status_callback or
\* uvc_set_button_callback has returned, the one it replaced does not run any more.
CallbackIsRegistered == thread.at = "calling" => callback[thread.kind] = thread.cb

\* Whatever a packet says, the next one is taken: the status transfer ends with an error only.
StatusGoesOn == queue # <<>> ~> (queue = <<>> \/ listening = "ended")
=============================================================================
