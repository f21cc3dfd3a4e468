\* Two cameras opened and closed beside a control transfer and a stream.
SPECIFICATION Spec
CONSTANTS
    Devices = {d1, d2}
    Callers = {w, main}
    Main = main
    Handler = handler
    Nobody = nobody
    MaxOpens = 2
    MaxCalls = 1
    Streaming = {d1}
INVARIANT NoLostWakeup
INVARIANT PollsWhatIsOpen
INVARIANT ServedUntilLastClose
PROPERTY ControlReturns
PROPERTY OpenCloseReturn
\* Everything may be closed and stay closed.
CHECK_DEADLOCK FALSE
