\* One camera opened twice, with one streaming interface, another program and a status packet.
SPECIFICATION Spec
CONSTANTS
    Ctrl = ctrl
    StreamIfs = {v1}
    MaxOpens = 2
    MaxOthers = 2
    MaxEvents = 1
INVARIANT ClaimsAgree
INVARIANT DriverBack
PROPERTY ReopenWorks
\* The application may stop calling.
CHECK_DEADLOCK FALSE
