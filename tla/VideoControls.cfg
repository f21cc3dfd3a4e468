\* Every two like controls but those of the iris, and each alone; every packet; failing requests and transfers.
SPECIFICATION ControlsSpec
CONSTANTS
    Byte = 8
    Uses <- AlikePairs
    Given <- EdgeValues
    Reported <- Autofocus
    MaxCalls = 3
    Events <- AllPackets
    MaxSent = 2
    Faults = {"stall", "short", "retried", "ended", "submit"}
INVARIANT GetIsSet
INVARIANT CallbackIsRegistered
PROPERTY StatusGoesOn
\* The application has made its calls.
CHECK_DEADLOCK FALSE
