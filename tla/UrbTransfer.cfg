\* Chained bulk transfers and iso transfers of three URBs.
SPECIFICATION Spec
CONSTANTS
    NumUrbs = 3
    Kinds = {"chained", "iso"}
    MaxSubmits = 3
INVARIANT NoStaleCancel
INVARIANT NoSilentError
PROPERTY CancelAnswered
PROPERTY KeepsPromise
\* The transfer may rest.
CHECK_DEADLOCK FALSE
