\* The camera stays plugged in and every submission is accepted.
SPECIFICATION FairSpec
CONSTANTS
    NumTransfers = 3
    MaxStarts = 2
    NumPollers = 0
    Faults = {}
    NULL = NULL
INVARIANT ClosedIsQuiet
PROPERTY KeepsPromise
PROPERTY StopTerminates
\* A closed handle is the end of its life.
CHECK_DEADLOCK FALSE
