\* Submissions may be refused, the cable pulled at any moment, and a thread polls for frames.
SPECIFICATION FairSpec
CONSTANTS
    NumTransfers = 2
    MaxStarts = 1
    NumPollers = 1
    Faults = {"unplug", "submit"}
    NULL = NULL
INVARIANT NoDanglingSlot
PROPERTY StopReturnsQuiet
\* A closed handle is the end of its life.
CHECK_DEADLOCK FALSE
