\* The cable is pulled while the stream runs, and then the application closes the stream.
SPECIFICATION FairSpec
CONSTANTS
    NumTransfers = 2
    MaxStarts = 1
    NumPollers = 0
    Faults = {"pull"}
    NULL = NULL
INVARIANT ClosedIsQuiet
\* A closed handle is the end of its life.
CHECK_DEADLOCK FALSE
