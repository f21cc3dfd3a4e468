\* Bulk, iso and iSight streams with every fault, stopped and started again.
SPECIFICATION Spec
CONSTANTS
    MaxFrames = 4
    MaxStarts = 2
    Parts = 2
    SizeBuf = 4
    Faults = {"status", "error_bit", "bogus", "short", "retried"}
 
INVARIANT GapsAreMarkedOrSkipped
INVARIANT UnmarkedIsOneFrame
 
\* The camera may stop sending.
CHECK_DEADLOCK FALSE
