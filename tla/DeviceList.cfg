\* Both builds: one port, two device objects, two contexts, three changes of the bus.
SPECIFICATION Spec
CONSTANTS
    Ports = {p1}
    MaxDevs = 2
    MaxInits = 2
    MaxUevents = 3
    MaxHeld = 1
INVARIANT NothingDangles
INVARIANT NoLeak
INVARIANT ListMatchesPlugged
INVARIANT NoDeviceMissed
\* The application may stop calling.
CHECK_DEADLOCK FALSE
