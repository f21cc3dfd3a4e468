\* Streams with and without a callback, started twice, with errors.
SPECIFICATION HandoffSpec
CONSTANTS
    SeqMod = 4
    MaxCaptured = 6
    MaxStarted = 2
    Mode = "any"
INVARIANT FrameIntact
PROPERTY NeverBackwards
PROPERTY OncePerFrameUnlessSpoiled
PROPERTY HeldFrameSeen
\* The camera may stay silent for ever and the stream may stay stopped.
CHECK_DEADLOCK FALSE
