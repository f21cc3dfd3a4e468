\* Four cameras that list their frames in ascending order.
SPECIFICATION Spec
CONSTANTS
    Cameras <- AllCameras
    Asked <- AllKinds
    Sizes <- AllSizes
    Rates = {3}
    Divisors = {1, 4}
    Second = 12
    MaxPackets = 2
    LinkFails = TRUE
INVARIANT OfferedIsFoundAscending
INVARIANT AvailableIsOffered
INVARIANT AnswerIsAsked
INVARIANT RunningFits
