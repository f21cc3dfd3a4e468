\* Three cameras, and those with one or two things wrong with their descriptors.
CONSTANTS
    Blobs <- MCBlobs
    USB_MAXINTERFACES = 3
    USB_MAXENDPOINTS = 1
SPECIFICATION Spec
INVARIANT TreeIsPrefix
INVARIANT WellFormedIsKept
INVARIANT FormatsAreKept
INVARIANT NothingLeaks
