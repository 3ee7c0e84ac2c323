CONSTANTS
    Kinds <- MCKinds
    At <- MCAt
    Total <- MCTotal
    MinFrame = 16
    MaxFrame = 30
    Reads = {1, 6, 7, 13, 16}
    Pieces = {8, 50}
    MaxViewers = 2
SPECIFICATION Spec
INVARIANTS RtspInv DrainedAtDelimiter FramerSeesWholeUnits
PROPERTIES WholePictures NothingSkipped FeedFollowsStreams
CHECK_DEADLOCK FALSE
