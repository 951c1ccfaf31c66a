CONSTANTS
    FileSizes <- MCFileSizes
    SegmentSizes <- MCSegmentSizes
    ReceiverCounts <- MCReceiverCounts
SPECIFICATION FairSpec
INVARIANTS
    DealtAsAnnounced
    SegmentsAreTheFile
PROPERTY
    EndsUnlessShrunk
CHECK_DEADLOCK FALSE
