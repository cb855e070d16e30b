SPECIFICATION FairSpec
CONSTANTS
    Code <- MCCode
    Batch <- MCBatch
    Converted <- MCConverted
INVARIANTS FindsMedian SpikesRejected
PROPERTIES Settles
CHECK_DEADLOCK FALSE
