SPECIFICATION FairSpec
CONSTANTS
    QueueSize = 1
    MaxSeq = 3
    MaxEpoch = 1
INVARIANTS TypeOK
PROPERTIES TellsAll DeliveredOrTold StaleStreamEnds
CHECK_DEADLOCK FALSE
