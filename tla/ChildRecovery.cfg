SPECIFICATION FairSpec
CONSTANTS
    w1 = w1  w2 = w2  l1 = l1  l2 = l2
    Workers = {w1, w2}
    LeaseIds = {l1, l2}
    NoId = NoId
    Sent <- SentToAll
    MaxEpoch = 3
    MaxMail = 2
INVARIANTS TypeOK ReceiptFound
PROPERTIES ControlHeeded RetryEnds
CHECK_DEADLOCK FALSE
CONSTRAINT Ordered
