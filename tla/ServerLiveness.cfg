SPECIFICATION FairSpec
CONSTANTS
    r1 = r1
    r2 = r2
    r3 = r3
    i1 = i1
    i2 = i2
    NoId = NoId
    NoReq = NoReq
    Reqs <- Two
    Ids <- TwoIds
    id <- OwnIds
    ChanReqs <- Two
    Heedless <- None
    Unencodable <- None
    Limit = 1
    MaxVals = 0
    Endings <- Panic
INVARIANTS
    TypeOK
    SlotsExact
    NoSlotLeak
PROPERTIES
    CallsAnswered
    SlotsReturned
    CloseReported
CHECK_DEADLOCK FALSE
