SPECIFICATION Spec
CONSTANTS
    r1 = r1
    r2 = r2
    r3 = r3
    i1 = i1
    i2 = i2
    NoId = NoId
    NoReq = NoReq
    Reqs <- Three
    Ids <- TwoIds
    id <- SameId
    ChanReqs <- One
    Heedless <- None
    Unencodable <- Second
    Limit = 2
    MaxVals = 1
    Endings <- BothEndings
INVARIANTS
    StaysCancellable
CHECK_DEADLOCK FALSE
