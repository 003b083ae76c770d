SPECIFICATION Spec
CONSTANTS
    r1 = r1
    r2 = r2
    r3 = r3
    i1 = i1
    i2 = i2
    NoId = NoId
    NoReq = NoReq
    Reqs <- Two
    Ids <- TwoIds
    id <- OwnIds
    ChanReqs <- Two
    Heedless <- Second
    Unencodable <- None
    Limit = 2
    MaxVals = 1
    Endings <- BothEndings
INVARIANTS
    WireGrammar
    RegistrationsAligned
CHECK_DEADLOCK FALSE
