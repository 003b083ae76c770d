SPECIFICATION FairSpec
CONSTANTS
    s1 = s1
    s2 = s2
    NoStream = NoStream
    Streams <- Two
    Observed = s1
    Readers <- Second
    Cancels <- First
    Unencodable <- ThirdValue
    Undecodable <- SecondValue
    Amount <- AllToFirst
    MaxVals = 5
    MaxWire = 1
    FrameQ = 1
    IncomingCap = 1
INVARIANTS
    TypeOK
    NothingLost
    NoSendOnClosed
PROPERTIES
    KeepsPromise
    ReadersSeeTheEnd
    CancelReachesMethod
CHECK_DEADLOCK FALSE
