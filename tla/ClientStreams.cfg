SPECIFICATION Spec
CONSTANTS
    c1 = c1
    c2 = c2
    Calls <- Two
    ChanCalls <- Two
    NotifyCalls <- None
    RetryCalls <- None
    CtxCalls <- None
    Reconnects = TRUE
    TimesOut = TRUE
    Endings <- Abrupt
    MaxAttempts = 1
    MaxGen = 2
    MaxChan = 1
    MaxVals = 1
    FrameQ = 2
    NoSink = NoSink
INVARIANTS
    HandlersOpen
    FramesReachOwnSink
    TypeOK
    OneTransport
    ClosedAfterFail
    SinkOwned
    AnsweredBeforeExit
SYMMETRY TwoSymmetry
CHECK_DEADLOCK FALSE
