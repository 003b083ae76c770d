SPECIFICATION FairSpec
CONSTANTS
    c1 = c1
    c2 = c2
    Calls <- Two
    ChanCalls <- First
    NotifyCalls <- None
    RetryCalls <- First
    CtxCalls <- None
    Reconnects = TRUE
    TimesOut = FALSE
    Endings <- None
    MaxAttempts = 2
    MaxGen = 2
    MaxChan = 1
    MaxVals = 0
    FrameQ = 1
    NoSink = NoSink
PROPERTIES
    StreamsEnd
CHECK_DEADLOCK FALSE
