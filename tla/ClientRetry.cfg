SPECIFICATION Spec
CONSTANTS
    c1 = c1
    c2 = c2
    Calls <- Two
    ChanCalls <- First
    NotifyCalls <- Second
    RetryCalls <- First
    CtxCalls <- First
    Reconnects = TRUE
    TimesOut = FALSE
    Endings <- StopOnly
    MaxAttempts = 2
    MaxGen = 2
    MaxChan = 1
    MaxVals = 0
    FrameQ = 1
    NoSink = NoSink
INVARIANTS
    NoCallForgotten
    InflightUnanswered
    NotDeaf
    CancelOnlyIfUserCancelled
CHECK_DEADLOCK FALSE
