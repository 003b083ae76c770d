SPECIFICATION FairSpec
CONSTANTS
    p1 = p1
    p2 = p2
    NoPost = NoPost
    Bodies <- AllBodies
    Methods <- Names
    Aliases <- Other
    ErrTypes <- TwoErrors
    Fallible <- JustLate
    Registered <- LateFirst
    Posts <- TwoPosts
    Uuids <- AllUuids
    uuid <- Uuid
INVARIANTS
    TypeOK
    OutputIsJson
    AnswersMatchRequests
    StatusAnnouncesRefusal
    
    PushedToItsCall
PROPERTIES
    RequestEnds
CHECK_DEADLOCK FALSE
