SPECIFICATION FairSpec
CONSTANTS
    f1 = f1
    f2 = f2
    Nobody = Nobody
    Calls <- Both
    Reverses <- Both
    MaxGen = 2
    PanicGens <- First
INVARIANTS
    TypeOK
    StaleOrOwn
PROPERTIES
    ConnectionEnds
    CallBacksReturn
CHECK_DEADLOCK FALSE
