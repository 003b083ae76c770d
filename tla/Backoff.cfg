SPECIFICATION Spec
CONSTANTS
    MinDelay = 2
    MaxDelay = 100
    Width = 8
    MaxAttempts = 12
INVARIANTS
    DelayInBounds
CHECK_DEADLOCK FALSE
