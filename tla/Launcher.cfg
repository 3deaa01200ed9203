SPECIFICATION Spec
CONSTANTS
    Leader = leader
    Child = {c1, c2}
    Limit = 2
    MaxProduced = 3
INVARIANTS
    TypeOK
    OnlyVerifiedRuns
    SuccessIsGenuine
    CancelledIsTimeout
    NothingEscapesCancel
    NoGoroutineLeft
    OutputLimitExact
PROPERTY RunReturns
CHECK_DEADLOCK FALSE
