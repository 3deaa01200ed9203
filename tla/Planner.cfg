SPECIFICATION Spec
CONSTANTS
    Call <- MCCall
    Rank <- MCRank
    MaxFloat = 200
    ToleranceInverse = 50
    None = None
INVARIANTS
    TypeOK
    AdmitsExactly
    ReasonsInOrder
    EveryFaultNamed
    ScoreInBounds
    
PROPERTY ImplementsSelection
CHECK_DEADLOCK FALSE
