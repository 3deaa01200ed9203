SPECIFICATION Spec
CONSTANTS
    Call <- MCCall
    Rank <- MCRank
    MaxFloat = 200
    ToleranceInverse = 50
    None = None
INVARIANT ValidationReturns
CHECK_DEADLOCK FALSE
