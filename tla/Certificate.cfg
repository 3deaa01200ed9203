SPECIFICATION Spec
CONSTANTS
    Artifact = {"a1", "a2"}
    Model = {"m1"}
    Key = {k1, k2}
    Trusted = k1
    Skew = 1
    Drift = 1
    Draft <- MCDraft
    Time <- MCTime
    MaxNow = 5
    MaxEdits = 2
    MaxSigned = 1
    None = None
INVARIANTS
    TypeOK
    LaunchAuthentic
    LawfulAccepted
CHECK_DEADLOCK FALSE
