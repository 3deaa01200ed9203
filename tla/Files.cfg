SPECIFICATION Spec
CONSTANTS
    Keygen = {g1, g2}
    Writer = {w1, w2, w3}
    KeyPath = {k1, k2}
    Out = out
    None = None
SYMMETRY Perms
INVARIANTS
    NeverTorn
    NothingLeftBehind
PROPERTIES
    OnlyOwnFiles
    SuccessIsPair
    ImplementsAtomicFile
CHECK_DEADLOCK FALSE
