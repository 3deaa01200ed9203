SPECIFICATION Spec
CONSTANTS
    i1 = i1
    i2 = i2
    Inode <- MCInode
    Outside <- MCOutside
    Block = {"b1", "b2"}
    Missing = Missing
    Hash <- MCHash
    Digest <- MCDigest
    SizeBytes = 2
    MaxBytes = 2
    MaxLen = 4
    MaxEdits = 1
INVARIANTS
    TypeOK
    StagedIsCertified
    NothingLeftBehind
    CopyBounded
    NoSpuriousFailure
PROPERTY StageReturns
CHECK_DEADLOCK FALSE
