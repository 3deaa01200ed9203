SPECIFICATION HSpec
CONSTANTS
    Profile = {p1}
    Request = {r1}
    Contract = {c1, c2}
    Artifact = {a1}
    Device = {d1}
    Precision = {x1}
    Bound <- MCBound
    None = None
    MaxIssue = 2
INVARIANTS
    TypeOK
    GrantInv
PROPERTY StaleDispatchNamed
