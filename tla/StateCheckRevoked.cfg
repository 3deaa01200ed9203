SPECIFICATION AcceptedSpec
CONSTANTS
    Profile = {p1, p2}
    Request = {r1}
    Contract = {c1, c2}
    Artifact = {a1}
    Device = {d1, d2}
    Precision = {x1}
    Bound <- MCBound
    None = None
    MaxIssue = 3
INVARIANT NoRevokedContractDispatched
