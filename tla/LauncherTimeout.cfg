SPECIFICATION Spec
CONSTANTS
    Leader = leader
    Child = {c1}
    Limit = 1
    MaxProduced = 1
INVARIANT TimeoutStrandsNobody
CHECK_DEADLOCK FALSE
