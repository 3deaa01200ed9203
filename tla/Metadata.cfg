SPECIFICATION Spec
CONSTANTS
    Key = {"apiVersion", "kind", "KIND", "requests", "x"}
    FieldOf <- MCField
    MaxDepth = 1
    MaxTokens = 8
    Version = {"", "v1alpha1", "v2"}
    APIVersion = "v1alpha1"
    Body <- MCBody
    MaxUnknownVersions = 2
    MaxRequests = 2
    MaxDevices = 2
    MaxAttributes = 1
    MaxExactInteger = 3
    None = None
INVARIANTS
    TypeOK
    PassesExactly
    FirstSupported
    AttributeMeansItsValue
CHECK_DEADLOCK FALSE
