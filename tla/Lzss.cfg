CONSTANTS
    N = 8
    F = 4
    Threshold = 2
    Byte = {0, 1}
    MaxText = 9
SPECIFICATION Spec
CHECK_DEADLOCK FALSE
INVARIANTS
    InWindow
    Findable
    LongestMatch
    RoundTrip
PROPERTIES
    Finishes
