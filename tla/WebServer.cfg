CONSTANTS
    c1 = c1
    c2 = c2
    p1 = p1
    p2 = p2
    p3 = p3
    Conn = {c1, c2}
    Proc = {p1, p2, p3}
    MaxInbox = 2
    MaxFiles = 1
SPECIFICATION Spec
SYMMETRY Symmetric
CHECK_DEADLOCK FALSE
INVARIANTS
    ListedRunning
    TrackedUntilCancelled
    ColourCurrent
