SPECIFICATION Spec
CONSTANTS
    Worker = {w1, w2, w3}
    Threshold = 2
    Window = 2
    Lock = 3
    None = None
    MaxTime = 7
SYMMETRY Symmetry
INVARIANTS BlockAtThreshold OneLateCheck
PROPERTIES BlockHeld
CHECK_DEADLOCK FALSE
