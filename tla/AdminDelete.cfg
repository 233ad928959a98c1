SPECIFICATION Spec
CONSTANTS
    Client = {c1, c2}
    Session = {s1}
    Code = {k1}
    Token = {t1, t2}
    Tab = {a1}
    Web = {w1}
    Admin = {w1, w2}
    None = None
SYMMETRY Symmetry
INVARIANTS ForeignKeysHold SeenGrantsKept RefusedOnlyIfOvertaken DeadlockShape
CONSTRAINT OverlapBound
CHECK_DEADLOCK FALSE
