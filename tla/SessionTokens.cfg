SPECIFICATION Spec
CONSTANTS
    Session = {s1}
    Code = {c1, c2}
    Token = {t1, t2, t3}
    Worker = {w1, w2}
    None = None
    IdleLife = 2
    MaxLife = 3
    RefreshLife = 2
    CodeLife = 1
    MaxTime = 2
SYMMETRY Symmetry
INVARIANTS OneFamilyPerCode NoFork RotationAtomic DeadSessionInert ExpiryWithinSession NoStandstill
PROPERTIES RevokedSessionFrozen NoSilentReuse ImplementsLedger
