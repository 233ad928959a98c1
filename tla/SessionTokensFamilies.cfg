SPECIFICATION Spec
CONSTANTS
    Session = {s1}
    Code = {c1}
    Token = {t1}
    Worker = {w1, w2}
    None = None
    IdleLife = 2
    MaxLife = 3
    RefreshLife = 2
    CodeLife = 1
    MaxTime = 2
INVARIANT AllFamiliesRevoked
