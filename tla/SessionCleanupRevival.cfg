SPECIFICATION SpecWithCleanup
CONSTANTS
    Session = {s1}
    Code = {c1, c2}
    Token = {t1, t2}
    Worker = {w1, w2}
    None = None
    IdleLife = 2
    MaxLife = 3
    RefreshLife = 2
    CodeLife = 1
    MaxTime = 2
    BatchSize = 1
    MaxKills = 0
SYMMETRY Symmetry
INVARIANTS InactiveStaysUnusable
