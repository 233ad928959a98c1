SPECIFICATION FairSpecWithCleanup
CONSTANTS
    Session = {s1}
    Code = {c1}
    Token = {t1, t2}
    Worker = {w1}
    None = None
    IdleLife = 1
    MaxLife = 2
    RefreshLife = 2
    CodeLife = 2
    MaxTime = 2
    BatchSize = 2
    MaxKills = 1
PROPERTIES CleanupEnds ExpiredRemoved
