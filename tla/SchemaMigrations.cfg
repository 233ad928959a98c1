SPECIFICATION Spec
CONSTANTS
    Key = {k1, k2}
    Scope = {realms, clients}
    Name = {"acme", "Acme", "other"}
    Normal <- Lower
    Job = {j1, j2}
    User = {u1, u2}
    None = None
    MaxFlows = 2
    MaxMessages = 3
SYMMETRY Symmetry
INVARIANTS RefusedOnlyForCollision IdentitiesNormalized PositionsKnown
PROPERTIES UpgradeAsksAgain
CHECK_DEADLOCK FALSE
