SPECIFICATION FairSpec
CONSTANTS
    User = {1, 2}
    Client = {1}
    Spelling <- MCSpelling
    Address <- MCAddress
    Fold <- MCFold
    Document <- ImportDocs
    Worker = {w1, w2}
    None = None
INVARIANTS ConflictNeedsRival
PROPERTIES AppliesDocument SecretFollowsType ImportsEnd
