SPECIFICATION Spec
CONSTANTS
    User = {1, 2}
    Client = {1}
    Spelling <- MCSpelling
    Address <- MCAddress
    Fold <- MCFold
    Document <- Renaming
    Worker = {w1, w2}
    None = None
SYMMETRY Symmetry
INVARIANTS EmailsUnique
