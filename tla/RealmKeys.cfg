SPECIFICATION FairSpec
CONSTANTS
    Key = {k1, k2, k3}
    Worker = {w1, w2, w3}
    None = None
INVARIANTS OneActiveKey SignedKeysStored
PROPERTIES TransactionsEnd
CHECK_DEADLOCK FALSE
