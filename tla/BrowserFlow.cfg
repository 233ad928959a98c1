SPECIFICATION Spec
CONSTANTS
    Worker = {w1, w2}
    User = {u1, u2}
    None = None
    MaxCommits = 7
SYMMETRY Symmetry
INVARIANTS CodeAcceptedOnce CompletesOnce PasswordFormAfterFlow MessagePerDelivery BindingFollowsMessage
PROPERTIES ServedOneByOne
CHECK_DEADLOCK FALSE
