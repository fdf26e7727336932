SPECIFICATION HandoffSpec
CONSTANTS
    h1 = h1
    h2 = h2
    Handoffs = {h1, h2}
    Captured = {h1}
    MaxSockets = 2
INVARIANT KeptUntilAuthorized
CHECK_DEADLOCK FALSE
