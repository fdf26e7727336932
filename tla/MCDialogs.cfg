SPECIFICATION Spec
CONSTANTS
    h1 = h1
    h2 = h2
    Handoffs = {h1, h2}
    Captured = {h1}
    MaxSockets = 2
    Links = {"pub", "nas"}
    Private = {"nas"}
    MaxInFlight = 2
    MaxEdits = 2
    PaneTasks = {"a", "b"}
    Moving = {"a"}
    MaxVersion = 3
    MaxMoves = 2
    Navs = {n1, n2}
    Searches = {s1, s2}
    LastPage = 3
    MaxEpoch = 3
INVARIANTS HandoffIsSafe DialogIsSound PaneIsCurrent
PROPERTIES HandoffSettles ShowsNewestAnswer SelectsWhatIsShown ReloadIsServed
CHECK_DEADLOCK FALSE
