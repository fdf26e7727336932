SPECIFICATION StoreSpec
CONSTANTS
    Tasks = {t1, t2}
    InitialLists <- TwoRows
    StoreNavs = {"all"}
    MaxChanges = 2
    MaxEvents = 6
    MaxOverlap = 2
INVARIANT ListConverges
CHECK_DEADLOCK FALSE
