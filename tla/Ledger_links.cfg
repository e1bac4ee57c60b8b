SPECIFICATION LedgerSpec
CONSTANTS
    w1 = w1
    w2 = w2
    s1 = s1
    NoSession = NoSession
    Writers <- MCWriters
    Sessions <- MCSessions
    Kinds = {"engine", "server", "trigger"}
    FractionSteps = 2
    MaxTime = 2
    ClockBack = TRUE
    FineClock = FALSE
    MaxEvents = 3
    EventTypes <- MCEventTypes  Protected = {2}  ReplayModes = {"recorded", "policy"}
    Publishers = {"p1", "p2"}  Subscribers = {"s1"}  Capacity = 1  PageLimit = 2  MaxId = 3  MaxConnects = 2
    Frames = 5  Buffer = 2  Selected = {1, 2, 4, 5}  Garbled = {2}
CHECK_DEADLOCK FALSE
INVARIANTS
    TypeOK LinksExist ForksNeedARace  DeliveryIsAccounted

    
