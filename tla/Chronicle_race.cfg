SPECIFICATION ChronicleSpec
CONSTANTS
    w1 = w1
    w2 = w2
    s1 = s1
    NoSession = NoSession
    Writers <- MCWriters
    Sessions <- MCSessions
    Kinds = {"engine"}
    FractionSteps = 0
    MaxTime = 2
    ClockBack = FALSE
    FineClock = TRUE
    MaxEvents = 2
    EventTypes <- MCEventTypes  Protected = {2}  ReplayModes = {"recorded", "policy"}
    Publishers = {"p1", "p2"}  Subscribers = {"s1"}  Capacity = 1  PageLimit = 2  MaxId = 3  MaxConnects = 2
    Frames = 5  Buffer = 2  Selected = {1, 2, 4, 5}  Garbled = {2}
CHECK_DEADLOCK FALSE
INVARIANT SessionChainsAreLines
