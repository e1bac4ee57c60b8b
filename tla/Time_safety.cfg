SPECIFICATION TimeSpec
CONSTANTS
    t1 = t1
    t2 = t2
    Threads <- MCThreads
    PhysicalMax = 3
    LogicalMax = 2
    WallTimes = {0, 6}
    Remotes <- MCRemotes
    Initial <- MCInitial
    MaxIssued = 4
    Resources = {"x", "y"}  Actors = {"a", "b"}  LeaseTicks = 2  MaxLeases = 2  MaxTime = 6
    Callers = {"a", "b"}  FailureThreshold = 2  OpenDuration = 2  MaxInstant = 6
    Limit = 2  Refill = 3  Requests = {1, 2}  MaxTick = 7
    Triggers = {"t1", "t2"}  Schedule <- MCSchedule  BadCron = {"t2"}  MaxClock = 4  MaxRegistrations = 2
    Tasks = {"a", "b"}  Issuers = {"i"}  Ttl = 2  MaxKeyTime = 4  MaxKeys = 2
    MaxLines = 3
    Ids = {1, 2, 3}  FirstBatch = 1  PageSize = 1
    Scripts <- MCScripts  Repeatable <- MCRepeatable  Procs = {"a", "b"}  MaxStops = 1
    Exports = {1, 2, 3}  Runners = {"a", "b"}  Backends <- MCBackends  BatchSize = 2  MaxFaults = 1
CHECK_DEADLOCK FALSE
INVARIANTS
    TypeOK StampsIncrease ObservedIsBehind  
PROPERTIES
    ClockNeverGoesBack ImplementsLease RoundsArrive
