SPECIFICATION DispatchSpec
CONSTANTS
    r1 = r1
    r2 = r2
    r3 = r3
    k1 = k1
    a1 = a1
    a2 = a2
    s1 = s1
    NoKey = NoKey
    NoActor = NoActor
    NoCommand = NoCommand
    Keys = {k1}
    Actors = {a1, a2}
    Sessions = {s1}
    Requests <- MCRequests
    Jobs <- MCRetry
    Faults = FALSE
    Deliveries = {"a", "b", "c"}  DedupeKeys = {"k", "l"}  MaxErrors = 1
    Boots = {"m", "n"}  Browsers = {"a", "b"}  Passwords = {"p", "q"}  MaxCodes = 2  MaxTokens = 2
    Workspaces = {"v", "w"}  Logins = {"s"}  SessionOf <- MCSessionOf  Limit = 1  MaxRequests = 2
    Configs <- MCConfigs
    Tables <- MCTables  RowKeys = {1, 2, 3}  Values = {2}  Args = {2}  MaxPage = 1  MaxWrites = 2
    Processes = {"p", "q"}  Scopes = {"a"}  EntityTypes <- MCEntityTypes  RelationTypes = {"knows", "near"}
    Cap = 1  MaxRelations = 2
    Paths = {"dist", "home", "src"}  Dangerous = {"dist", "home"}  Rules <- MCRules  MaxPaths = 3  MaxRules = 2
CHECK_DEADLOCK FALSE
INVARIANT KeyRunsOnce
