SPECIFICATION DecisionsSpec
CONSTANTS
    r1 = r1
    r2 = r2
    d1 = d1
    d2 = d2
    allowed = allowed
    asked = asked
    blocked = blocked
    NoCall = NoCall
    Tools <- MCTools
    Guard <- MCGuard
    Requests <- MCRequests
    Decisions <- MCDecisions
    Nodes = {1, 2, 3}  EdgeSets <- MCEdgeSets  Gates = {2}  NoOps = {3}  MaxAnswers = 4
    Candidates = {"c1", "c2"}  Reviews = {"v1", "v2"}  Opposing = {{"c1", "c2"}}  MaxMemories = 2
    Faults = TRUE
CHECK_DEADLOCK FALSE
INVARIANTS
    TypeOK StatusHasACause LoneDecisionSticks EventsAreBacked FlowIsOrdered 
PROPERTIES
    ApprovalIsFinal PendingIsDecidable
