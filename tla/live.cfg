SPECIFICATION FairSpec
CONSTANTS
    teacher = teacher  ana = ana  r1 = r1
    Teacher = teacher
    Students = {ana}
    Requests = {r1}
    Starts <- OneStart
    Length = 1
    Early = 0
    Grace = 1
    Extension = 1
    MaxExtension = 1
    Reconnect = 0
    Abandon = 1
    None = None
    Horizon = 3
    MaxActs = 3
    MaxFailures = 1
INVARIANTS TypeOK
PROPERTIES ClassEnds MissedLeaveIsRepaired
CHECK_DEADLOCK FALSE
