SPECIFICATION Spec
CONSTANTS
    teacher = teacher  ana = ana  r1 = r1
    Teacher = teacher
    Students = {ana}
    Requests = {r1}
    Starts <- LateStart
    Length = 1
    Early = 0
    Grace = 1
    Extension = 1
    MaxExtension = 1
    Reconnect = 0
    Abandon = 1
    None = None
    Horizon = 2
    MaxActs = 3
    MaxFailures = 0
PROPERTY CompletedIsFinal
CHECK_DEADLOCK FALSE
