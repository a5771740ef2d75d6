SPECIFICATION Spec
CONSTANTS
    r1 = r1  r2 = r2
    teacher = teacher  student = student  guest = guest
    s1 = s1  s2 = s2
    Requests = {r1, r2}
    Background = {}
    Hosts = {teacher, student}
    Invitees = {}
    Slots = {s1, s2}
    None = None
    Grace = 1
    MaxFailures = 0
PROPERTY LifecycleKept
CHECK_DEADLOCK FALSE
