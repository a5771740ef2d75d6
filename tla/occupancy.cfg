SPECIFICATION OccupancySpec
CONSTANTS
    teacher = teacher  student = student  h1 = h1  w1 = w1  w2 = w2  t1 = t1  t2 = t2  s1 = s1
    morning = morning
    Requests = {h1}
    Background = {t1, t2, Cron}
    Timers = {t1, t2}
    Cron = Cron
    Workers = {w1, w2}
    Hosts = {teacher, student}
    Invitees = {}
    Slots = {s1}
    None = None
    Grace = 2
    MaxFailures = 0
    Learners = {teacher, student}
    Batches = {morning}
    NoRow = NoRow
    Capacity <- OneSeat
    Term = 1
    MaxLeft = 2
    Handlers = {t1, t2}
CONSTRAINTS NotOver NoOverlap
SYMMETRY Symmetry
INVARIANTS CountIsCovered EmptyRoomIsNoticed PendingSleeps AccessInv
PROPERTIES StacksOnlyByOverlap LockedPlacementsFit
CHECK_DEADLOCK FALSE
