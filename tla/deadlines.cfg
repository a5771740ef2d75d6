SPECIFICATION DeadlinesSpec
CONSTANTS
    teacher = teacher  student = student  h1 = h1  t1 = t1  w1 = w1  s1 = s1  b1 = b1
    m1 = m1  m2 = m2  m3 = m3  k1 = k1  k2 = k2  p1 = p1  p2 = p2  x1 = x1  x2 = x2
    sweeper = sweeper
    Requests = {h1}
    Background = {t1, Cron}
    Timers = {t1}
    Cron = Cron
    Workers = {w1}
    Hosts = {teacher, student}
    Invitees = {}
    Slots = {s1}
    None = None
    Grace = 1
    MaxFailures = 1
    Bookings = {b1}
    GridSlots = {s1}
    Offers <- AllOpen
    Clerks = {h1}
    Overlapping <- Ops
    NoShowFrom = {"confirmed", "completed"}
    MaxCrashes = 1
    Nil = Nil
    Sends = {m1, m2, m3}
    ClientIds = {k1, k2}
    ClientOf <- Carry
    Audience = {p1, p2}
    CanMute = {p2}
    Relays = {x1, x2}
    Batch = 1
    MaxAttempts = 2
    MaxFaults = 2
    NoEvent = NoEvent
    Browsers = {h1}
    Sweeper = sweeper
    MaxRecords = 1
    Reviewing = TRUE
    VoidsSitting = TRUE
    NoScore = NoScore
CONSTRAINT NotOver
INVARIANTS OutboxInv
PROPERTIES EmptyRoomEnds StaleRequestEnds KeepsPromise OverdueExamIsScored
CHECK_DEADLOCK FALSE
