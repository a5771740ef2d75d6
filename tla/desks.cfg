SPECIFICATION DesksSpec
CONSTANTS
    teacher = teacher  student = student  guest = guest
    h1 = h1  h2 = h2  h3 = h3  b1 = b1  b2 = b2  s1 = s1  s2 = s2
    q1 = q1  sweeper = sweeper
    Requests = {h1, h2}
    Background = {}
    Hosts = {teacher, student}
    Invitees = {guest}
    Slots = {s1, s2}
    None = None
    Grace = 1
    MaxFailures = 1
    Bookings = {b1, b2}
    GridSlots = {s1, s2}
    Offers <- AllOpen
    Clerks = {h1, h2}
    Overlapping = {"book", "accept", "refuse"}
    NoShowFrom = {"confirmed"}
    MaxCrashes = 0
    Nil = Nil
    Questions = {q1}
    QuizKinds <- Quizzes
    Tabs = {h1, h2, h3}
    MaxItems = 2
    Punctual = TRUE
    MaxRows = 3
    NoAttempt = NoAttempt
    Browsers = {h1, h2}
    Sweeper = sweeper
    MaxRecords = 2
    Reviewing = FALSE
    VoidsSitting = FALSE
    NoScore = NoScore
    Appts = {b1, b2}
    Times = {0, 1, 2}
    Lengths = {3}
    Opening <- Hours
    Lookback = 2
    Stars = {1}
    MaxReports = 1
    Callers = {h1, h2}
    Colliding = {"time"}
    Approvals = {TRUE, FALSE}
    Unbooked = Unbooked
    Replies = {b1, b2}
    Desks = {h1, h2}
    Apart <- KeptApart
    MaxFiled = 2
    NoReply = NoReply
    Offices = {h1, h2}
    Crossing = {"row"}
    MaxUploads = 2
    MaxVersions = 2
SYMMETRY Symmetry
INVARIANTS RowIsCoherent ProposalIsRecorded DeskBooksInv AttemptInv ExamInv
PROPERTIES SubmittedStands SpentAwardStaysSpent
CHECK_DEADLOCK FALSE
