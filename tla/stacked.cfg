SPECIFICATION FreeCallsSpec
CONSTANTS
    student = student  t1 = t1  t2 = t2  morning = morning
    Learners = {student}
    Batches = {morning}
    NoRow = NoRow
    Capacity <- OneSeat
    Term = 1
    MaxLeft = 2
    Handlers = {t1, t2}
PROPERTY FreeNeverStacks
CHECK_DEADLOCK FALSE
