\* One scheduler evaluation at a time against one API thread.  Two windows, so
\* that a contact's snooze or logged contact in the first matters in the second.
SPECIFICATION Spec
CONSTANTS
    c1 = c1  c2 = c2  c3 = c3  g1 = g1  g2 = g2  w1 = w1  w2 = w2  t1 = t1  t2 = t2  e1 = e1  e2 = e2
    ContactIds = {c1, c2}
    CategoryIds = {g2}
    WindowIds = {w1, w2}
    Threads = {t1}
    Evaluators = {e1}
    MaxTime = 2
    MaxRequests = 2
    MaxContacts = 2
    PerWindowCap = 1
    InitialContacts = {c1, c2}
    Operations = {"snooze", "dismiss", "mark_contacted", "grant", "withdraw", "outage"}
    Cadence <- MCCadence
    Day = 4
    Settings <- MCSettings
    MinuteAt <- MCMinuteAt
    WindowsAt <- MCWindowsAt
SYMMETRY MCSymmetry
INVARIANTS TypeOK StableRowMadeItDue ConsentedDuringEvaluation ClockResetIsAudited
CHECK_DEADLOCK FALSE
