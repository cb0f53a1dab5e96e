\* Two API threads that create, update, log and delete contacts and dismiss
\* reminders, while two evaluations of one window run at once and the audit
\* log's time source fails and recovers.
SPECIFICATION Spec
CONSTANTS
    c1 = c1  c2 = c2  c3 = c3  g1 = g1  g2 = g2  w1 = w1  w2 = w2  t1 = t1  t2 = t2  e1 = e1  e2 = e2
    ContactIds = {c1, c2, c3}
    CategoryIds = {g2}
    WindowIds = {w1}
    Threads = {t1, t2}
    Evaluators = {e1, e2}
    MaxTime = 1
    MaxRequests = 2
    MaxContacts = 2
    PerWindowCap = 1
    InitialContacts = {c1}
    Operations = {"create_contact", "update_contact", "delete_contact", "log_event", "dismiss", "outage"}
    Cadence <- MCCadence
    Day = 4
    Settings <- MCSettings
    MinuteAt <- MCMinuteAt
    WindowsAt <- MCWindowsAt
SYMMETRY MCSymmetry
INVARIANTS AllOrNothingDelete CapPerWindow OncePerWindow
PROPERTY ContactsFollowTheirLife
CHECK_DEADLOCK FALSE
