\* An evaluation that listed the contact before its deletion adds a reminder after it.
SPECIFICATION Spec
CONSTANTS
    c1 = c1  c2 = c2  c3 = c3  g1 = g1  g2 = g2  w1 = w1  w2 = w2  t1 = t1  t2 = t2  e1 = e1  e2 = e2
    ContactIds = {c1}
    CategoryIds = {g2}
    WindowIds = {w1}
    Threads = {t1}
    Evaluators = {e1}
    MaxTime = 1
    MaxRequests = 1
    MaxContacts = 1
    PerWindowCap = 1
    InitialContacts = {c1}
    Operations = {"delete_contact"}
    Cadence <- MCCadence
    Day = 4
    Settings <- MCSettings
    MinuteAt <- MCMinuteAt
    WindowsAt <- MCWindowsAt
INVARIANT DeletionLeavesNoReminder
CHECK_DEADLOCK FALSE
