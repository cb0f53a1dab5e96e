\* Two writers: an API thread and the retention job, or two API threads.
SPECIFICATION Spec
CONSTANTS
    p1 = p1  p2 = p2
    Writers = {p1, p2}
    Actions <- MCActions
    Accountability <- MCAccountability
    Retention = 1
    MaxTime = 3
    MaxEntries = 2
SYMMETRY MCSymmetry
INVARIANTS TypeOK NoFalseAlarm FreshDamageIsDetected
PROPERTY NeededEntriesSurvive
CHECK_DEADLOCK FALSE
