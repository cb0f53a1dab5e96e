\* Damage followed by one more append.
SPECIFICATION Spec
CONSTANTS
    p1 = p1  p2 = p2
    Writers = {p1}
    Actions <- MCActions
    Accountability <- MCAccountability
    Retention = 1
    MaxTime = 3
    MaxEntries = 3
INVARIANT VerifiedLogIsComplete
CHECK_DEADLOCK FALSE
