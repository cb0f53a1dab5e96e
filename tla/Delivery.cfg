\* Two worker threads and two jobs that can be delivered, and two changes
\* of consent, endpoint or breaker.
SPECIFICATION Spec
CONSTANTS
    j1 = j1  j2 = j2  j3 = j3  p1 = p1  t1 = t1  t2 = t2
    Jobs = {j1, j2}
    Valid = {j1, j2}
    Owned = {j1, j2}
    Encryptable = {j1, j2}
    Endpoints = {p1}
    Workers = {t1, t2}
    TTL = 0
    Threshold = 1
    DLQSize = 1
    MaxTime = 1
    MaxRestarts = 0
    MaxChanges = 2
SYMMETRY MCSymmetry
INVARIANTS TypeOK SendIsAuthorized SendsAreBounded LateSendsAreBounded NoSilentLoss
CHECK_DEADLOCK FALSE
