\* One job sent while the audit log cannot record it.
SPECIFICATION Spec
CONSTANTS
    j1 = j1  j2 = j2  j3 = j3  p1 = p1  t1 = t1  t2 = t2
    Jobs = {j1}
    Valid = {j1}
    Owned = {j1}
    Encryptable = {j1}
    Endpoints = {p1}
    Workers = {t1}
    TTL = 0
    Threshold = 1
    DLQSize = 1
    MaxTime = 1
    MaxRestarts = 0
    MaxChanges = 0
INVARIANT UnrecordedSendIsDeadLettered
CHECK_DEADLOCK FALSE
