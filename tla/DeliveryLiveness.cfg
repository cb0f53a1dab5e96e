\* One of each kind of job: deliverable, without an owner, without a confidential
\* channel.  Items expire, the process restarts, the dead-letter queue fills up.
SPECIFICATION Spec
CONSTANTS
    j1 = j1  j2 = j2  j3 = j3  p1 = p1  t1 = t1  t2 = t2
    Jobs = {j1, j2, j3}
    Valid = {j1, j2, j3}
    Owned = {j1, j3}
    Encryptable = {j1}
    Endpoints = {p1}
    Workers = {t1}
    TTL = 0
    Threshold = 1
    DLQSize = 1
    MaxTime = 2
    MaxRestarts = 1
    MaxChanges = 0
PROPERTIES JobsAreDispatched EveryJobLeavesTheQueue
CHECK_DEADLOCK FALSE
