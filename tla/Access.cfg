SPECIFICATION Spec
CONSTANTS
    t1 = t1  t2 = t2  u1 = u1  u2 = u2  b1 = b1  b2 = b2
    p1 = p1  p2 = p2  k1 = k1  k2 = k2  k3 = k3  job = job  web = web
    Nobody = Nobody
    Threads = {t1, t2}
    MaxTime = 4  MaxIds = 3
    Users = {u1, u2}
    Idle = 1  Absolute = 2
    Browsers = {b1, b2}  Accounts = {u1, u2}  Credentials = {k1}
    Counts = {0, 1, 2}
    TTL = 1  MaxPending = 1  Leeway = 0
    Purposes = {p1, p2}  KeyRefs = {k1, k2, k3}  Components = {job, web}
    KeysOf <- MCKeysOf  Grants <- MCGrants
    Requests <- MCRequests  MaxRequests = 2  Window = 2  Cap = 1
    Owners = {u1, u2}  Lifetime = 1
    Budget <- MCBudget
    Uses = {"sessions", "refresh tokens", "logins", "passkeys", "vault", "requests", "exports"}
SYMMETRY MCSymmetry
INVARIANTS
    RevokedStaysRevoked
    NoSessionOutlivesSignIn
    RevokedExactlyOnReuse
    NoLateLogin
    PendingIsBounded
    CounterIsHighest
    DecryptsAreGrantedAndRecorded
    OnlyRotationLosesObjects
    FewerThanTwiceTheLimit
    SlotsAreAccountedFor
    ServedOrRefused
    ServedOnceInTime
PROPERTY TicketsAreSingleUse
CHECK_DEADLOCK FALSE
