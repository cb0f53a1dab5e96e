------------------------------- MODULE MCAccess -------------------------------
(* A small instance of Access for TLC.                                     *)
EXTENDS Access, TLC

CONSTANTS t1, t2, u1, u2, b1, b2, p1, p2, k1, k2, k3, job, web

MCKeysOf == [p \in {p1, p2} |-> IF p = p1 THEN {k1, k2} ELSE {k3}]
MCGrants == [c \in {job, web} |-> IF c = job THEN {p1} ELSE {p2}]

MCBudget == [s \in Uses |->
    CASE s = "sessions"       -> [calls |-> 4, time |-> 4]
      [] s = "refresh tokens" -> [calls |-> 5, time |-> 1]
      [] s = "logins"         -> [calls |-> 3, time |-> 3]
      [] s = "passkeys"       -> [calls |-> 6, time |-> 1]
      [] s = "vault"          -> [calls |-> 4, time |-> 1]
      [] s = "requests"       -> [calls |-> 4, time |-> 3]
      [] s = "exports"        -> [calls |-> 5, time |-> 3]]

MCSymmetry == Permutations({t1, t2}) \cup Permutations({b1, b2}) \cup Permutations({u1, u2})

(* One request to be served, and one for each way to refuse it.            *)
Good == [secure |-> TRUE, big |-> FALSE, mutating |-> TRUE, token |-> TRUE, site |-> "absent",
         origin |-> FALSE, principal |-> "capable", owner |-> "self"]
MCRequests == {
    Good,
    [Good EXCEPT !.secure = FALSE],
    [Good EXCEPT !.big = TRUE],
    [Good EXCEPT !.token = FALSE, !.site = "same-site", !.origin = TRUE],
    [Good EXCEPT !.token = FALSE, !.origin = TRUE],
    [Good EXCEPT !.owner = "other"],
    [Good EXCEPT !.principal = "broken", !.owner = "none", !.mutating = FALSE] }
===============================================================================
