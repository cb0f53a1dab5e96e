----------------------------- MODULE Repository -----------------------------
(***************************************************************************)
(* The state the PingPals services share: one owner's rows in the          *)
(* owner-scoped repository, the audit trail, the server clock and the      *)
(* requests the API threads are executing.                                 *)
(*                                                                         *)
(* A service method makes several repository calls.  Each call is atomic,  *)
(* the method is not, and what list and get return is a copy that may be   *)
(* stale by the time the method uses it.  A table is a function from the   *)
(* ids of the rows present to the rows.                                    *)
(***************************************************************************)
EXTENDS Integers, Sequences, FiniteSets

CONSTANTS
    ContactIds,     \* ids a contact row can have
    CategoryIds,    \* ids a category row can have
    WindowIds,      \* scheduling windows
    Cadence,        \* [CategoryIds -> Nat]: default_cadence_days, in ticks
    Threads,        \* API threads
    MaxTime,        \* bound: the clock stops here
    MaxRequests     \* bound: API requests in a behaviour

ASSUME RepositoryAssumption ==
    /\ IsFiniteSet(ContactIds) /\ IsFiniteSet(WindowIds)
    /\ Cadence \in [CategoryIds -> Nat]
    /\ MaxTime \in Nat \ {0} /\ MaxRequests \in Nat

VARIABLES
    now,        \* server clock, in ticks
    timeUp,     \* is the audit log's time source available?
    category,   \* ids of the category rows
    contact,    \* contact rows
    reminder,   \* reminder rows, by idempotency key
    event,      \* contact_event rows, as pairs <<contact_id, record_time>>
    audit,      \* entries of the audit trail
    api,        \* the request each API thread is executing
    requests,   \* API requests started so far
    touched     \* history: when each contact row was last written

None == 0       \* an absent time or field; the clock starts at 1

(* A reminder's idempotency key "contact:window", and its row id (the key  *)
(* with "-" for ":"), stand for this pair: ids are hex, without either.    *)
Keys == ContactIds \X WindowIds

Statuses == {"pending", "snoozed", "dismissed", "contacted"}
ContactRow == [category_id : CategoryIds, snooze_until : Nat, last_contacted_at : Nat]
ReminderRow == [status : Statuses, due_at : Nat]

IsTable(rows, Ids, Row) == DOMAIN rows \subseteq Ids /\ rows \in [DOMAIN rows -> Row]

(* InMemoryRepository.add, update and delete on one table.                 *)
Add(rows, id, row) == [x \in DOMAIN rows \cup {id} |-> IF x = id THEN row ELSE rows[x]]
Update(rows, id, row) == IF id \in DOMAIN rows THEN [rows EXCEPT ![id] = row] ELSE rows
Delete(rows, id) == [x \in DOMAIN rows \ {id} |-> rows[x]]
Rows(rows, ids) == [x \in DOMAIN rows \cap ids |-> rows[x]]     \* copies, as get returns

WriteContacts(c, rows) == contact' = rows /\ touched' = [touched EXCEPT ![c] = now]

(* TamperEvidentAuditLog.append stamps the entry with the server's time,   *)
(* and raises, writing nothing, when the time source is unavailable.       *)
AuditAppend(action, ref) ==
    /\ timeUp
    /\ audit' = audit \cup {[action |-> action, ref |-> ref, at |-> now]}
AuditRaises == ~timeUp /\ UNCHANGED audit

(* A request: the operation, the step it makes next, the contact, window   *)
(* and category it names, and a time (a snooze's end, a record time).      *)
NoRequest == [op |-> "none", step |-> "none", c |-> None, w |-> None, g |-> None, arg |-> None]
Request(op, step) == [NoRequest EXCEPT !.op = op, !.step = step]
Key(t) == <<api[t].c, api[t].w>>

At(t, op, step) == api[t].op = op /\ api[t].step = step
Begin(t, request) ==
    /\ api[t] = NoRequest
    /\ requests < MaxRequests
    /\ requests' = requests + 1
    /\ api' = [api EXCEPT ![t] = request]
GoTo(t, step) == api' = [api EXCEPT ![t].step = step] /\ UNCHANGED requests
Finish(t) == api' = [api EXCEPT ![t] = NoRequest] /\ UNCHANGED requests
=============================================================================
