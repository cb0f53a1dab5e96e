------------------------------- MODULE Delivery -------------------------------
(***************************************************************************)
(* The delivery side: work items on a queue, the WorkItemConsumer that     *)
(* authenticates and de-duplicates them, and the DeliveryWorker it hands   *)
(* them to, with the endpoint registry, the consent ledger, the circuit    *)
(* breaker and the dead-letter queue it consults.                          *)
(*                                                                         *)
(* One process runs the Workers as threads sharing these objects.  The     *)
(* queue is external and at-least-once: an item stays until consume        *)
(* returns, so one whose handler raised is delivered again, and a second   *)
(* thread may get it meanwhile.  So is the callback to which the consumer  *)
(* dead-letters what it rejects: it may raise, as one that wraps a full    *)
(* DeadLetterQueue does.  One owner and one channel suffice.               *)
(***************************************************************************)
EXTENDS Integers, Sequences, FiniteSets

CONSTANTS
    Jobs,           \* work items, each with its own nonce
    Valid,          \* jobs with an authentic MAC from a producer entitled to the owner
    Owned,          \* jobs that carry an owner
    Encryptable,    \* jobs whose payload the channel can carry confidentially
    Endpoints,      \* the owner's endpoints for the channel
    Workers,        \* threads of the worker process
    TTL,            \* WorkItemConsumer.ttl_seconds, in ticks
    Threshold,      \* CircuitBreaker.threshold
    DLQSize,        \* DeadLetterQueue.max_size
    MaxTime,        \* bound: the clock stops here
    MaxRestarts,    \* bound: restarts of the process
    MaxChanges      \* bound: changes of consent and endpoints, breaker resets

ASSUME DeliveryAssumption ==
    /\ Valid \subseteq Jobs /\ Owned \subseteq Jobs /\ Encryptable \subseteq Jobs
    /\ IsFiniteSet(Workers) /\ Workers # {}
    /\ TTL \in Nat /\ Threshold \in Nat \ {0} /\ DLQSize \in Nat
    /\ MaxTime \in Nat \ {0} /\ MaxRestarts \in Nat /\ MaxChanges \in Nat

VARIABLES
    now, timeUp,    \* clock; is the audit log's time source available?
    issued,         \* when each job was signed and enqueued (None: not yet)
    queue,          \* jobs on the queue
    seen,           \* the consumer's nonces
    endpoint,       \* "new", "verified" or "revoked", for each endpoint
    confirming,     \* endpoints a confirm under way has read, not yet revoked
    overwritten,    \* history: endpoints whose revocation a confirm has written over
    granted,        \* does the ledger authorize the channel now?
    breaker,        \* consecutive failures, and whether it is open
    dlq,            \* the worker's dead-letter queue
    shelved,        \* the jobs the consumer's dead-letter callback has taken
    work,           \* each worker's step and local variables
    audit,          \* the audit trail, as pairs of job and what was recorded
    sends,          \* history: how often each job was handed to the channel
    skipped,        \* history: jobs dropped because the breaker was open
    late,           \* history: sends since the breaker opened
    restarts, changes

permits == <<endpoint, confirming, overwritten, granted>>
env == <<now, timeUp, issued, permits, restarts, changes>>
vars == <<env, queue, seen, breaker, dlq, shelved, work, audit, sends, skipped, late>>

None == 0
Closed == [failures |-> 0, open |-> FALSE]

(* A worker's locals; the last three fields are history: was consent given *)
(* and which endpoints were eligible, at some instant of its processing,   *)
(* and which had been revoked when that began?                             *)
Idle == [step |-> "idle", job |-> None, ep |-> None, consented |-> FALSE, reason |-> "none",
         wasGranted |-> FALSE, wasEligible |-> {}, wasRevoked |-> {}]
Eligible == {p \in Endpoints : endpoint[p] = "verified"}
Revoked == {p \in Endpoints : endpoint[p] = "revoked"}

Init ==
    /\ now = 1 /\ timeUp = TRUE
    /\ issued = [j \in Jobs |-> None] /\ queue = {} /\ seen = {}
    /\ endpoint \in [Endpoints -> {"new", "verified"}]
    /\ confirming = {} /\ overwritten = {} /\ granted \in BOOLEAN
    /\ breaker = Closed /\ dlq = <<>> /\ shelved = {}
    /\ work = [t \in Workers |-> Idle]
    /\ audit = {} /\ sends = [j \in Jobs |-> 0] /\ skipped = {} /\ late = 0
    /\ restarts = 0 /\ changes = 0

At(t, step) == work[t].step = step
Job(t) == work[t].job
GoTo(t, step) == work' = [work EXCEPT ![t].step = step] /\ UNCHANGED queue
GiveUp(t, step, reason) ==
    work' = [work EXCEPT ![t].step = step, ![t].reason = reason] /\ UNCHANGED queue

(* consume returns: the item leaves the queue.  An exception leaves it.    *)
Done(t) == work' = [work EXCEPT ![t] = Idle] /\ queue' = queue \ {Job(t)}
Raise(t) == work' = [work EXCEPT ![t] = Idle] /\ UNCHANGED queue

AuditAppend(j, what) == timeUp /\ audit' = audit \cup {<<j, what>>}
AuditRaises == ~timeUp /\ UNCHANGED audit
-------------------------------------------------------------------------------
(* WorkItemConsumer.consume.  The callback gets a rejected job once its    *)
(* audit entry is written; an exception of either keeps it on the queue.   *)
Stale(j) == now - issued[j] \notin 0 .. TTL
RejectedUnlessFresh(j) == j \notin Valid \/ Stale(j)   \* Mutant: no replay check
Rejected(j) == j \notin Valid \/ Stale(j) \/ j \in seen

Accept(t, j) ==
    /\ At(t, "idle") /\ j \in queue /\ ~Rejected(j)
    /\ work' = [work EXCEPT ![t].step = "mark", ![t].job = j]
    /\ UNCHANGED <<env, queue, seen, breaker, dlq, shelved, audit, sends, skipped, late>>

(* Mutant: a rejected job is neither dead-lettered nor acknowledged.       *)
RejectWithoutAck(t, j) ==
    /\ At(t, "idle") /\ j \in queue /\ Rejected(j)
    /\ AuditAppend(j, "rejected")
    /\ UNCHANGED <<env, queue, seen, breaker, dlq, shelved, work, sends, skipped, late>>

Reject(t, j) ==
    /\ At(t, "idle") /\ j \in queue /\ Rejected(j)
    /\ AuditAppend(j, "rejected")
    /\ work' = [work EXCEPT ![t].step = "rejected", ![t].job = j]
    /\ UNCHANGED <<env, queue, seen, breaker, dlq, shelved, sends, skipped, late>>

(* Mutant: a rejected job is not dead-lettered.                            *)
AcknowledgeRejected(t) ==
    /\ At(t, "rejected")
    /\ Done(t) /\ UNCHANGED shelved
    /\ UNCHANGED <<env, seen, breaker, dlq, audit, sends, skipped, late>>

CallbackRaises(t) == At(t, "rejected") /\ Raise(t) /\ UNCHANGED shelved
DeadLetterRejected(t) ==
    /\ At(t, "rejected")
    /\ \/ Done(t) /\ shelved' = shelved \cup {Job(t)}
       \/ CallbackRaises(t)
    /\ UNCHANGED <<env, seen, breaker, dlq, audit, sends, skipped, late>>

(* Mutant: the nonce is not marked before the handler runs.                *)
MarkAfterwards(t) ==
    /\ At(t, "mark")
    /\ work' = [work EXCEPT ![t].step = "resolve",
                            ![t].wasGranted = granted, ![t].wasEligible = Eligible,
                            ![t].wasRevoked = Revoked]
    /\ UNCHANGED <<env, queue, seen, breaker, dlq, shelved, audit, sends, skipped, late>>

(* The nonce is marked before the handler runs; the handler is process.    *)
Mark(t) ==
    /\ At(t, "mark")
    /\ seen' = seen \cup {Job(t)}
    /\ work' = [work EXCEPT
           ![t].step = IF Job(t) \in Owned THEN "resolve" ELSE "dead letter",
           ![t].reason = IF Job(t) \in Owned THEN "none" ELSE "no_owner",
           ![t].wasGranted = granted, ![t].wasEligible = Eligible, ![t].wasRevoked = Revoked]
    /\ UNCHANGED <<env, queue, breaker, dlq, shelved, audit, sends, skipped, late>>

(* DeliveryWorker.process: resolve the endpoint, then read the consent;    *)
(* either store may time out.                                              *)
Resolve(t) ==
    /\ At(t, "resolve")
    /\ \/ \E p \in Eligible :
              work' = [work EXCEPT ![t].step = "consent", ![t].ep = p] /\ UNCHANGED queue
       \/ Eligible = {} /\ GoTo(t, "consent")
       \/ GiveUp(t, "deny", "resolution_error")
    /\ UNCHANGED <<env, seen, breaker, dlq, shelved, audit, sends, skipped, late>>

ReadConsent(t) ==
    /\ At(t, "consent")
    /\ \/ /\ work' = [work EXCEPT ![t].step = "checks", ![t].consented = granted]
          /\ UNCHANGED queue
       \/ GiveUp(t, "deny", "resolution_error")
    /\ UNCHANGED <<env, seen, breaker, dlq, shelved, audit, sends, skipped, late>>

DenialOfEndpoint(t) ==  \* Mutant: the consent is not consulted
    IF work[t].ep \notin Eligible THEN "endpoint_ownership" ELSE "none"

Denial(t) ==
    IF work[t].ep \notin Eligible THEN "endpoint_ownership"
    ELSE IF ~work[t].consented THEN "consent_withdrawn"
    ELSE "none"

Check(t) ==
    /\ At(t, "checks")
    /\ IF Denial(t) # "none" THEN GiveUp(t, "deny", Denial(t)) ELSE GoTo(t, "breaker")
    /\ UNCHANGED <<env, seen, breaker, dlq, shelved, audit, sends, skipped, late>>

(* Mutant: the breaker is not asked.                                       *)
BuildPayload(t) ==
    /\ At(t, "breaker")
    /\ IF Job(t) \in Encryptable THEN GoTo(t, "send") ELSE GiveUp(t, "deny", "payload_unencryptable")
    /\ UNCHANGED <<env, seen, breaker, dlq, shelved, audit, sends, skipped, late>>

(* The breaker allows it and the payload can be built, which is local.     *)
AskBreaker(t) ==
    /\ At(t, "breaker")
    /\ IF breaker.open THEN Done(t) /\ skipped' = skipped \cup {Job(t)}
       ELSE IF Job(t) \notin Encryptable
            THEN GiveUp(t, "deny", "payload_unencryptable") /\ UNCHANGED skipped
       ELSE GoTo(t, "send") /\ UNCHANGED skipped
    /\ UNCHANGED <<env, seen, breaker, dlq, shelved, audit, sends, late>>

(* Mutant: a send that failed is tried again at once.                      *)
SendUntilSent(t) ==
    /\ At(t, "send")
    /\ \/ GoTo(t, "sent") /\ sends' = [sends EXCEPT ![Job(t)] = @ + 1]
       \/ GoTo(t, "send") /\ sends' \in {sends, [sends EXCEPT ![Job(t)] = @ + 1]}
    /\ late' = IF breaker.open THEN late + 1 ELSE late
    /\ UNCHANGED <<env, seen, breaker, dlq, shelved, audit, skipped>>

(* The adapter may fail before or after the channel took the message.      *)
Send(t) ==
    /\ At(t, "send")
    /\ \/ GoTo(t, "sent") /\ sends' = [sends EXCEPT ![Job(t)] = @ + 1]
       \/ GoTo(t, "failed") /\ sends' \in {sends, [sends EXCEPT ![Job(t)] = @ + 1]}
    /\ late' = IF breaker.open THEN late + 1 ELSE late
    /\ UNCHANGED <<env, seen, breaker, dlq, shelved, audit, skipped>>

RecordSuccess(t) ==
    /\ At(t, "sent")
    /\ breaker' = Closed /\ late' = 0
    /\ GoTo(t, "audit delivered")
    /\ UNCHANGED <<env, seen, dlq, shelved, audit, sends, skipped>>

RecordFailure(t) ==
    /\ At(t, "failed")
    /\ breaker' = [failures |-> breaker.failures + 1,
                   open |-> breaker.open \/ breaker.failures + 1 >= Threshold]
    /\ GoTo(t, "audit failed")
    /\ UNCHANGED <<env, seen, dlq, shelved, audit, sends, skipped, late>>

AuditDelivered(t) ==
    /\ At(t, "audit delivered")
    /\ \/ AuditAppend(Job(t), "delivered") /\ Done(t)
       \/ AuditRaises /\ GiveUp(t, "dead letter", "audit_unrecordable")
    /\ UNCHANGED <<env, seen, breaker, dlq, shelved, sends, skipped, late>>

AuditFailed(t) ==
    /\ At(t, "audit failed")
    /\ \/ AuditAppend(Job(t), "failed") /\ GiveUp(t, "dead letter", "send_failed")
       \/ AuditRaises /\ Raise(t)
    /\ UNCHANGED <<env, seen, breaker, dlq, shelved, sends, skipped, late>>

AuditDenial(t) ==
    /\ At(t, "deny")
    /\ \/ AuditAppend(Job(t), work[t].reason) /\ Done(t)
       \/ AuditRaises /\ Raise(t)
    /\ UNCHANGED <<env, seen, breaker, dlq, shelved, sends, skipped, late>>

(* _dead_letter writes its audit entry first; a full queue then raises.    *)
DeadLetter(t) ==
    /\ At(t, "dead letter")
    /\ \/ /\ AuditAppend(Job(t), "dead_letter")
          /\ IF Len(dlq) < DLQSize
             THEN Done(t) /\ dlq' = Append(dlq, <<Job(t), work[t].reason>>)
             ELSE Raise(t) /\ UNCHANGED dlq
       \/ AuditRaises /\ Raise(t) /\ UNCHANGED dlq
    /\ UNCHANGED <<env, seen, breaker, shelved, sends, skipped, late>>

WorkerStep(t) ==
    \/ \E j \in Jobs : Accept(t, j) \/ Reject(t, j)
    \/ DeadLetterRejected(t)
    \/ Mark(t) \/ Resolve(t) \/ ReadConsent(t) \/ Check(t) \/ AskBreaker(t) \/ Send(t)
    \/ RecordSuccess(t) \/ RecordFailure(t)
    \/ AuditDelivered(t) \/ AuditFailed(t) \/ AuditDenial(t) \/ DeadLetter(t)
-------------------------------------------------------------------------------
(* The scheduler side signs and enqueues a job.                            *)
Enqueue(j) ==
    /\ issued[j] = None
    /\ issued' = [issued EXCEPT ![j] = now] /\ queue' = queue \cup {j}
    /\ UNCHANGED <<now, timeUp, permits, restarts, changes, seen, breaker, dlq, shelved, work, audit,
                   sends, skipped, late>>

(* A restart loses what the process held in memory; the queue, the ledger, *)
(* the endpoints, what the callback took and the audit trail are in stores *)
(* of their own.                                                           *)
Restart ==
    /\ restarts < MaxRestarts /\ restarts' = restarts + 1
    /\ seen' = {} /\ breaker' = Closed /\ dlq' = <<>> /\ late' = 0
    /\ work' = [t \in Workers |-> Idle]
    /\ UNCHANGED <<now, timeUp, issued, permits, changes, queue, shelved, audit, sends, skipped>>

(* Meanwhile the user grants or withdraws consent and confirms or revokes  *)
(* endpoints, and an operator resets the breaker.  confirm reads the row,  *)
(* checks the proof, which is used up, and writes the row it read back as  *)
(* verified, whatever was written in between.  Workers under way observe   *)
(* what has become permitted.  (A confirm that has only read its row does  *)
(* not count as a change.)                                                 *)
Observe(isGranted, eligible) ==
    work' = [t \in Workers |->
        IF work[t].step \in {"idle", "rejected", "mark"} THEN work[t]
        ELSE [work[t] EXCEPT !.wasGranted = @ \/ isGranted, !.wasEligible = @ \cup eligible]]

ChangeConsent ==
    /\ granted' = ~granted /\ Observe(granted', {})
    /\ UNCHANGED <<endpoint, confirming, overwritten, breaker, late>>
StartConfirm(p) ==
    /\ endpoint[p] = "new" /\ confirming' = confirming \cup {p}
    /\ UNCHANGED <<endpoint, overwritten, granted, breaker, late, work, changes>>
Confirm(p) ==
    /\ p \in confirming /\ confirming' = confirming \ {p}
    /\ endpoint' = [endpoint EXCEPT ![p] = "verified"] /\ Observe(FALSE, {p})
    /\ overwritten' = overwritten \cup (Revoked \cap {p})
    /\ UNCHANGED <<granted, breaker, late>>
Revoke(p) ==
    /\ endpoint' = [endpoint EXCEPT ![p] = "revoked"]
    /\ UNCHANGED <<confirming, overwritten, granted, work, breaker, late>>
ResetBreaker ==
    /\ breaker' = Closed /\ late' = 0
    /\ UNCHANGED <<permits, work>>

Change ==
    /\ changes < MaxChanges
    /\ \/ \E p \in Endpoints : StartConfirm(p)
       \/ /\ ChangeConsent \/ ResetBreaker \/ \E p \in Endpoints : Confirm(p) \/ Revoke(p)
          /\ changes' = changes + 1
    /\ UNCHANGED <<now, timeUp, issued, restarts, queue, seen, dlq, shelved, audit, sends, skipped>>

Tick ==
    /\ now < MaxTime /\ now' = now + 1
    /\ UNCHANGED <<timeUp, issued, permits, restarts, changes, queue, seen, breaker, dlq, shelved, work,
                   audit, sends, skipped, late>>
TimeSource ==
    /\ timeUp' = ~timeUp
    /\ UNCHANGED <<now, issued, permits, restarts, changes, queue, seen, breaker, dlq, shelved, work,
                   audit, sends, skipped, late>>

Next ==
    \/ \E t \in Workers : WorkerStep(t)
    \/ \E j \in Jobs : Enqueue(j)
    \/ Restart \/ Change \/ Tick \/ TimeSource

(* A worker thread that can take a step is not starved.                    *)
Fairness == \A t \in Workers : WF_vars(WorkerStep(t))
Spec == Init /\ [][Next]_vars /\ Fairness
-------------------------------------------------------------------------------
Steps == {"idle", "rejected", "mark", "resolve", "consent", "checks", "breaker", "send", "sent",
          "failed", "deny", "audit delivered", "audit failed", "dead letter"}
Reasons == {"none", "no_owner", "resolution_error", "endpoint_ownership", "consent_withdrawn",
            "payload_unencryptable", "send_failed", "audit_unrecordable"}
Outcomes == (Reasons \ {"none"}) \cup {"rejected", "delivered", "failed", "dead_letter"}

(* A worker at a step past the consumer holds a job that it marked as      *)
(* seen, one about to dead-letter a rejected job has it on the trail, and  *)
(* one about to send holds an endpoint.                                    *)
TypeOK ==
    /\ now \in 1 .. MaxTime /\ timeUp \in BOOLEAN
    /\ issued \in [Jobs -> 0 .. MaxTime] /\ queue \subseteq Jobs /\ seen \subseteq Jobs
    /\ endpoint \in [Endpoints -> {"new", "verified", "revoked"}]
    /\ confirming \subseteq Endpoints /\ overwritten \subseteq Endpoints /\ granted \in BOOLEAN
    /\ breaker.failures \in Nat /\ breaker.open \in BOOLEAN /\ Len(dlq) <= DLQSize
    /\ shelved \subseteq Jobs
    /\ \A t \in Workers :
        /\ work[t].step \in Steps /\ work[t].reason \in Reasons
        /\ work[t].step \notin {"idle", "rejected", "mark"} => Job(t) \in Valid \cap seen
        /\ At(t, "rejected") => <<Job(t), "rejected">> \in audit
        /\ work[t].step \in {"send", "sent"} => work[t].ep \in Endpoints
    /\ audit \subseteq Jobs \X Outcomes

(* process re-verifies at send time: every send goes to an endpoint that   *)
(* was verified and not revoked, with consent that was granted, at some    *)
(* instant since the consumer handed the job over.  So a withdrawal from   *)
(* before that is honoured unless consent is given again, and a revocation *)
(* unless a confirmation under way writes its stale row over it.           *)
SendIsAuthorized ==
    \A t \in Workers : At(t, "send") =>
        /\ work[t].wasGranted /\ work[t].ep \in work[t].wasEligible
        /\ work[t].ep \in work[t].wasRevoked => work[t].ep \in overwritten

(* The nonce makes a job idempotent within one life of the process, but    *)
(* threads that check it before any of them marks it each send it: a job   *)
(* is sent at most once per thread and life of the process.                *)
SendsAreBounded == \A j \in Jobs : sends[j] <= Cardinality(Workers) * (1 + restarts)

(* The breaker fails closed: once it is open, only threads that were past  *)
(* it already may still send, one message each, before it is reset.        *)
LateSendsAreBounded == late < Cardinality(Workers)

(* A job leaves the queue only settled on the audit trail, or rejected on  *)
(* the trail and dead-lettered, unless the open breaker made the worker    *)
(* skip it.  (A send that failed is not settled until it is dead-lettered.) *)
Settled(j) == \E outcome \in Outcomes \ {"rejected", "failed"} : <<j, outcome>> \in audit
NoSilentLoss ==
    \A j \in Jobs : issued[j] # None /\ j \notin queue =>
        j \in skipped \/ Settled(j) \/ (j \in shelved /\ <<j, "rejected">> \in audit)

(* No job poisons the queue: once the audit log can write again for good   *)
(* and the callback of the consumer raises no more, every job eventually   *)
(* leaves the queue for good, whatever failed before.  (Every job is       *)
(* enqueued once at most, so that then the queue is empty.)                *)
EveryJobLeavesTheQueue ==
    <>[]timeUp /\ <>[][\A t \in Workers : ~CallbackRaises(t)]_vars => <>[](queue = {})

(* The delivery side in terms of Dispatch.  A job has as many leases as    *)
(* there are threads until it is seen, and from then on as many as there   *)
(* are threads that hold it and may still send it.                         *)
Places ==
    [j \in Jobs |-> IF issued[j] = None THEN "unissued"
                    ELSE IF j \in queue THEN "queued" ELSE "gone"]
Senders(j) ==
    {t \in Workers : /\ Job(t) = j
                     /\ work[t].step \in {"mark", "resolve", "consent", "checks", "breaker", "send"}}
Leases == [j \in Jobs |-> Cardinality(IF j \in seen THEN Senders(j) ELSE Workers)]

Dispatching == INSTANCE Dispatch WITH
    Authentic <- Valid, Deliverable <- Valid \cap Owned \cap Encryptable,
    Limit <- Cardinality(Workers),
    place <- Places, leases <- Leases, sent <- sends, trail <- audit, dropped <- skipped,
    lives <- 1 + restarts

(* The delivery side implements Dispatch, whatever threads, redeliveries,  *)
(* outages and restarts interleave: a job leaves the queue settled on the  *)
(* trail, rejected on the trail and dead-lettered, or skipped; only        *)
(* authentic jobs with an owner and a confidential channel are sent, each  *)
(* by as many threads as had passed the nonce check before it was marked;  *)
(* and a job is recorded as delivered only if it was sent.                 *)
JobsAreDispatched == Dispatching!Spec

(* worker.py: a message whose delivery cannot be recorded is treated as    *)
(* not delivered and dead-lettered.  So a job sent and no longer worked on *)
(* has its attempt on the trail or is in the dead-letter queue.            *)
UnrecordedSendIsDeadLettered ==
    \A j \in Jobs :
        sends[j] > 0 /\ restarts = 0 /\ (\A t \in Workers : Job(t) # j) =>
            \/ <<j, "delivered">> \in audit \/ <<j, "failed">> \in audit
            \/ j \in shelved \/ \E i \in DOMAIN dlq : dlq[i][1] = j
=============================================================================
